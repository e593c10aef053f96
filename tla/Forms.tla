-------------------------------- MODULE Forms --------------------------------
(***************************************************************************)
(* How a test or an agent fills and submits a form of a UI Kit module:     *)
(* fillField(), submitForm(), settle() and interact() of                   *)
(* ui/simulator-ui.ts, simulateEvent() of ui/doc-utils.ts, and the tool    *)
(* forge_ui_fill_form (mcp-server.ts).  The form is one the app has        *)
(* mounted: its effect loads values, React commits its updates later, and  *)
(* every commit is filed under the module in whose scope it was scheduled. *)
(*                                                                         *)
(* A form of style "registered" keeps its values in a store, as            *)
(* react-hook-form does; one of style "controlled" keeps them in a state   *)
(* that its handlers spread, so that a handler writes the values of the    *)
(* commit it is of.                                                        *)
(*                                                                         *)
(* Bounds: Fillings are all the calls, HeldNodes the nodes that tests hold *)
(* on to; the form loads once, and another module is rendered once.        *)
(***************************************************************************)
EXTENDS SequencesExt, Naturals

CONSTANTS FormFields,  \* names of the form's fields
          FillLists,   \* sequences of [name, input] that a call fills in
          Fillings,    \* the calls, numbered in the order they begin
          HeldNodes

ASSUME FormsAssumption ==
  /\ \A list \in FillLists : list \in Seq({list[i] : i \in DOMAIN list})
  /\ Fillings \subseteq Nat

Blank == "blank"
Loaded == "loaded"
NotHanded == <<>>
NoFilling == [at |-> "free", list |-> <<>>, handed |-> NotHanded, excused |-> FALSE]

VARIABLES entered,   \* field -> what the form holds
          filed,     \* field -> what the doc filed under the form's module shows
          update,    \* a commit that is due: "none", "own" (to be filed under the form's
                     \* module) or "latest" (under the module rendered last)
          style,
          load,      \* "effect", "invoke" or "request" under way, or "done"
          inFront,   \* the form's module was rendered last
          fillings,  \* call -> its stage, list, what it handed over, and history: whether
                     \* something came between its filling and its submit
          nodes,     \* node that is held -> what its handlers close over, or NotHanded
          otherDoc,  \* what is filed under the other module: "own" or "form"
          outOfScope, \* history: a commit that a driver made due was, with the other in front
          gaveUp     \* history: the calls that filled in a form their settle() gave up on

fmVars == <<entered, filed, update, style, load, inFront, fillings, nodes, otherDoc,
            outOfScope, gaveUp>>

BetweenSteps(c) == fillings[c].at \in {"ticking", "submitting"}

\* What happens may undo what the calls of S have filled in.
Disturbed(S) ==
  [c \in Fillings |->
     IF c \in S /\ BetweenSteps(c) THEN [fillings[c] EXCEPT !.excused = TRUE] ELSE fillings[c]]

-----------------------------------------------------------------------------
(* The app and React *)

\* The effect of the mount asks a resolver, or a product through the bridge.
FlushEffect ==
  /\ load = "effect"
  /\ load' \in {"invoke", "request"}
  /\ UNCHANGED <<entered, filed, update, style, inFront, fillings, nodes, otherDoc, outOfScope,
                 gaveUp>>

\* Its answer, however late, is put into every field, in the scope of the mount.
LoadArrives ==
  /\ load \in {"invoke", "request"}
  /\ load' = "done"
  /\ entered' = [f \in FormFields |-> Loaded]
  /\ update' = IF update = "none" THEN "own" ELSE update
  /\ fillings' = Disturbed(IF load = "request" THEN Fillings ELSE gaveUp)
  /\ UNCHANGED <<filed, style, inFront, nodes, otherDoc, outOfScope, gaveUp>>

\* Mutant: a commit belongs to the module rendered last, whoever scheduled it.
FilesWithTheLatest == inFront

\* The scope of the update, or else the module rendered last.
FilesWithTheForm == update = "own" \/ inFront

CommitForm ==
  /\ update # "none"
  /\ update' = "none"
  /\ IF FilesWithTheForm THEN filed' = entered /\ UNCHANGED otherDoc
     ELSE otherDoc' = "form" /\ UNCHANGED filed
  /\ fillings' = Disturbed(IF FilesWithTheForm THEN {} ELSE Fillings)
  /\ UNCHANGED <<entered, style, load, inFront, nodes, outOfScope, gaveUp>>

RenderOther ==
  /\ inFront /\ inFront' = FALSE
  /\ outOfScope' = (update = "latest")
  /\ UNCHANGED <<entered, filed, update, style, load, fillings, nodes, otherDoc, gaveUp>>

\* What the list says of the field f last.
Places(list, f) == {i \in DOMAIN list : list[i].name = f}
LastInput(list, f) == list[CHOOSE i \in Places(list, f) : \A j \in Places(list, f) : j <= i].input

\* onChange handlers of one tree, called one after the other: each writes its field into the
\* store, or a state of its own making, in which only the last one's survives.
Typed(values, seen, list) ==
  IF list = <<>> THEN values
  ELSE IF style = "registered"
  THEN [f \in FormFields |-> IF Places(list, f) = {} THEN values[f] ELSE LastInput(list, f)]
  ELSE [seen EXCEPT ![Last(list).name] = Last(list).input]

\* A handler that sets state outside any scope.
Driven ==
  /\ update' = IF update = "none" THEN "latest" ELSE update
  /\ outOfScope' = (outOfScope \/ ~inFront)

-----------------------------------------------------------------------------
(* settle() *)

\* Mutant: the invocations under way are not counted.
QuietIsEnough == update = "none" /\ load # "effect"

\* No commit for a while, and no invocation under way; requests to a product do not count.
IsQuiet == update = "none" /\ load \notin {"effect", "invoke"}

\* Its five seconds are over: it goes on all the same, whether an invocation is slow or never
\* ends, or the form keeps rendering.  The effect of the mount is long flushed by then.
GivesUp == ~IsQuiet /\ load # "effect"

-----------------------------------------------------------------------------
(* forge_ui_fill_form, and submitForm() *)

BeginFill(c) ==
  /\ fillings[c].at = "free"
  /\ \A b \in Fillings : b < c => fillings[b].at # "free"
  /\ fillings' = [fillings EXCEPT ![c].at = "settling"]
  /\ UNCHANGED <<entered, filed, update, style, load, inFront, nodes, otherDoc, outOfScope,
                 gaveUp>>

SettleBefore(c) ==
  /\ fillings[c].at = "settling"
  /\ \/ IsQuiet /\ UNCHANGED gaveUp
     \/ GivesUp /\ gaveUp' = gaveUp \cup {c}
  /\ fillings' = [fillings EXCEPT ![c].at = "filling"]
  /\ UNCHANGED <<entered, filed, update, style, load, inFront, nodes, otherDoc, outOfScope>>

\* The fields ahead of the first unknown name: the call fails there, and they stay filled.
Known(list) ==
  LET wrong == {i \in DOMAIN list : list[i].name \notin FormFields} IN
  IF wrong = {} THEN list
  ELSE SubSeq(list, 1, (CHOOSE i \in wrong : \A j \in wrong : i <= j) - 1)

\* Mutant: the form is submitted without waiting for the commit.
SubmitAtOnce(c) == "submitting"

AfterFilling(c) == "ticking"

FillFields(c, list, submits) ==
  LET known == Known(list)
      next == IF known # list THEN "failed"
              ELSE IF submits THEN AfterFilling(c) ELSE "ending"
  IN
  /\ fillings[c].at = "filling"
  /\ entered' = Typed(entered, filed, known)
  /\ IF known = <<>> THEN UNCHANGED <<update, outOfScope>> ELSE Driven
  /\ fillings' = [Disturbed(IF known = <<>> THEN {} ELSE Fillings \ {c}) EXCEPT
                    ![c] = [at |-> next, list |-> IF next = "failed" THEN <<>> ELSE list,
                            handed |-> NotHanded,
                            excused |-> style = "controlled" /\ Len(list) > 1]]
  /\ UNCHANGED <<filed, style, load, inFront, nodes, otherDoc, gaveUp>>

\* A timer of no time, ahead of which React commits.
Beat(c) ==
  /\ fillings[c].at = "ticking"
  /\ update = "none"
  /\ fillings' = [fillings EXCEPT ![c].at = "submitting"]
  /\ UNCHANGED <<entered, filed, update, style, load, inFront, nodes, otherDoc, outOfScope,
                 gaveUp>>

\* onSubmit of the doc that is filed: a store is read now, a state is that of the commit.
Submit(c) ==
  /\ fillings[c].at = "submitting"
  /\ fillings' = [fillings EXCEPT ![c].at = "ending",
                    ![c].handed = IF style = "registered" THEN entered ELSE filed]
  /\ UNCHANGED <<entered, filed, update, style, load, inFront, nodes, otherDoc, outOfScope,
                 gaveUp>>

\* It settles again before it answers.
SettleAfter(c) ==
  /\ fillings[c].at = "ending"
  /\ IsQuiet \/ GivesUp
  /\ fillings' = [fillings EXCEPT ![c] = [NoFilling EXCEPT !.at = "done"]]
  /\ UNCHANGED <<entered, filed, update, style, load, inFront, nodes, otherDoc, outOfScope,
                 gaveUp>>

-----------------------------------------------------------------------------
(* interact() with a node: a field is cleared *)

HoldNode(n) ==
  /\ nodes[n] = NotHanded
  /\ nodes' = [nodes EXCEPT ![n] = filed]
  /\ UNCHANGED <<entered, filed, update, style, load, inFront, fillings, otherDoc, outOfScope,
                 gaveUp>>

Interact(n) ==
  /\ nodes[n] # NotHanded
  /\ \E f \in FormFields :
       entered' = Typed(entered, nodes[n], <<[name |-> f, input |-> Blank]>>)
  /\ Driven
  /\ nodes' = [nodes EXCEPT ![n] = NotHanded]
  /\ fillings' = Disturbed(Fillings)
  /\ UNCHANGED <<filed, style, load, inFront, otherDoc, gaveUp>>

-----------------------------------------------------------------------------
FormsInit ==
  /\ entered = [f \in FormFields |-> Blank] /\ filed = entered
  /\ update = "none" /\ style \in {"registered", "controlled"}
  /\ load = "effect" /\ inFront = TRUE
  /\ fillings = [c \in Fillings |-> NoFilling]
  /\ nodes = [n \in HeldNodes |-> NotHanded]
  /\ otherDoc = "own" /\ outOfScope = FALSE /\ gaveUp = {}

FillStep(c) ==
  \/ BeginFill(c)
  \/ SettleBefore(c)
  \/ \E list \in FillLists, submits \in BOOLEAN : FillFields(c, list, submits)
  \/ Beat(c)
  \/ Submit(c)
  \/ SettleAfter(c)

FormsNext ==
  \/ FlushEffect \/ LoadArrives \/ CommitForm \/ RenderOther
  \/ \E c \in Fillings : FillStep(c)
  \/ \E n \in HeldNodes : HoldNode(n) \/ Interact(n)

FormsSpec == FormsInit /\ [][FormsNext]_fmVars

-----------------------------------------------------------------------------
(* The app is handed what the call filled in: "a late useEffect cannot
   clobber the value" (mcp-server.ts:730).  Excused is a call whose form was
   loading something when it filled it in: from a product, for which settle()
   does not wait, or from a resolver it gave up on, whose answer then came
   ahead of the submit.  So is one that somebody else drove the form during,
   and one that filled several fields of a controlled form at once, or one
   behind another module. *)
HandsOverWhatWasFilled ==
  \A c \in Fillings :
    LET it == fillings[c] IN
    (it.handed # NotHanded /\ ~it.excused)
      => \A i \in DOMAIN it.list :
           (\A j \in DOMAIN it.list : j > i => it.list[j].name # it.list[i].name)
             => it.handed[it.list[i].name] = it.list[i].input

(* A commit is filed under another module only if the form was driven while
   that one was in front: what the effects of a mount set is filed under
   their own module, whatever was rendered since. *)
DocsStayApart == otherDoc = "form" => outOfScope

FormsAreFaithful == HandsOverWhatWasFilled /\ DocsStayApart
=============================================================================
