--------------------------- MODULE ConsoleCapture ---------------------------
(***************************************************************************)
(* console-capture.ts: one stack of buffers that catches what handlers     *)
(* print while they run, and the way the lines take from there into        *)
(* consoleLogs (simulator.ts, invoke() and fireTrigger()).                 *)
(*                                                                         *)
(* A scope is one withCapture() call and its caller:                       *)
(*   idle -> running    the console is captured, the handler runs          *)
(*        -> settled    the handler has returned or thrown                 *)
(*        -> stopped    stopCapture() has popped a buffer                  *)
(*        -> done       the caller has logged the lines                    *)
(* Each scope prints one line, named after it; its text does not matter.   *)
(***************************************************************************)
EXTENDS Integers, Sequences, FiniteSets

CONSTANTS
    Scopes,    \* one identifier per captured handler
    Parent,    \* Parent[c]: the scope whose handler calls and awaits c
    NoScope,   \* "no scope"
    Outside,   \* lines printed by code without a scope of its own (consumers, effects)
    Errors,    \* Error objects; two scopes may throw the same one
    Ok,        \* outcome: the handler returned
    Thrown     \* outcome: it threw something that is not an Error

Lines == Scopes \cup Outside
Outcomes == Errors \cup {Ok, Thrown}

ASSUME CaptureAssumption ==
    /\ IsFiniteSet(Scopes)
    /\ Parent \in [Scopes -> Scopes \cup {NoScope}]
    /\ NoScope \notin Scopes
    /\ Scopes \cap Outside = {}
    /\ Ok \notin Errors
    /\ Thrown \notin Errors
    /\ Ok # Thrown

VARIABLES
    st,        \* st[c]: how far scope c is
    outcome,   \* outcome[c]: how its handler settled
    stack,     \* bufferStack
    result,    \* result[c]: the lines that withCapture() returns with the result
    attached,  \* attached[e]: capturedConsole of error e
    logged,    \* logged[l]: how often consoleLogs has line l
    printed,   \* history: lines caught and not cleared since
    swallowed, \* history: lines whose buffer was dropped
    shared,    \* history: an error was thrown by a scope while another had yet to log its lines
    opened,    \* history: the scope that opened each buffer of the stack
    calm       \* history: every scope began in the one opened last

captureVars == <<st, outcome, stack, result, attached, logged, printed, swallowed, shared, opened, calm>>

CaptureTypeOK ==
    /\ st \in [Scopes -> {"idle", "running", "settled", "stopped", "done"}]
    /\ outcome \in [Scopes -> Outcomes]
    /\ stack \in Seq(SUBSET Lines)
    /\ result \in [Scopes -> SUBSET Lines]
    /\ attached \in [Errors -> SUBSET Lines]
    /\ logged \in [Lines -> Nat]
    /\ printed \in SUBSET Lines
    /\ swallowed \in SUBSET Lines
    /\ shared \in BOOLEAN
    /\ opened \in Seq(Scopes)
    /\ calm \in BOOLEAN

CaptureInit ==
    /\ st = [c \in Scopes |-> "idle"]
    /\ outcome = [c \in Scopes |-> Ok]
    /\ stack = << >>
    /\ result = [c \in Scopes |-> {}]
    /\ attached = [e \in Errors |-> {}]
    /\ logged = [l \in Lines |-> 0]
    /\ printed = {}
    /\ swallowed = {}
    /\ shared = FALSE
    /\ opened = << >>
    /\ calm = TRUE

-----------------------------------------------------------------------------
Top == stack[Len(stack)]
LastOpened == IF opened = << >> THEN NoScope ELSE opened[Len(opened)]
Pop(s) == SubSeq(s, 1, Len(s) - 1)

Awaited(c) == {d \in Scopes : Parent[d] = c /\ st[d] \in {"running", "settled", "stopped"}}

(* The handler of c does something: it runs and awaits no other. *)
CanAct(c) == st[c] = "running" /\ Awaited(c) = {}

(* startCapture() pushes a buffer. *)
StartCapture(c) ==
    /\ st[c] = "idle"
    /\ Parent[c] # NoScope => st[Parent[c]] = "running"
    /\ st' = [st EXCEPT ![c] = "running"]
    /\ stack' = Append(stack, {})
    /\ opened' = Append(opened, c)
    /\ calm' = (calm /\ LastOpened = Parent[c])
    /\ UNCHANGED <<outcome, result, attached, logged, printed, swallowed, shared>>

(* Mutant: the line goes to every buffer that is open. *)
CatchInAll(l) == stack' = [i \in DOMAIN stack |-> stack[i] \cup {l}]

(* The patched console pushes line l to the buffer on top. *)
Catch(l) == stack' = [stack EXCEPT ![Len(stack)] = @ \cup {l}]

PrintLine(c) ==
    /\ CanAct(c)
    /\ stack # << >>
    /\ c \notin printed /\ logged[c] = 0
    /\ Catch(c)
    /\ printed' = printed \cup {c}
    /\ UNCHANGED <<st, outcome, result, attached, logged, swallowed, shared, opened, calm>>

(* Code that runs next to a captured handler prints: to that handler's buffer. *)
PrintOutside(l) ==
    /\ stack # << >>
    /\ l \notin printed /\ logged[l] = 0
    /\ Catch(l)
    /\ printed' = printed \cup {l}
    /\ UNCHANGED <<st, outcome, result, attached, logged, swallowed, shared, opened, calm>>

Settle(c, how) ==
    /\ CanAct(c)
    /\ outcome' = [outcome EXCEPT ![c] = how]
    /\ st' = [st EXCEPT ![c] = "settled"]
    /\ UNCHANGED <<stack, result, attached, logged, printed, swallowed, shared, opened, calm>>

(* Mutant: withCapture() without the catch. *)

(* The stack after stopCapture(): the buffer on top is gone, whoever opened it. *)
Unwind(c) == stack' = Pop(stack) /\ opened' = Pop(opened)

(* The buffer that stopCapture() returns. *)
Popped(c) == IF stack = << >> THEN {} ELSE Top

(* withCapture() returns the lines with the result or attaches them to the
   error; with anything else that was thrown they are dropped. *)
StopCapture(c) ==
    /\ st[c] = "settled"
    /\ Unwind(c)
    /\ result' = IF outcome[c] = Ok THEN [result EXCEPT ![c] = Popped(c)] ELSE result
    /\ attached' = IF outcome[c] \in Errors
                   THEN [attached EXCEPT ![outcome[c]] = Popped(c)] ELSE attached
    /\ swallowed' = IF outcome[c] = Thrown THEN swallowed \cup Popped(c) ELSE swallowed
    /\ shared' = (shared \/ /\ outcome[c] \in Errors
                            /\ \E d \in Scopes \ {c} :
                                  st[d] = "stopped" /\ outcome[d] = outcome[c])
    /\ st' = [st EXCEPT ![c] = "stopped"]
    /\ UNCHANGED <<outcome, logged, printed, calm>>

(* What the caller of withCapture() gets to log. *)
InHand(c) ==
    IF outcome[c] = Ok THEN result[c]
    ELSE IF outcome[c] \in Errors THEN attached[outcome[c]] ELSE {}

(* The caller pushes the lines to consoleLogs. *)
Log(c) ==
    /\ st[c] = "stopped"
    /\ logged' = [l \in Lines |-> IF l \in InHand(c) THEN logged[l] + 1 ELSE logged[l]]
    /\ st' = [st EXCEPT ![c] = "done"]
    /\ UNCHANGED <<outcome, stack, result, attached, printed, swallowed, shared, opened, calm>>

(* reset() empties consoleLogs. *)
ClearLogs ==
    /\ \E l \in Lines : logged[l] > 0
    /\ printed' = {l \in printed : logged[l] = 0}
    /\ logged' = [l \in Lines |-> 0]
    /\ UNCHANGED <<st, outcome, stack, result, attached, swallowed, shared, opened, calm>>

CaptureNext ==
    \/ \E c \in Scopes :
          \/ StartCapture(c)
          \/ PrintLine(c)
          \/ \E how \in Outcomes : Settle(c, how)
          \/ StopCapture(c)
          \/ Log(c)
    \/ \E l \in Outside : PrintOutside(l)
    \/ ClearLogs

CaptureSpec == CaptureInit /\ [][CaptureNext]_captureVars

-----------------------------------------------------------------------------
(* Properties *)

Open == {c \in Scopes : st[c] \in {"running", "settled"}}

(* However scopes overlap and end, there is a buffer for each open one: a
   running handler's lines are always caught, and the real console is given
   back exactly when the last scope closes. *)
BuffersMatchScopes == Len(stack) = Cardinality(Open)

(* The places where line l is. *)
PlacesOf(l) ==
    Cardinality({i \in DOMAIN stack : l \in stack[i]})
    + Cardinality({c \in Scopes : st[c] = "stopped" /\ l \in InHand(c)})
    + logged[l]
    + (IF l \in swallowed THEN 1 ELSE 0)

(* Even when scopes overlap and pop each other's buffers, a line is in exactly
   one buffer, hand or place of the log: none is logged twice, and none is lost
   but those of a handler that throws a non-Error.  Not so when two scopes at a
   time throw one Error object, which can carry the lines of one only. *)
LinesAreAccountedFor == ~shared => \A l \in printed : PlacesOf(l) = 1

(* While scopes only nest, a scope is handed no other scope's lines. *)
ScopesKeepTheirLines ==
    \A c \in Scopes : (calm /\ ~shared /\ st[c] = "stopped") => InHand(c) \subseteq {c} \cup Outside

=============================================================================
