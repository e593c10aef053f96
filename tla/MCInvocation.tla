---------------------------- MODULE MCInvocation ----------------------------
(* Instances of Invocation for TLC.  Key kPage belongs to the page panel, kFree
   to no module and kHook to a web trigger.  Call effect comes from the page
   panel; it makes and awaits inner with a context of its own, which makes served, a
   web trigger; that makes wrong, which names a module that may not call its
   key, and hook, as if the web trigger were a resolver; direct comes from a
   test. *)
EXTENDS Invocation, TLC

CONSTANTS panel, macro, kPage, kFree, kHook, rPage, rMacro, effect, inner, direct, wrong, hook, served

Req(via, key, module, scope, patch) ==
    [via |-> via, key |-> key, module |-> module, scope |-> scope, patch |-> patch]

MCAll ==
    effect :> Req("invoke", kFree, NoModule, panel, FALSE)
    @@ inner :> Req("invoke", kPage, NoModule, NoModule, TRUE)
    @@ direct :> Req("invoke", kFree, NoModule, NoModule, FALSE)
    @@ wrong :> Req("invoke", kPage, macro, NoModule, FALSE)
    @@ served :> Req("fireWebTrigger", kHook, NoModule, NoModule, FALSE)
    @@ hook :> Req("invoke", kHook, NoModule, NoModule, FALSE)

MCRequest == [c \in Calls |-> MCAll[c]]
MCParent == [c \in Calls |-> CASE c = inner -> effect [] c = served -> inner
                               [] c \in {wrong, hook} -> served [] OTHER -> NoCall]
MCRoute == panel :> rPage @@ macro :> rMacro
MCOwner == [k \in Keys |-> IF k = kPage THEN rPage ELSE NoResolver]

=============================================================================
