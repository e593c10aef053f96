---------------------------- MODULE ExternalAuth ----------------------------
(***************************************************************************)
(* External auth: ExternalAuthStore (src/external-auth-store.ts), the      *)
(* registry of pending OAuth flows (src/auth/oauth-callback-registry.ts)   *)
(* and the two places that start a flow: requestCredentials() of the app   *)
(* and the Connect button of the tools UI (src/tools/api.ts).              *)
(*                                                                         *)
(* A flow waits for the browser to come back with its state.  The exchange *)
(* of the code takes several awaits, during which the flow stays pending:  *)
(* its timer may fire, the browser may come back again, another flow may   *)
(* begin, the token may be revoked.                                        *)
(***************************************************************************)
EXTENDS FiniteSets

CONSTANTS Flows,        \* flows that may be started
          Providers,
          ProviderOf,   \* flow -> its provider
          FromTools,    \* flows the tools UI starts; requestCredentials() the others
          WithSecret,   \* providers that have a client secret
          Buildable,    \* providers whose authorization URL can be built
          Returns,      \* times a browser comes back to the callback URL
          Refreshes     \* calls of ensureValidToken() that find an expired token

VARIABLES pending,      \* the registry: states of flows, each with its timer
          flow,         \* flow -> its progress and how its promise settled
          return,       \* return -> which flow's state it brings, and progress
          redeemed,     \* external: flows whose code the provider has accepted
          exchanged,    \* flow -> exchangedToken of its closure
          tokens,       \* provider -> [by: who brought the token, expired]
          refresh,      \* refresh -> its provider, what it found, progress
          result        \* flow -> what interactiveOAuthFlow() returned

eaVars == <<pending, flow, return, redeemed, exchanged, tokens, refresh, result>>

Nothing == "nothing"
NoGrant == [by |-> Nothing, expired |-> FALSE]

HasCredentials(p) == tokens[p].by # Nothing /\ ~tokens[p].expired

-----------------------------------------------------------------------------
(* The registry *)

\* A promise settles once, whoever tries.
Settled(f, how) ==
  IF flow[f].settled = "no" THEN [flow EXCEPT ![f].settled = how] ELSE flow

\* cleanup() and the promise, together.
Settle(f, how) == pending' = pending \ {f} /\ flow' = Settled(f, how)

\* cancelAll(): every flow there is.
CancelledBy(f) == [g \in Flows |->
  IF g \in pending \/ g = f THEN [flow[g] EXCEPT !.settled = "cancelled"] ELSE flow[g]]

\* register(), buildAuthorizationUrl() and the browser.
Start(f) ==
  /\ flow[f].at = "new" /\ ProviderOf[f] \in WithSecret \cap Buildable
  /\ f \notin FromTools => ~HasCredentials(ProviderOf[f])
  /\ pending' = pending \cup {f}
  /\ flow' = [flow EXCEPT ![f].at = "waiting"]
  /\ UNCHANGED <<return, redeemed, exchanged, tokens, refresh, result>>

\* Without a URL the flow just registered is to be cancelled; all are.
StartWithoutUrl(f) ==
  /\ flow[f].at = "new" /\ ProviderOf[f] \in WithSecret \ Buildable
  /\ f \notin FromTools => ~HasCredentials(ProviderOf[f])
  /\ pending' = {}
  /\ flow' = [CancelledBy(f) EXCEPT ![f].at = "returned"]
  /\ UNCHANGED <<return, redeemed, exchanged, tokens, refresh, result>>

\* No secret, or credentials already there.
StartNothing(f) ==
  /\ flow[f].at = "new"
  /\ \/ ProviderOf[f] \notin WithSecret
     \/ f \notin FromTools /\ HasCredentials(ProviderOf[f])
  /\ flow' = [flow EXCEPT ![f].at = "returned"]
  /\ UNCHANGED <<pending, return, redeemed, exchanged, tokens, refresh, result>>

Timeout(f) ==
  /\ f \in pending
  /\ Settle(f, "timeout")
  /\ UNCHANGED <<return, redeemed, exchanged, tokens, refresh, result>>

-----------------------------------------------------------------------------
(* handle(): the browser is back *)

\* Mutant: the callback goes to any flow that waits for the same provider.
SomeFlowOf(f) == CHOOSE g \in pending : ProviderOf[g] = ProviderOf[f] \/ g = f

FlowOf(f) == f

\* A state nobody waits for.
ReturnUnknown(k) ==
  /\ return[k].at = "new"
  /\ \E f \in Flows \ pending :
       /\ flow[f].at # "new"
       /\ return' = [return EXCEPT ![k] = [at |-> "done", flow |-> f, code |-> f]]
  /\ UNCHANGED <<pending, flow, redeemed, exchanged, tokens, refresh, result>>

\* The provider said no, or brought no code.
ReturnError(k) ==
  /\ return[k].at = "new"
  /\ \E f \in pending :
       /\ Settle(f, "denied")
       /\ return' = [return EXCEPT ![k] = [at |-> "done", flow |-> f, code |-> f]]
  /\ UNCHANGED <<redeemed, exchanged, tokens, refresh, result>>

\* Mutant: the flow is cleaned up, timer and all, before its code is exchanged.
EarlyCleanup(f) == pending \ {f}

StaysPending(f) == pending

\* A code: onCode() is called and the flow stays pending.
ReturnCode(k) ==
  /\ return[k].at = "new"
  /\ \E f \in pending :
       /\ return' = [return EXCEPT ![k] = [at |-> "exchanging", flow |-> FlowOf(f),
                                           code |-> f]]
       /\ pending' = StaysPending(f)
  /\ UNCHANGED <<flow, redeemed, exchanged, tokens, refresh, result>>

\* External: a provider accepts a code once, if at all.
ProviderRedeems(k) ==
  /\ return[k].at = "exchanging"
  /\ \/ /\ return[k].code \notin redeemed
        /\ redeemed' = redeemed \cup {return[k].code}
        /\ return' = [return EXCEPT ![k].at = "granted"]
     \/ return' = [return EXCEPT ![k].at = "refused"] /\ UNCHANGED redeemed
  /\ UNCHANGED <<pending, flow, exchanged, tokens, refresh, result>>

\* The refusal arrives: exchangeCode() throws.
ExchangeFails(k) ==
  /\ return[k].at = "refused"
  /\ Settle(return[k].flow, "failed")
  /\ return' = [return EXCEPT ![k].at = "done"]
  /\ UNCHANGED <<redeemed, exchanged, tokens, refresh, result>>

\* The answer and the profile arrive: the token is stored, then known to the closure.
\* The tools UI's closure goes on to save it to a file.
ExchangeSucceeds(k) ==
  /\ return[k].at = "granted"
  /\ LET f == return[k].flow IN
       /\ tokens' = [tokens EXCEPT ![ProviderOf[f]] = [by |-> k, expired |-> FALSE]]
       /\ exchanged' = [exchanged EXCEPT ![f] = k]
       /\ IF f \in FromTools
          THEN return' = [return EXCEPT ![k].at = "saving"] /\ UNCHANGED <<pending, flow>>
          ELSE return' = [return EXCEPT ![k].at = "done"] /\ Settle(f, "resolved")
  /\ UNCHANGED <<redeemed, refresh, result>>

\* Saved, or failed to save: a warning at most.
TokenSaved(k) ==
  /\ return[k].at = "saving"
  /\ Settle(return[k].flow, "resolved")
  /\ return' = [return EXCEPT ![k].at = "done"]
  /\ UNCHANGED <<redeemed, exchanged, tokens, refresh, result>>

\* interactiveOAuthFlow() after its await; the tools UI awaits nothing.
FlowReturns(f) ==
  /\ flow[f].at = "waiting" /\ flow[f].settled # "no"
  /\ flow' = [flow EXCEPT ![f].at = "returned"]
  /\ result' = [result EXCEPT ![f] = IF flow[f].settled = "resolved" /\ f \notin FromTools
                                     THEN exchanged[f] ELSE Nothing]
  /\ UNCHANGED <<pending, return, redeemed, exchanged, tokens, refresh>>

-----------------------------------------------------------------------------
(* Tokens in memory *)

TokenExpires(p) ==
  /\ HasCredentials(p)
  /\ tokens' = [tokens EXCEPT ![p].expired = TRUE]
  /\ UNCHANGED <<pending, flow, return, redeemed, exchanged, refresh, result>>

\* Disconnect in the tools UI.
RevokeToken(p) ==
  /\ tokens[p].by # Nothing
  /\ tokens' = [tokens EXCEPT ![p] = NoGrant]
  /\ UNCHANGED <<pending, flow, return, redeemed, exchanged, refresh, result>>

\* ensureValidToken() finds the token expired: refreshToken() up to its await.
BeginRefresh(r) ==
  /\ refresh[r].at = "new"
  /\ \E p \in WithSecret :
       /\ tokens[p].by # Nothing /\ tokens[p].expired
       /\ refresh' = [refresh EXCEPT ![r] = [at |-> "asking", provider |-> p,
                                             existing |-> tokens[p]]]
  /\ UNCHANGED <<pending, flow, return, redeemed, exchanged, tokens, result>>

\* The answer is built on what the call found, and stored whatever is there now.
RefreshAnswered(r) ==
  /\ refresh[r].at = "asking"
  /\ refresh' = [refresh EXCEPT ![r].at = "done"]
  /\ \/ tokens' = [tokens EXCEPT ![refresh[r].provider] =
                     [refresh[r].existing EXCEPT !.expired = FALSE]]
     \/ UNCHANGED tokens
  /\ UNCHANGED <<pending, flow, return, redeemed, exchanged, result>>

ExternalAuthInit ==
  /\ pending = {}
  /\ flow = [f \in Flows |-> [at |-> "new", settled |-> "no"]]
  /\ return = [k \in Returns |-> [at |-> "new", flow |-> Nothing, code |-> Nothing]]
  /\ redeemed = {}
  /\ exchanged = [f \in Flows |-> Nothing]
  /\ tokens = [p \in Providers |-> NoGrant]
  /\ refresh = [r \in Refreshes |-> [at |-> "new"]]
  /\ result = [f \in Flows |-> Nothing]

ExternalAuthNext ==
  \/ \E f \in Flows : \/ Start(f) \/ StartWithoutUrl(f) \/ StartNothing(f)
                      \/ Timeout(f) \/ FlowReturns(f)
  \/ \E k \in Returns : \/ ReturnUnknown(k) \/ ReturnError(k) \/ ReturnCode(k)
                        \/ ProviderRedeems(k) \/ ExchangeFails(k)
                        \/ ExchangeSucceeds(k) \/ TokenSaved(k)
  \/ \E p \in Providers : TokenExpires(p) \/ RevokeToken(p)
  \/ \E r \in Refreshes : BeginRefresh(r) \/ RefreshAnswered(r)

\* The timer of a pending flow fires; an exchange may hang for ever.
ExternalAuthFairness == \A f \in Flows : WF_eaVars(Timeout(f))

ExternalAuthSpec ==
  ExternalAuthInit /\ [][ExternalAuthNext]_eaVars /\ ExternalAuthFairness

-----------------------------------------------------------------------------
(* Properties *)

\* A flow that succeeds returns a token, and it is one that a code of this very flow
\* was exchanged for, though several flows for one provider may be pending and one
\* browser may come back twice.
ReturnsItsOwnToken ==
  \A f \in Flows :
    flow[f].at = "returned" /\ flow[f].settled = "resolved" /\ f \notin FromTools =>
      /\ result[f] \in Returns
      /\ return[result[f]].code = f
      /\ f \in redeemed

\* Every flow settles in the end, even if the browser never comes back or the provider
\* never answers: there comes a time when none waits.
FlowsSettle ==
  (\E f \in Flows : flow[f].at = "waiting" /\ flow[f].settled = "no")
    ~> (\A f \in Flows : flow[f].at = "waiting" => flow[f].settled # "no")
=============================================================================
