------------------------------- MODULE RunLimits -------------------------------
(***************************************************************************)
(* What can stop a run from the outside: the BudgetEnforcer's limit on the *)
(* duration of an action (packages/core/src/budget.ts) and the cancellation*)
(* tokens of a process (packages/core/src/cancellation.ts).                *)
(*                                                                         *)
(* One enforcer, whose runWithTimeout may be called several times, also    *)
(* while an earlier action is still going on: a timeout rejects the        *)
(* caller's promise and leaves the action running.  One registry, whose    *)
(* operations any code of the process may call, the listeners of a token   *)
(* included: they are called by cancel, in the middle of cancelRun, and    *)
(* what they call then is done before cancelRun goes on.  So cancellations *)
(* are calls on a stack, one inside the other; every other operation and   *)
(* every callback of node is one uninterrupted step.  Enforcer and         *)
(* registry share nothing, so their steps are interleaved freely.          *)
(***************************************************************************)
EXTENDS Naturals, Sequences, FiniteSets

CONSTANTS
  Calls,       \* the calls of runWithTimeout, at most: each is made once
  Hung,        \* calls whose action need never settle
  RunIds,      \* the ids tokens are created for
  MaxTokens,   \* bound of the model: tokens created
  Listeners    \* the callbacks that register with a token, each once

ASSUME HungAssumption   == Hung \subseteq Calls
ASSUME TokensAssumption == MaxTokens \in Nat

\* The value undefined of the field timer, and of a lookup in the registry.
NoCall == "none"
ASSUME NoCallAssumption == NoCall \notin Calls

\* The run of a call of cancel that is not made by cancelRun.
NoRun == "none"
ASSUME NoRunAssumption == NoRun \notin RunIds

NoToken == 0
Tokens == 1 .. MaxTokens

VARIABLES
  timer,       \* the field timer: the call whose timeout it refers to
  armed,       \* calls whose timeout is set, and neither fired nor cleared
  action,      \* of each call: "new", "running" or "settled"
  promise,     \* of each call: "none", "pending", or how it settled
  stopped,     \* whether cancel() was called on the enforcer
  beside       \* history: of each call, those whose action ran at the same time

budgetVars == <<timer, armed, action, promise, stopped, beside>>

VARIABLES
  created,     \* the number of tokens created
  runOf,       \* of each token, the id it was created for
  registry,    \* the registry's map: of each id its token, or NoToken
  cancelled,   \* the tokens with _isCancelled
  waiting,     \* of each token, the listeners that it is to call
  stack,       \* the calls of cancel in progress, the innermost last: see Frame
  registered,  \* history: of each token, the listeners that have registered
  told,        \* history: of each token and listener, how often it was called
  dropped,     \* history: tokens that were in the map when removeToken was called
  born         \* history: tokens created for a run inside a cancelRun of this run

listenerVars == <<waiting, registered, told>>
tokenVars == <<created, runOf, registry, cancelled, listenerVars, stack, dropped, born>>

vars == <<budgetVars, tokenVars>>

Running == {c \in Calls : action[c] = "running"}

-------------------------------------------------------------------------------
(***************************************************************************)
(* The BudgetEnforcer.                                                     *)
(***************************************************************************)
BudgetInit ==
  /\ timer = NoCall
  /\ armed = {}
  /\ action = [c \in Calls |-> "new"]
  /\ promise = [c \in Calls |-> "none"]
  /\ stopped = FALSE
  /\ beside = [c \in Calls |-> {}]

\* History: the action of c starts beside those that are running.
Meets(c) ==
  beside' = [d \in Calls |-> IF d = c THEN Running
                             ELSE IF d \in Running THEN beside[d] \union {c} ELSE beside[d]]

\* Mutant of runWithTimeout: this.timer ??= setTimeout(...).
runWithTimeout_KeepsField(c) ==
  /\ action[c] = "new"
  /\ timer' = IF timer = NoCall THEN c ELSE timer
  /\ armed' = IF timer = NoCall THEN armed \union {c} ELSE armed
  /\ action' = [action EXCEPT ![c] = "running"]
  /\ promise' = [promise EXCEPT ![c] = "pending"]
  /\ Meets(c)
  /\ UNCHANGED stopped

\* A timeout is set, the only field timer now refers to it, and the action starts.
runWithTimeout(c) ==
  /\ action[c] = "new"
  /\ timer' = c
  /\ armed' = armed \union {c}
  /\ action' = [action EXCEPT ![c] = "running"]
  /\ promise' = [promise EXCEPT ![c] = "pending"]
  /\ Meets(c)
  /\ UNCHANGED stopped

\* action throws before it returns a promise: the executor's error rejects, and the
\* timeout stays.
actionThrows(c) ==
  /\ action[c] = "new"
  /\ timer' = c
  /\ armed' = armed \union {c}
  /\ action' = [action EXCEPT ![c] = "settled"]
  /\ promise' = [promise EXCEPT ![c] = "rejected"]
  /\ UNCHANGED <<stopped, beside>>

\* The first settlement of a promise counts.
Settle(c, how) ==
  promise' = [promise EXCEPT ![c] = IF promise[c] = "pending" THEN how ELSE promise[c]]

\* The action settles: whatever the field timer refers to is cleared.
actionSettles(c) ==
  /\ action[c] = "running"
  /\ action' = [action EXCEPT ![c] = "settled"]
  /\ armed' = armed \ {timer}
  /\ \E how \in {"resolved", "rejected"} : Settle(c, how)
  /\ UNCHANGED <<timer, stopped, beside>>

\* Mutant of onTimeout: it settles the call that the field timer refers to.
onTimeout_OfField(c) ==
  /\ c \in armed
  /\ armed' = armed \ {c}
  /\ promise' = [promise EXCEPT ![timer] = IF promise[timer] = "pending" THEN "timeout" ELSE promise[timer]]
  /\ UNCHANGED <<timer, action, stopped, beside>>

\* A timeout fires.  The action goes on.
onTimeout(c) ==
  /\ c \in armed
  /\ armed' = armed \ {c}
  /\ Settle(c, "timeout")
  /\ UNCHANGED <<timer, action, stopped, beside>>

\* The enforcer's own cancel.
cancelTimer ==
  /\ timer # NoCall
  /\ armed' = armed \ {timer}
  /\ stopped' = TRUE
  /\ UNCHANGED <<timer, action, promise, beside>>

BudgetStep(c) == runWithTimeout(c) \/ actionThrows(c) \/ actionSettles(c) \/ onTimeout(c)

-------------------------------------------------------------------------------
(***************************************************************************)
(* The CancellationRegistry and its tokens.                                *)
(***************************************************************************)
TokenInit ==
  /\ created = 0
  /\ runOf = [t \in Tokens |-> NoRun]
  /\ registry = [r \in RunIds |-> NoToken]
  /\ cancelled = {}
  /\ waiting = [t \in Tokens |-> {}]
  /\ stack = <<>>
  /\ registered = [t \in Tokens |-> {}]
  /\ told = [t \in Tokens |-> [l \in Listeners |-> 0]]
  /\ dropped = {}
  /\ born = {}

Live == 1 .. created

\* A call of cancel: its token, the run if it is made by cancelRun, and whether it has
\* called a listener, which may be executing then.
Frame == [token : Tokens, run : RunIds \union {NoRun}, inside : BOOLEAN]

Top == stack[Len(stack)]

\* Code other than the registry's own is executing: a listener, if a cancel is in progress.
Free == stack # <<>> => Top.inside

\* A token replaces the one that the map may hold for this run.
createToken(r) ==
  /\ Free
  /\ created < MaxTokens
  /\ created' = created + 1
  /\ runOf' = [runOf EXCEPT ![created + 1] = r]
  /\ registry' = [registry EXCEPT ![r] = created + 1]
  /\ born' = IF \E i \in DOMAIN stack : stack[i].run = r THEN born \union {created + 1} ELSE born
  /\ UNCHANGED <<cancelled, listenerVars, stack, dropped>>

Call(t, l) == told' = [told EXCEPT ![t][l] = @ + 1]

\* Mutant of onCancelled: does not look whether the token is cancelled already.
onCancelled_Late(t, l) ==
  /\ Free
  /\ t \in Live
  /\ l \notin registered[t]
  /\ registered' = [registered EXCEPT ![t] = @ \union {l}]
  /\ waiting' = [waiting EXCEPT ![t] = @ \union {l}]
  /\ UNCHANGED <<created, runOf, registry, cancelled, told, stack, dropped, born>>

\* A listener is called at once if the token is cancelled.
onCancelled(t, l) ==
  /\ Free
  /\ t \in Live
  /\ l \notin registered[t]
  /\ registered' = [registered EXCEPT ![t] = @ \union {l}]
  /\ IF t \in cancelled
       THEN Call(t, l) /\ UNCHANGED waiting
       ELSE waiting' = [waiting EXCEPT ![t] = @ \union {l}] /\ UNCHANGED told
  /\ UNCHANGED <<created, runOf, registry, cancelled, stack, dropped, born>>

\* The first part of cancel, up to its loop.
Cancel(t, r) ==
  /\ cancelled' = cancelled \union {t}
  /\ stack' = Append(stack, [token |-> t, run |-> r, inside |-> FALSE])

\* The holder of a token cancels it; the registry does not hear of it.
cancel(t) ==
  /\ Free
  /\ t \in Live \ cancelled
  /\ Cancel(t, NoRun)
  /\ UNCHANGED <<created, runOf, registry, listenerVars, dropped, born>>

\* The loop calls the next listener, in a try block of its own.  In which order they
\* registered is left out.
CallsNext(l) ==
  /\ stack # <<>>
  /\ l \in waiting[Top.token]
  /\ waiting' = [waiting EXCEPT ![Top.token] = @ \ {l}]
  /\ Call(Top.token, l)
  /\ stack' = [stack EXCEPT ![Len(stack)].inside = TRUE]
  /\ UNCHANGED <<created, runOf, registry, cancelled, registered, dropped, born>>

\* The loop is over.  cancelRun deletes what the map holds for its run by now.
CancelEnds ==
  /\ stack # <<>>
  /\ waiting[Top.token] = {}
  /\ stack' = SubSeq(stack, 1, Len(stack) - 1)
  /\ registry' = [r \in RunIds |-> IF r = Top.run THEN NoToken ELSE registry[r]]
  /\ UNCHANGED <<created, runOf, cancelled, listenerVars, dropped, born>>

\* Mutant of cancelRun: forgets a token that nobody listens to instead of cancelling it.
cancelRun_Unheard(r) ==
  /\ Free
  /\ registry[r] # NoToken
  /\ IF registry[r] \in cancelled \/ waiting[registry[r]] = {}
       THEN registry' = [registry EXCEPT ![r] = NoToken] /\ UNCHANGED <<cancelled, stack>>
       ELSE Cancel(registry[r], r) /\ UNCHANGED registry
  /\ UNCHANGED <<created, runOf, listenerVars, dropped, born>>

\* Begins to cancel the token that the map holds; one that is cancelled already is only
\* deleted.  Without a token nothing changes.
cancelRun(r) ==
  /\ Free
  /\ registry[r] # NoToken
  /\ IF registry[r] \in cancelled
       THEN registry' = [registry EXCEPT ![r] = NoToken] /\ UNCHANGED <<cancelled, stack>>
       ELSE Cancel(registry[r], r) /\ UNCHANGED registry
  /\ UNCHANGED <<created, runOf, listenerVars, dropped, born>>

removeToken(r) ==
  /\ Free
  /\ registry[r] # NoToken
  /\ registry' = [registry EXCEPT ![r] = NoToken]
  /\ dropped' = dropped \union {registry[r]}
  /\ UNCHANGED <<created, runOf, cancelled, listenerVars, stack, born>>

TokenStep ==
  \/ \E r \in RunIds : createToken(r) \/ cancelRun(r) \/ removeToken(r)
  \/ \E t \in Tokens : cancel(t) \/ \E l \in Listeners : onCancelled(t, l)
  \/ CancelEnds \/ \E l \in Listeners : CallsNext(l)

-------------------------------------------------------------------------------
Init == BudgetInit /\ TokenInit

Next ==
  \/ (cancelTimer \/ \E c \in Calls : BudgetStep(c)) /\ UNCHANGED tokenVars
  \/ TokenStep /\ UNCHANGED budgetVars

\* Timeouts fire, and actions settle that are not hung.
Fairness ==
  /\ \A c \in Calls : WF_vars(onTimeout(c) /\ UNCHANGED tokenVars)
  /\ \A c \in Calls \ Hung : WF_vars(actionSettles(c) /\ UNCHANGED tokenVars)

Spec == Init /\ [][Next]_vars /\ Fairness

-------------------------------------------------------------------------------
(***************************************************************************)
(* Properties.                                                             *)
(***************************************************************************)
TypeOK ==
  /\ timer \in Calls \union {NoCall}
  /\ armed \subseteq Calls
  /\ action \in [Calls -> {"new", "running", "settled"}]
  /\ promise \in [Calls -> {"none", "pending", "resolved", "rejected", "timeout"}]
  /\ stopped \in BOOLEAN
  /\ beside \in [Calls -> SUBSET Calls]
  /\ created \in 0 .. MaxTokens
  /\ runOf \in [Tokens -> RunIds \union {NoRun}]
  /\ registry \in [RunIds -> 0 .. MaxTokens]
  /\ cancelled \subseteq Tokens
  /\ waiting \in [Tokens -> SUBSET Listeners]
  /\ stack \in Seq(Frame)
  /\ registered \in [Tokens -> SUBSET Listeners]
  /\ told \in [Tokens -> [Listeners -> Nat]]
  /\ dropped \subseteq Tokens
  /\ born \subseteq Tokens

\* A caller waits without a limit only if the enforcer was cancelled, or another
\* action ran beside its own and settled: that action's callback cleared a timeout
\* that was not its own (budget.ts:30, 36, 40, one field for all calls).
LimitLostOnlyToOthers ==
  \A c \in Calls :
    promise[c] = "pending" /\ c \notin armed
      => stopped \/ \E d \in beside[c] : action[d] = "settled"

\* A caller whose action hangs gets its answer, unless the enforcer was cancelled or
\* another action ran beside its own (budget.ts:29-43).
LimitIsEnforced ==
  \A c \in Calls :
    promise[c] = "pending" ~> (promise[c] # "pending" \/ stopped \/ beside[c] # {})

\* cancelRun reaches every token that is not cancelled, except those that a later token
\* of the same run replaced in the map, that removeToken took out of it, or that a listener
\* created for the run that was just being cancelled: the delete behind the call of the
\* listeners takes such a token out of the map unheard (cancellation.ts:49-67).
ReachedByCancelRun ==
  \A t \in Live \ cancelled :
    \/ registry[runOf[t]] = t
    \/ \E u \in Live : u > t /\ runOf[u] = runOf[t]
    \/ t \in dropped
    \/ t \in born

\* Whoever registers with a token is called once: at the latest when the call that
\* cancelled the token returns, and not before the token is cancelled, whatever listeners
\* do to this token and to others while they are called (cancellation.ts:15-35).
CancellationIsHeard ==
  \A t \in Live : \A l \in registered[t] :
    /\ told[t][l] <= 1
    /\ t \notin cancelled => told[t][l] = 0
    /\ t \in cancelled /\ (\A i \in DOMAIN stack : stack[i].token # t) => told[t][l] = 1

===============================================================================
