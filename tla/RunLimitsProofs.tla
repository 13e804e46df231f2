---------------------------- MODULE RunLimitsProofs ----------------------------
(***************************************************************************)
(* Theorems about RunLimits, for any told, runs, tokens and listeners.    *)
(***************************************************************************)
EXTENDS RunLimits, SequenceTheorems, TLAPS

BudgetTypeOK ==
  /\ timer \in Calls \union {NoCall}
  /\ armed \subseteq Calls
  /\ action \in [Calls -> {"new", "running", "settled"}]
  /\ promise \in [Calls -> {"none", "pending", "resolved", "rejected", "timeout"}]
  /\ stopped \in BOOLEAN
  /\ beside \in [Calls -> SUBSET Calls]

TokenTypeOK ==
  /\ created \in 0 .. MaxTokens
  /\ runOf \in [Tokens -> RunIds \union {NoRun}]
  /\ registry \in [RunIds -> 0 .. MaxTokens]
  /\ cancelled \subseteq Tokens
  /\ waiting \in [Tokens -> SUBSET Listeners]
  /\ stack \in Seq(Frame)
  /\ registered \in [Tokens -> SUBSET Listeners]
  /\ told \in [Tokens -> [Listeners -> Nat]]
  /\ dropped \subseteq Tokens
  /\ born \subseteq Tokens

-------------------------------------------------------------------------------
(***************************************************************************)
(* The enforcer.  A promise is pending only while its action runs; two     *)
(* actions that run know of each other.  So whoever loses its timeout to   *)
(* the callback of another action has that action beside its own.          *)
(***************************************************************************)
NewIsUntouched == \A c \in Calls : action[c] = "new" => promise[c] = "none"

PendingRuns == \A c \in Calls : promise[c] = "pending" => action[c] = "running"

RunningMeet ==
  \A c, d \in Calls : action[c] = "running" /\ action[d] = "running" /\ c # d => d \in beside[c]

BudgetInv ==
  /\ BudgetTypeOK
  /\ NewIsUntouched
  /\ PendingRuns
  /\ RunningMeet
  /\ LimitLostOnlyToOthers

LEMMA BudgetInitially == BudgetInit => BudgetInv
  BY DEF BudgetInit, BudgetInv, BudgetTypeOK, NewIsUntouched, PendingRuns, RunningMeet,
         LimitLostOnlyToOthers

LEMMA RunWithTimeoutKeeps ==
  ASSUME BudgetInv, NEW c \in Calls, runWithTimeout(c)
  PROVE  BudgetInv'
<1> USE DEF BudgetInv
<1>1. BudgetTypeOK'
  BY DEF BudgetTypeOK, runWithTimeout, Meets, Running
<1>2. NewIsUntouched' /\ PendingRuns'
  BY DEF BudgetTypeOK, runWithTimeout, NewIsUntouched, PendingRuns
<1>3. RunningMeet'
  BY DEF BudgetTypeOK, runWithTimeout, Meets, Running, RunningMeet
<1>4. LimitLostOnlyToOthers'
  <2> SUFFICES ASSUME NEW e \in Calls, promise'[e] = "pending", e \notin armed', stopped' = FALSE
               PROVE  \E d \in beside'[e] : action'[d] = "settled"
    BY <1>1 DEF LimitLostOnlyToOthers, BudgetTypeOK
  <2>1. e # c /\ promise[e] = "pending" /\ e \notin armed /\ ~stopped
    BY DEF BudgetTypeOK, runWithTimeout
  <2>2. PICK d \in beside[e] : action[d] = "settled"
    BY <2>1 DEF LimitLostOnlyToOthers
  <2>3. d \in Calls /\ d # c /\ action'[d] = "settled"
    BY <2>2 DEF BudgetTypeOK, runWithTimeout
  <2>4. d \in beside'[e]
    BY <2>1, <2>2 DEF BudgetTypeOK, runWithTimeout, Meets
  <2> QED BY <2>3, <2>4
<1> QED BY <1>1, <1>2, <1>3, <1>4

LEMMA ActionThrowsKeeps ==
  ASSUME BudgetInv, NEW c \in Calls, actionThrows(c)
  PROVE  BudgetInv'
<1> USE DEF BudgetInv
<1>1. BudgetTypeOK' /\ NewIsUntouched' /\ PendingRuns' /\ RunningMeet'
  BY DEF BudgetTypeOK, actionThrows, NewIsUntouched, PendingRuns, RunningMeet
<1>2. LimitLostOnlyToOthers'
  <2> SUFFICES ASSUME NEW e \in Calls, promise'[e] = "pending", e \notin armed', stopped' = FALSE
               PROVE  \E d \in beside'[e] : action'[d] = "settled"
    BY <1>1 DEF LimitLostOnlyToOthers, BudgetTypeOK
  <2>1. e # c /\ promise[e] = "pending" /\ e \notin armed /\ ~stopped
    BY DEF BudgetTypeOK, actionThrows
  <2>2. PICK d \in beside[e] : action[d] = "settled"
    BY <2>1 DEF LimitLostOnlyToOthers
  <2> QED BY <2>2 DEF BudgetTypeOK, actionThrows
<1> QED BY <1>1, <1>2

\* The one step that may clear the timeout of somebody else.
LEMMA ActionSettlesKeeps ==
  ASSUME BudgetInv, NEW c \in Calls, actionSettles(c)
  PROVE  BudgetInv'
<1> USE DEF BudgetInv
<1>1. BudgetTypeOK' /\ NewIsUntouched' /\ PendingRuns' /\ RunningMeet'
  BY DEF BudgetTypeOK, actionSettles, Settle, NewIsUntouched, PendingRuns, RunningMeet
<1>2. LimitLostOnlyToOthers'
  <2> SUFFICES ASSUME NEW e \in Calls, promise'[e] = "pending", e \notin armed', stopped' = FALSE
               PROVE  \E d \in beside'[e] : action'[d] = "settled"
    BY <1>1 DEF LimitLostOnlyToOthers, BudgetTypeOK
  <2>1. e # c /\ promise[e] = "pending" /\ ~stopped
    BY DEF BudgetTypeOK, actionSettles, Settle
  <2>2. action[e] = "running" /\ action[c] = "running" /\ action'[c] = "settled"
    BY <2>1 DEF BudgetTypeOK, actionSettles, PendingRuns
  <2>3. c \in beside'[e]
    BY <2>1, <2>2 DEF RunningMeet, actionSettles
  <2> QED BY <2>2, <2>3
<1> QED BY <1>1, <1>2

LEMMA OnTimeoutKeeps ==
  ASSUME BudgetInv, NEW c \in Calls, onTimeout(c)
  PROVE  BudgetInv'
<1> USE DEF BudgetInv
<1>1. BudgetTypeOK' /\ NewIsUntouched' /\ PendingRuns' /\ RunningMeet'
  BY DEF BudgetTypeOK, onTimeout, Settle, NewIsUntouched, PendingRuns, RunningMeet
<1>2. LimitLostOnlyToOthers'
  BY DEF BudgetTypeOK, onTimeout, Settle, LimitLostOnlyToOthers
<1> QED BY <1>1, <1>2

LEMMA CancelTimerKeeps ==
  ASSUME BudgetInv, cancelTimer
  PROVE  BudgetInv'
  BY DEF BudgetInv, BudgetTypeOK, cancelTimer, NewIsUntouched, PendingRuns, RunningMeet,
         LimitLostOnlyToOthers

LEMMA BudgetUnchanged ==
  ASSUME BudgetInv, UNCHANGED budgetVars
  PROVE  BudgetInv'
  BY DEF BudgetInv, BudgetTypeOK, budgetVars, NewIsUntouched, PendingRuns, RunningMeet,
         LimitLostOnlyToOthers

-------------------------------------------------------------------------------
(***************************************************************************)
(* The registry.  What the map holds for a run is a token of this run.     *)
(* While a cancelRun is in progress its delete is still to come, so every  *)
(* token of its run that is not cancelled must have one of the excuses,    *)
(* even if the map holds it.                                               *)
(***************************************************************************)
RegistryFits ==
  \A r \in RunIds :
    registry[r] # NoToken => registry[r] \in Live /\ runOf[registry[r]] = r

RunsFit == \A t \in Live : runOf[t] \in RunIds

FramesFit == \A i \in 1 .. Len(stack) : stack[i].token \in Live \cap cancelled

\* A token that cancelRun need not reach.
Lost(t) ==
  \/ \E u \in Live : u > t /\ runOf[u] = runOf[t]
  \/ t \in dropped
  \/ t \in born

DeletesAreCovered ==
  \A i \in 1 .. Len(stack) : \A t \in Live \ cancelled : runOf[t] = stack[i].run => Lost(t)

RegistryInv ==
  /\ RegistryFits
  /\ RunsFit
  /\ FramesFit
  /\ DeletesAreCovered
  /\ ReachedByCancelRun

(***************************************************************************)
(* Listeners.  Which of those that registered still wait tells how often   *)
(* each was called; they all wait until the token is cancelled, and none   *)
(* waits when its cancel is over.                                          *)
(***************************************************************************)
CallsCount ==
  \A t \in Tokens : \A l \in Listeners :
    told[t][l] = IF l \in registered[t] \ waiting[t] THEN 1 ELSE 0

AllWait == \A t \in Tokens \ cancelled : waiting[t] = registered[t]

NoneWaits ==
  \A t \in cancelled : (\A i \in 1 .. Len(stack) : stack[i].token # t) => waiting[t] = {}

WaitersRegistered == \A t \in Tokens : waiting[t] \subseteq registered[t]

ListenersInv == CallsCount /\ AllWait /\ NoneWaits /\ WaitersRegistered

TokenInv == TokenTypeOK /\ RegistryInv /\ ListenersInv

LEMMA LiveTokens == TokenTypeOK => Live \subseteq Tokens
  BY TokensAssumption DEF TokenTypeOK, Live, Tokens

\* The counts say what is promised to listeners.
LEMMA HeardFromCounts == TokenTypeOK /\ ListenersInv => CancellationIsHeard
<1> SUFFICES ASSUME TokenTypeOK, ListenersInv, NEW t \in Live, NEW l \in registered[t]
             PROVE  /\ told[t][l] <= 1
                    /\ t \notin cancelled => told[t][l] = 0
                    /\ t \in cancelled /\ (\A i \in DOMAIN stack : stack[i].token # t)
                         => told[t][l] = 1
  BY DEF CancellationIsHeard
<1>1. t \in Tokens /\ l \in Listeners
  BY LiveTokens DEF TokenTypeOK
<1>2. told[t][l] = IF l \in waiting[t] THEN 0 ELSE 1
  BY <1>1 DEF ListenersInv, CallsCount
<1>3. t \notin cancelled => l \in waiting[t]
  BY <1>1 DEF ListenersInv, AllWait
<1>4. DOMAIN stack = 1 .. Len(stack)
  BY DEF TokenTypeOK
<1>5. t \in cancelled /\ (\A i \in DOMAIN stack : stack[i].token # t) => waiting[t] = {}
  BY <1>4 DEF ListenersInv, NoneWaits
<1> QED
  BY <1>2, <1>3, <1>5

LEMMA TokenInitially == TokenInit => TokenInv
<1> SUFFICES ASSUME TokenInit PROVE TokenInv
  OBVIOUS
<1>1. /\ TokenTypeOK /\ Live = {} /\ Len(stack) = 0
  BY TokensAssumption DEF TokenInit, TokenTypeOK, NoToken, Tokens, Live
<1>2. RegistryInv
  BY <1>1 DEF TokenInit, RegistryInv, RegistryFits, RunsFit, FramesFit, DeletesAreCovered,
              ReachedByCancelRun, NoToken
<1>3. ListenersInv
  BY DEF TokenInit, ListenersInv, CallsCount, AllWait, NoneWaits, WaitersRegistered
<1> QED
  BY <1>1, <1>2, <1>3 DEF TokenInv

\* Steps that leave tokens, stack and listeners alone keep what is said of the listeners.
LEMMA ListenersKept ==
  ASSUME ListenersInv, UNCHANGED <<cancelled, listenerVars, stack>>
  PROVE  ListenersInv'
  BY DEF ListenersInv, CallsCount, AllWait, NoneWaits, WaitersRegistered, listenerVars

\* Steps that leave tokens, map and what the calls in progress are about alone keep what is
\* said of the registry.
LEMMA RegistryKept ==
  ASSUME RegistryInv, UNCHANGED <<created, runOf, registry, cancelled, dropped, born>>,
         Len(stack') = Len(stack),
         \A i \in 1 .. Len(stack) : /\ stack'[i].token = stack[i].token
                                   /\ stack'[i].run = stack[i].run
  PROVE  RegistryInv'
<1>1. Live' = Live
  BY DEF Live
<1>2. \A t : Lost(t)' <=> Lost(t)
  BY <1>1 DEF Lost
<1>3. (RegistryFits /\ RunsFit /\ FramesFit /\ DeletesAreCovered)'
  BY <1>1, <1>2 DEF RegistryInv, RegistryFits, RunsFit, FramesFit, DeletesAreCovered
<1>4. ReachedByCancelRun'
  BY <1>1 DEF RegistryInv, ReachedByCancelRun
<1> QED
  BY <1>3, <1>4 DEF RegistryInv

LEMMA CreateTokenKeeps ==
  ASSUME TokenInv, NEW r \in RunIds, createToken(r)
  PROVE  TokenInv'
<1> USE DEF TokenInv
<1> DEFINE new == created + 1
<1>1. TokenTypeOK'
  BY TokensAssumption DEF TokenTypeOK, createToken, Tokens, listenerVars
<1>2. /\ new \in Tokens \ Live
      /\ Live' = Live \union {new}
      /\ \A t \in Live : new > t
  BY TokensAssumption DEF TokenTypeOK, createToken, Tokens, Live
<1>3. /\ runOf'[new] = r
      /\ \A t \in Live : runOf'[t] = runOf[t]
      /\ registry'[r] = new
      /\ \A s \in RunIds \ {r} : registry'[s] = registry[s]
  BY <1>2, LiveTokens DEF TokenTypeOK, createToken
<1>4. /\ UNCHANGED <<cancelled, stack, dropped>>
      /\ born \subseteq born'
      /\ \A i \in 1 .. Len(stack) : stack[i].run = r => new \in born'
  <2>1. DOMAIN stack = 1 .. Len(stack)
    BY DEF TokenTypeOK
  <2> QED
    BY <2>1 DEF createToken
<1> HIDE DEF new
<1>5. (RegistryFits /\ RunsFit /\ FramesFit)'
  BY <1>2, <1>3, <1>4 DEF RegistryInv, RegistryFits, RunsFit, FramesFit
<1>6. \A t \in Live : Lost(t) => Lost(t)'
  BY <1>2, <1>3, <1>4 DEF Lost
<1>7. DeletesAreCovered'
  <2> SUFFICES ASSUME NEW i \in 1 .. Len(stack), NEW t \in Live' \ cancelled, runOf'[t] = stack[i].run
               PROVE  Lost(t)'
    BY <1>4 DEF DeletesAreCovered
  <2>1. CASE t = new
    BY <2>1, <1>3, <1>4 DEF Lost
  <2>2. CASE t # new
    BY <2>2, <1>2, <1>3, <1>6 DEF RegistryInv, DeletesAreCovered
  <2> QED BY <2>1, <2>2
<1>8. ReachedByCancelRun'
  <2> SUFFICES ASSUME NEW t \in Live' \ cancelled'
               PROVE  registry'[runOf'[t]] = t \/ Lost(t)'
    BY DEF ReachedByCancelRun, Lost
  <2>1. CASE t = new
    BY <2>1, <1>3
  <2>2. CASE t # new /\ runOf[t] = r
    BY <2>2, <1>2, <1>3 DEF Lost
  <2>3. CASE t # new /\ runOf[t] # r
    <3>1. t \in Live \ cancelled /\ runOf[t] \in RunIds
      BY <2>3, <1>2, <1>4 DEF RegistryInv, RunsFit
    <3>2. registry[runOf[t]] = t \/ Lost(t)
      BY <3>1 DEF RegistryInv, ReachedByCancelRun, Lost
    <3> QED
      BY <2>3, <3>1, <3>2, <1>3, <1>6
  <2> QED BY <2>1, <2>2, <2>3
<1>9. ListenersInv'
  BY ListenersKept DEF createToken
<1> QED BY <1>1, <1>5, <1>7, <1>8, <1>9 DEF RegistryInv

LEMMA OnCancelledKeeps ==
  ASSUME TokenInv, NEW t \in Tokens, NEW l \in Listeners, onCancelled(t, l)
  PROVE  TokenInv'
<1> USE DEF TokenInv
<1>1. /\ waiting[t] \subseteq Listeners /\ registered[t] \subseteq Listeners
      /\ told[t][l] \in Nat
  BY DEF TokenTypeOK
<1>2. TokenTypeOK'
  <2>1. registered[t] \union {l} \in SUBSET Listeners /\ waiting[t] \union {l} \in SUBSET Listeners
    BY <1>1
  <2>2. registered' \in [Tokens -> SUBSET Listeners]
    BY <2>1 DEF TokenTypeOK, onCancelled
  <2>3. waiting' \in [Tokens -> SUBSET Listeners]
    BY <2>1 DEF TokenTypeOK, onCancelled
  <2>4. told' \in [Tokens -> [Listeners -> Nat]]
    <3>1. /\ told \in [Tokens -> [Listeners -> Nat]]
          /\ told' = told \/ told' = [told EXCEPT ![t] = [told[t] EXCEPT ![l] = told[t][l] + 1]]
      BY DEF TokenTypeOK, onCancelled, Call
    <3>2. told[t] \in [Listeners -> Nat] /\ told[t][l] + 1 \in Nat
      BY <1>1, <3>1
    <3> QED
      BY <3>1, <3>2
  <2>5. UNCHANGED <<created, runOf, registry, cancelled, stack, dropped, born>>
    BY DEF onCancelled
  <2> QED
    BY <2>2, <2>3, <2>4, <2>5 DEF TokenTypeOK
<1>3. RegistryInv'
  BY RegistryKept DEF onCancelled
<1>4. /\ l \notin registered[t] /\ l \notin waiting[t]
      /\ told[t][l] = 0
      /\ UNCHANGED <<cancelled, stack>>
      /\ registered' = [registered EXCEPT ![t] = @ \union {l}]
  BY DEF onCancelled, ListenersInv, CallsCount, WaitersRegistered
<1>5. ListenersInv'
  <2>1. CASE t \in cancelled
    <3>1. waiting' = waiting /\ told' = [told EXCEPT ![t][l] = @ + 1]
      BY <2>1 DEF onCancelled, Call
    <3>2. CallsCount'
      BY <1>4, <3>1 DEF ListenersInv, CallsCount, TokenTypeOK
    <3>3. (AllWait /\ NoneWaits /\ WaitersRegistered)'
      BY <1>4, <2>1, <3>1 DEF ListenersInv, AllWait, NoneWaits, WaitersRegistered, TokenTypeOK
    <3> QED BY <3>2, <3>3 DEF ListenersInv
  <2>2. CASE t \notin cancelled
    <3>1. waiting' = [waiting EXCEPT ![t] = @ \union {l}] /\ told' = told
      BY <2>2 DEF onCancelled
    <3>2. CallsCount'
      BY <1>4, <3>1 DEF ListenersInv, CallsCount, TokenTypeOK
    <3>3. (AllWait /\ WaitersRegistered)'
      BY <1>4, <2>2, <3>1 DEF ListenersInv, AllWait, WaitersRegistered, TokenTypeOK
    <3>4. NoneWaits'
      BY <1>4, <2>2, <3>1 DEF ListenersInv, NoneWaits, TokenTypeOK
    <3> QED BY <3>2, <3>3, <3>4 DEF ListenersInv
  <2> QED BY <2>1, <2>2
<1> QED BY <1>2, <1>3, <1>5

\* The beginning of a cancel, as far as it does not concern the map.
LEMMA CancelKeeps ==
  ASSUME TokenInv, NEW t \in Live \ cancelled, NEW q \in RunIds \union {NoRun}, Cancel(t, q),
         UNCHANGED <<created, runOf, registry, listenerVars, dropped, born>>,
         \A u \in Live \ cancelled : u # t /\ runOf[u] = q => Lost(u)
  PROVE  TokenInv'
<1> USE DEF TokenInv
<1> DEFINE frame == [token |-> t, run |-> q, inside |-> FALSE]
           n == Len(stack)
<1>1. t \in Tokens /\ frame \in Frame
  BY LiveTokens DEF Frame
<1>2. stack \in Seq(Frame) /\ n \in Nat
  BY LenProperties DEF TokenTypeOK
<1>3. stack' = Append(stack, frame) /\ cancelled' = cancelled \union {t}
  BY DEF Cancel
<1>4. frame.token = t /\ frame.run = q
  OBVIOUS
<1> HIDE DEF frame, n
<1>5. /\ stack' \in Seq(Frame) /\ Len(stack') = n + 1
      /\ \A i \in 1 .. n : stack'[i] = stack[i]
      /\ stack'[n + 1] = frame
  BY <1>1, <1>2, <1>3, AppendProperties DEF n
<1>6. \A i \in 1 .. Len(stack') : i \in 1 .. n \/ i = n + 1
  BY <1>2, <1>5
<1>7. n + 1 \in 1 .. Len(stack') /\ \A i \in 1 .. n : i \in 1 .. Len(stack')
  BY <1>2, <1>5
<1>8. TokenTypeOK'
  BY <1>1, <1>3, <1>5 DEF TokenTypeOK, listenerVars
<1>9. Live' = Live
  BY DEF Live
<1>10. \A u : Lost(u)' <=> Lost(u)
  BY <1>9 DEF Lost
<1>11. (RegistryFits /\ RunsFit)'
  BY <1>9 DEF RegistryInv, RegistryFits, RunsFit
<1>12. FramesFit'
  BY <1>3, <1>4, <1>5, <1>6, <1>9 DEF RegistryInv, FramesFit, n
<1>13. DeletesAreCovered'
  <2> SUFFICES ASSUME NEW i \in 1 .. Len(stack'), NEW u \in Live \ cancelled',
                      runOf[u] = stack'[i].run
               PROVE  Lost(u)
    BY <1>9, <1>10 DEF DeletesAreCovered
  <2>1. CASE i \in 1 .. n
    BY <2>1, <1>3, <1>5 DEF RegistryInv, DeletesAreCovered, n
  <2>2. CASE i = n + 1
    BY <2>2, <1>3, <1>4, <1>5
  <2> QED BY <1>6, <2>1, <2>2
<1>14. ReachedByCancelRun'
  BY <1>3, <1>9 DEF RegistryInv, ReachedByCancelRun
<1>15. ListenersInv'
  <2>1. (CallsCount /\ AllWait /\ WaitersRegistered)'
    BY <1>3 DEF ListenersInv, CallsCount, AllWait, WaitersRegistered, listenerVars
  <2>2. NoneWaits'
    <3> SUFFICES ASSUME NEW u \in cancelled', \A i \in 1 .. Len(stack') : stack'[i].token # u
                 PROVE  waiting[u] = {}
      BY DEF NoneWaits, listenerVars
    <3>1. u # t
      BY <1>4, <1>5, <1>7
    <3>2. \A i \in 1 .. n : stack[i].token # u
      BY <1>5, <1>7
    <3> QED
      BY <1>3, <3>1, <3>2 DEF ListenersInv, NoneWaits, n
  <2> QED BY <2>1, <2>2 DEF ListenersInv
<1> QED BY <1>8, <1>11, <1>12, <1>13, <1>14, <1>15 DEF RegistryInv

LEMMA TokenCancelKeeps ==
  ASSUME TokenInv, NEW t \in Tokens, cancel(t)
  PROVE  TokenInv'
<1>1. \A u \in Live : runOf[u] # NoRun
  BY NoRunAssumption DEF TokenInv, RegistryInv, RunsFit
<1> QED
  BY <1>1, CancelKeeps DEF cancel

LEMMA CallsNextKeeps ==
  ASSUME TokenInv, NEW l \in Listeners, CallsNext(l)
  PROVE  TokenInv'
<1> USE DEF TokenInv
<1> DEFINE n == Len(stack)
           t == Top.token
           next == [stack[n] EXCEPT !.inside = TRUE]
<1>1. stack \in Seq(Frame) /\ n \in Nat /\ n \in 1 .. n
  BY LenProperties, EmptySeq DEF TokenTypeOK, CallsNext
<1>2. stack[n] \in Frame
  BY <1>1, ElementOfSeq
<1>3. next \in Frame /\ next.token = stack[n].token /\ next.run = stack[n].run
  BY <1>2 DEF Frame
<1>4. stack' = [stack EXCEPT ![n] = next]
  BY DEF CallsNext
<1>5. t \in Live /\ t \in Tokens
  BY <1>1, LiveTokens DEF RegistryInv, FramesFit, Top
<1> HIDE DEF next, t
<1>6. stack' \in Seq(Frame) /\ Len(stack') = Len(stack)
  BY <1>1, <1>3, <1>4, ExceptSeq
<1>7. \A i \in 1 .. n : stack'[i] = IF i = n THEN next ELSE stack[i]
  BY <1>1, <1>3, <1>4, ExceptSeq
<1>8. \A i \in 1 .. n : stack'[i].token = stack[i].token /\ stack'[i].run = stack[i].run
  BY <1>3, <1>7
<1>9. /\ l \in waiting[t]
      /\ waiting' = [waiting EXCEPT ![t] = @ \ {l}]
      /\ told' = [told EXCEPT ![t][l] = @ + 1]
      /\ UNCHANGED <<created, runOf, registry, cancelled, registered, dropped, born>>
  BY DEF CallsNext, Call, t
<1>10. l \in registered[t] /\ told[t][l] = 0
  BY <1>5, <1>9 DEF ListenersInv, CallsCount, WaitersRegistered
<1>11. waiting[t] \subseteq Listeners /\ told[t][l] \in Nat
  BY <1>5 DEF TokenTypeOK
<1>12. TokenTypeOK'
  BY <1>5, <1>6, <1>9, <1>11 DEF TokenTypeOK
<1>13. RegistryInv'
  BY <1>6, <1>8, <1>9, RegistryKept
<1>14. ListenersInv'
  <2>1. t \in cancelled
    BY <1>1 DEF RegistryInv, FramesFit, t, Top
  <2>2. CallsCount'
    BY <1>5, <1>9, <1>10, <2>1 DEF ListenersInv, CallsCount, TokenTypeOK
  <2>3. (AllWait /\ WaitersRegistered)'
    BY <1>5, <1>9, <2>1 DEF ListenersInv, AllWait, WaitersRegistered, TokenTypeOK
  <2>4. NoneWaits'
    <3> SUFFICES ASSUME NEW u \in cancelled, \A i \in 1 .. n : stack[i].token # u
                 PROVE  waiting'[u] = {}
      BY <1>6, <1>8, <1>9 DEF NoneWaits
    <3>1. u # t
      BY <1>1 DEF t, Top
    <3>2. u \in Tokens /\ waiting[u] = {}
      BY DEF ListenersInv, NoneWaits, TokenTypeOK
    <3> QED
      BY <1>9, <3>1, <3>2 DEF TokenTypeOK
  <2> QED BY <2>2, <2>3, <2>4 DEF ListenersInv
<1> QED BY <1>12, <1>13, <1>14

\* The delete takes a token that is not cancelled out of the map only if it is covered.
LEMMA CancelEndsKeeps ==
  ASSUME TokenInv, CancelEnds
  PROVE  TokenInv'
<1> USE DEF TokenInv
<1> DEFINE n == Len(stack)
<1>1. stack \in Seq(Frame) /\ n \in Nat /\ n \in 1 .. n
  BY LenProperties, EmptySeq DEF TokenTypeOK, CancelEnds
<1>2. \A i \in 1 .. (n - 1) : i \in 1 .. n /\ stack[i] \in Frame
  BY <1>1, ElementOfSeq
<1>3. stack' = SubSeq(stack, 1, n - 1)
  BY DEF CancelEnds
<1>4. stack' \in Seq(Frame) /\ Len(stack') = n - 1
  <2>1. n - 1 \in Int /\ \A i \in 1 .. (n - 1) : stack[i] \in Frame
    BY <1>1, <1>2
  <2>2. /\ stack' \in Seq(Frame)
        /\ Len(stack') = IF 1 <= n - 1 THEN (n - 1) - 1 + 1 ELSE 0
    BY <1>3, <2>1, SubSeqProperties
  <2> HIDE DEF n
  <2>3. IF 1 <= n - 1 THEN (n - 1) - 1 + 1 = n - 1 ELSE n - 1 = 0
    BY <1>1
  <2> QED
    BY <2>2, <2>3
<1>5. \A i \in 1 .. (n - 1) : stack'[i] = stack[i]
  <2>1. \A i \in 1 .. ((n - 1) - 1 + 1) : stack'[i] = stack[1 + i - 1]
    BY <1>1, <1>2, <1>3, SubSeqProperties
  <2>2. \A i \in 1 .. (n - 1) : i \in 1 .. ((n - 1) - 1 + 1) /\ 1 + i - 1 = i
    BY <1>1
  <2> QED BY <2>1, <2>2
<1>6. \A i \in 1 .. n : i \in 1 .. (n - 1) \/ i = n
  BY <1>1
<1> HIDE DEF n
<1>7. /\ waiting[stack[n].token] = {}
      /\ registry' = [r \in RunIds |-> IF r = stack[n].run THEN NoToken ELSE registry[r]]
      /\ UNCHANGED <<created, runOf, cancelled, listenerVars, dropped, born>>
  BY DEF CancelEnds, Top, n
<1>8. Live' = Live
  BY <1>7 DEF Live
<1>9. \A u : Lost(u)' <=> Lost(u)
  BY <1>7, <1>8 DEF Lost
<1>10. TokenTypeOK'
  BY <1>4, <1>7, TokensAssumption DEF TokenTypeOK, listenerVars, NoToken
<1>11. (RegistryFits /\ RunsFit)'
  BY <1>7, <1>8 DEF RegistryInv, RegistryFits, RunsFit
<1>12. (FramesFit /\ DeletesAreCovered)'
  BY <1>2, <1>4, <1>5, <1>7, <1>8, <1>9 DEF RegistryInv, FramesFit, DeletesAreCovered, n
<1>13. ReachedByCancelRun'
  <2> SUFFICES ASSUME NEW t \in Live \ cancelled
               PROVE  registry'[runOf[t]] = t \/ Lost(t)
    BY <1>7, <1>8 DEF ReachedByCancelRun, Lost
  <2>1. runOf[t] \in RunIds
    BY DEF RegistryInv, RunsFit
  <2>2. CASE runOf[t] = stack[n].run
    BY <1>1, <2>2 DEF RegistryInv, DeletesAreCovered, n
  <2>3. CASE runOf[t] # stack[n].run
    BY <1>7, <2>1, <2>3 DEF RegistryInv, ReachedByCancelRun, Lost
  <2> QED BY <2>2, <2>3
<1>14. ListenersInv'
  <2>1. (CallsCount /\ AllWait /\ WaitersRegistered)'
    BY <1>7 DEF ListenersInv, CallsCount, AllWait, WaitersRegistered, listenerVars
  <2>2. NoneWaits'
    <3> SUFFICES ASSUME NEW u \in cancelled, \A i \in 1 .. Len(stack') : stack'[i].token # u
                 PROVE  waiting[u] = {}
      BY <1>7 DEF NoneWaits, listenerVars
    <3>1. CASE u = stack[n].token
      BY <1>7, <3>1
    <3>2. CASE u # stack[n].token
      <4>1. \A i \in 1 .. (n - 1) : stack[i].token # u
        BY <1>4, <1>5
      <4>2. \A i \in 1 .. n : stack[i].token # u
        BY <1>6, <3>2, <4>1
      <4> QED
        BY <4>2 DEF ListenersInv, NoneWaits, n
    <3> QED BY <3>1, <3>2
  <2> QED BY <2>1, <2>2 DEF ListenersInv
<1> QED BY <1>10, <1>11, <1>12, <1>13, <1>14 DEF RegistryInv

\* A step that deletes the token of a run, cancelled or not.
LEMMA DeleteKeeps ==
  ASSUME TokenInv, NEW r \in RunIds, registry' = [registry EXCEPT ![r] = NoToken],
         registry[r] \in Live,
         UNCHANGED <<created, runOf, cancelled, listenerVars, stack, born>>,
         dropped \subseteq dropped', dropped' \subseteq Tokens,
         registry[r] \in cancelled \union dropped'
  PROVE  TokenInv'
<1> USE DEF TokenInv
<1>1. TokenTypeOK'
  BY TokensAssumption DEF TokenTypeOK, listenerVars, NoToken
<1>2. Live' = Live
  BY DEF Live
<1>3. \A u : Lost(u) => Lost(u)'
  BY <1>2 DEF Lost
<1>4. (RegistryFits /\ RunsFit /\ FramesFit)'
  BY <1>2 DEF RegistryInv, RegistryFits, RunsFit, FramesFit, TokenTypeOK
<1>5. DeletesAreCovered'
  BY <1>2, <1>3 DEF RegistryInv, DeletesAreCovered
<1>6. ReachedByCancelRun'
  <2> SUFFICES ASSUME NEW t \in Live \ cancelled
               PROVE  registry'[runOf[t]] = t \/ Lost(t)'
    BY <1>2 DEF ReachedByCancelRun, Lost
  <2>1. runOf[t] \in RunIds
    BY DEF RegistryInv, RunsFit
  <2>2. CASE registry[r] = t
    BY <2>2 DEF Lost
  <2>3. CASE registry[r] # t
    <3>1. registry[runOf[t]] = t \/ Lost(t)
      BY DEF RegistryInv, ReachedByCancelRun, Lost
    <3> QED
      BY <1>3, <2>1, <2>3, <3>1 DEF TokenTypeOK
  <2> QED BY <2>2, <2>3
<1>7. ListenersInv'
  BY ListenersKept
<1> QED BY <1>1, <1>4, <1>5, <1>6, <1>7 DEF RegistryInv

LEMMA CancelRunKeeps ==
  ASSUME TokenInv, NEW r \in RunIds, cancelRun(r)
  PROVE  TokenInv'
<1> DEFINE t == registry[r]
<1>1. t \in Live /\ runOf[t] = r
  BY DEF cancelRun, TokenInv, RegistryInv, RegistryFits
<1>2. CASE t \in cancelled
  BY <1>1, <1>2, DeleteKeeps DEF cancelRun, TokenInv, TokenTypeOK
<1>3. CASE t \notin cancelled
  <2>1. /\ Cancel(t, r)
        /\ UNCHANGED <<created, runOf, registry, listenerVars, dropped, born>>
    BY <1>3 DEF cancelRun
  <2>2. \A u \in Live \ cancelled : u # t /\ runOf[u] = r => Lost(u)
    BY DEF TokenInv, RegistryInv, ReachedByCancelRun, Lost
  <2> HIDE DEF t
  <2> QED
    BY <1>1, <1>3, <2>1, <2>2, CancelKeeps
<1> QED BY <1>2, <1>3

LEMMA RemoveTokenKeeps ==
  ASSUME TokenInv, NEW r \in RunIds, removeToken(r)
  PROVE  TokenInv'
<1>1. registry[r] \in Live /\ registry[r] \in Tokens
  BY LiveTokens DEF removeToken, TokenInv, RegistryInv, RegistryFits
<1> QED
  BY <1>1, DeleteKeeps DEF removeToken, TokenInv, TokenTypeOK

LEMMA TokenUnchanged ==
  ASSUME TokenInv, UNCHANGED tokenVars
  PROVE  TokenInv'
  BY RegistryKept, ListenersKept DEF TokenInv, TokenTypeOK, tokenVars, listenerVars

-------------------------------------------------------------------------------
Inv == BudgetInv /\ TokenInv

\* The inductive invariant of both parts (budget.ts, cancellation.ts).
THEOREM Invariant == Spec => []Inv
<1>1. Init => Inv
  BY BudgetInitially, TokenInitially DEF Init, Inv
<1>2. Inv /\ [Next]_vars => Inv'
  <2> SUFFICES ASSUME Inv, [Next]_vars PROVE Inv'
    OBVIOUS
  <2>1. CASE cancelTimer /\ UNCHANGED tokenVars
    BY <2>1, CancelTimerKeeps, TokenUnchanged DEF Inv
  <2>2. ASSUME NEW c \in Calls, BudgetStep(c), UNCHANGED tokenVars
        PROVE  Inv'
    BY <2>2, RunWithTimeoutKeeps, ActionThrowsKeeps, ActionSettlesKeeps, OnTimeoutKeeps,
       TokenUnchanged DEF Inv, BudgetStep
  <2>3. CASE TokenStep /\ UNCHANGED budgetVars
    BY <2>3, CreateTokenKeeps, CancelRunKeeps, RemoveTokenKeeps, TokenCancelKeeps,
       OnCancelledKeeps, CallsNextKeeps, CancelEndsKeeps, BudgetUnchanged DEF Inv, TokenStep
  <2>4. CASE UNCHANGED vars
    BY <2>4, BudgetUnchanged, TokenUnchanged DEF Inv, vars, budgetVars, tokenVars
  <2> QED BY <2>1, <2>2, <2>3, <2>4 DEF Next
<1> QED BY <1>1, <1>2, PTL DEF Spec

\* The variables of enforcer, registry and tokens have the types of the source.
THEOREM TypeCorrect == Spec => []TypeOK
<1>1. Inv => TypeOK
  BY DEF Inv, BudgetInv, TokenInv, BudgetTypeOK, TokenTypeOK, TypeOK
<1> QED BY <1>1, Invariant, PTL

\* A caller loses its limit only to an action beside its own, or to cancel, for any
\* number of calls in any order (budget.ts:29-43).
THEOREM LimitLoss == Spec => []LimitLostOnlyToOthers
<1>1. Inv => LimitLostOnlyToOthers
  BY DEF Inv, BudgetInv
<1> QED BY <1>1, Invariant, PTL

\* cancelRun misses no token but those that were replaced, removed, or created by a
\* listener inside a cancelRun of their run, for any number of runs, tokens and listeners
\* (cancellation.ts:49-67).
THEOREM CancelRunReaches == Spec => []ReachedByCancelRun
<1>1. Inv => ReachedByCancelRun
  BY DEF Inv, TokenInv, RegistryInv
<1> QED BY <1>1, Invariant, PTL

\* Every listener is called once and none before the cancellation, however listeners and
\* cancellations are nested (cancellation.ts:15-35).
THEOREM ListenersHear == Spec => []CancellationIsHeard
<1>1. Inv => CancellationIsHeard
  BY HeardFromCounts DEF Inv, TokenInv
<1> QED BY <1>1, Invariant, PTL

===============================================================================
