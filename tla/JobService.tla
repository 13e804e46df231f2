------------------------------ MODULE JobService ------------------------------
(***************************************************************************)
(* What the background worker promises to whoever submits benchmark jobs,  *)
(* with none of how it does it: a service with a bounded number of slots   *)
(* that admits waiting tickets in the order they were issued.  Tickets are *)
(* numbered 1, 2, 3, ... in order of submission.  WorkerQueue implements   *)
(* this specification.                                                     *)
(***************************************************************************)
EXTENDS Naturals, FiniteSets

CONSTANTS
  Capacity,   \* the number of tickets that may be in service at once
  Tickets,    \* the tickets that may be issued: 1 .. n
  Stuck       \* tickets whose service need not ever end

VARIABLES
  issued,     \* how many tickets have been issued
  waiting,    \* tickets that wait for a slot
  serving,    \* tickets that hold a slot
  settled     \* tickets with a final answer

vars == <<issued, waiting, serving, settled>>

Init ==
  /\ issued = 0
  /\ waiting = {}
  /\ serving = {}
  /\ settled = {}

\* A slot is free and t is the oldest ticket that waits for one.
Due(t) ==
  /\ t \in waiting
  /\ \A u \in waiting : t <= u
  /\ Cardinality(serving) < Capacity

Submit ==
  /\ issued + 1 \in Tickets
  /\ issued' = issued + 1
  /\ waiting' = waiting \union {issued + 1}
  /\ UNCHANGED <<serving, settled>>

Admit(t) ==
  /\ Due(t)
  /\ waiting' = waiting \ {t}
  /\ serving' = serving \union {t}
  /\ UNCHANGED <<issued, settled>>

\* A due ticket that cannot be served at all is answered at once.
Refuse(t) ==
  /\ Due(t)
  /\ waiting' = waiting \ {t}
  /\ settled' = settled \union {t}
  /\ UNCHANGED <<issued, serving>>

Finish(t) ==
  /\ t \in serving
  /\ serving' = serving \ {t}
  /\ settled' = settled \union {t}
  /\ UNCHANGED <<issued, waiting>>

\* A service that broke down goes back to waiting, at its old place.
Return(t) ==
  /\ t \in serving
  /\ serving' = serving \ {t}
  /\ waiting' = waiting \union {t}
  /\ UNCHANGED <<issued, settled>>

Next ==
  \/ Submit
  \/ \E t \in Tickets : Admit(t) \/ Refuse(t) \/ Finish(t) \/ Return(t)

\* Someone who waits while a slot is free gets an answer, and a service that is
\* not stuck comes to an end.
Fairness ==
  /\ WF_vars(\E t \in Tickets : Admit(t) \/ Refuse(t))
  /\ \A t \in Tickets \ Stuck : WF_vars(Finish(t) \/ Return(t))

SafeSpec == Init /\ [][Next]_vars

Spec == SafeSpec /\ Fairness
===============================================================================
