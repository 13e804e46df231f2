---------------------------- MODULE ParallelRunner ----------------------------
(***************************************************************************)
(* The suite runner (packages/core/src/parallel.ts): a fixed number of     *)
(* asynchronous workers that take runs from one shared queue, push what    *)
(* the engine returns to one shared list of results, and report progress   *)
(* through a callback of the caller.                                       *)
(*                                                                         *)
(* A worker's turn lasts from one await of the engine to the next: what it *)
(* does with a result, the callback included, and the start of its next    *)
(* run are one step.                                                       *)
(***************************************************************************)
EXTENDS Naturals, Sequences, FiniteSets

CONSTANTS
  Total,         \* runs.length: the runs are 1 .. Total
  Concurrency,   \* options.concurrency; 0 is accepted by the code
  Hung,          \* runs whose engine need never settle
  Fatal,         \* runs whose engine may reject after all
  Throwing       \* runs for whose result the callback may throw

ASSUME TotalAssumption       == Total \in Nat
ASSUME ConcurrencyAssumption == Concurrency \in Nat

Runs == 1 .. Total

\* The workers: none more than there are runs.
Workers == 1 .. (IF Concurrency <= Total THEN Concurrency ELSE Total)

ASSUME RunsAssumption == Hung \subseteq Runs /\ Fatal \subseteq Runs /\ Throwing \subseteq Runs

\* What a worker holds before its first run and after its last.
New == 0
Done == Total + 1

VARIABLES
  next,        \* the head of the queue: runs next .. Total are still in it
  worker,      \* of each worker: its run, or New before the first, Done after the last
  results,     \* the list of results, each by its run
  completed,   \* the counter completed
  returned     \* whether executeSuite has returned

vars == <<next, worker, results, completed, returned>>

InFlight == {w \in Workers : worker[w] \in Runs}

Finished == {results[i] : i \in DOMAIN results}

\* Runs without a result whose engine rejected, or that are still to come.
Lost == (1 .. (next - 1)) \ (Finished \union {worker[w] : w \in InFlight})

-------------------------------------------------------------------------------
Init ==
  /\ next = 1
  /\ worker = [w \in Workers |-> New]
  /\ results = <<>>
  /\ completed = 0
  /\ returned = FALSE

\* Mutant of TakeNext: looks at the head of the queue, and takes it off later.
TakeNext_Peek(w) ==
  IF next <= Total
    THEN /\ worker' = [worker EXCEPT ![w] = next]
         /\ next' \in {next, next + 1}
    ELSE /\ worker' = [worker EXCEPT ![w] = Done]
         /\ UNCHANGED next

\* Mutant of TakeNext: the worker ends after a run.
TakeNext_Once(w) ==
  IF next <= Total /\ worker[w] = New
    THEN /\ worker' = [worker EXCEPT ![w] = next]
         /\ next' = next + 1
    ELSE /\ worker' = [worker EXCEPT ![w] = Done]
         /\ UNCHANGED next

\* The worker goes on with the next run of the queue, or ends.
TakeNext(w) ==
  IF next <= Total
    THEN /\ worker' = [worker EXCEPT ![w] = next]
         /\ next' = next + 1
    ELSE /\ worker' = [worker EXCEPT ![w] = Done]
         /\ UNCHANGED next

\* The workers are created one after the other, each with its first run, in the turn
\* of executeSuite itself.
Started == \A w \in Workers : worker[w] # New

StartWorker(w) ==
  /\ worker[w] = New
  /\ \A v \in Workers : v < w => worker[v] # New
  /\ TakeNext(w)
  /\ UNCHANGED <<results, completed, returned>>

\* The engine returns a result: it is pushed, counted and reported.
RunCompletes(w) ==
  /\ Started
  /\ worker[w] \in Runs
  /\ results' = Append(results, worker[w])
  /\ completed' = completed + 1
  /\ TakeNext(w)
  /\ UNCHANGED returned

\* The callback throws, and the catch block counts the run a second time.
CallbackThrows(w) ==
  /\ Started
  /\ worker[w] \in Throwing
  /\ results' = Append(results, worker[w])
  /\ completed' = completed + 2
  /\ TakeNext(w)
  /\ UNCHANGED returned

\* Mutant of RunRejects: the catch block does not count.
RunRejects_NotCounted(w) ==
  /\ Started
  /\ worker[w] \in Fatal
  /\ TakeNext(w)
  /\ UNCHANGED <<results, completed, returned>>

\* The engine rejects: the run is counted and gives no result.
RunRejects(w) ==
  /\ Started
  /\ worker[w] \in Fatal
  /\ completed' = completed + 1
  /\ TakeNext(w)
  /\ UNCHANGED <<results, returned>>

\* Promise.all settles once every worker has ended.
Return ==
  /\ ~returned
  /\ \A w \in Workers : worker[w] = Done
  /\ returned' = TRUE
  /\ UNCHANGED <<next, worker, results, completed>>

Settles(w) == RunCompletes(w) \/ CallbackThrows(w) \/ RunRejects(w)

Next ==
  \/ \E w \in Workers :
       StartWorker(w) \/ RunCompletes(w) \/ CallbackThrows(w) \/ RunRejects(w)
  \/ Return

(***************************************************************************)
(* Synchronous code goes on, and a run that is not hung settles.           *)
(***************************************************************************)
Fairness ==
  /\ WF_vars(Return)
  /\ \A w \in Workers : WF_vars(StartWorker(w)) /\ WF_vars(worker[w] \notin Hung /\ Settles(w))

SafeSpec == Init /\ [][Next]_vars

Spec == SafeSpec /\ Fairness

-------------------------------------------------------------------------------
(***************************************************************************)
(* Properties.                                                             *)
(***************************************************************************)

\* The variables have their types.
TypeOK ==
  /\ next \in 1 .. (Total + 1)
  /\ worker \in [Workers -> New .. Done]
  /\ results \in Seq(Runs)
  /\ completed \in Nat
  /\ returned \in BOOLEAN

\* Every run taken from the queue is in exactly one place: with one worker, or once
\* in the results, or given up because its engine rejected (parallel.ts:20, 33-43).
EachRunOnce ==
  /\ \A v, w \in InFlight : v # w => worker[v] # worker[w]
  /\ \A i, j \in DOMAIN results : i # j => results[i] # results[j]
  /\ \A w \in InFlight : worker[w] < next /\ worker[w] \notin Finished
  /\ \A r \in Finished : r < next
  /\ Lost \subseteq Fatal

\* No worker ends, and the suite does not return, while there is something left to
\* take (parallel.ts:19-21, 47): the suite is as parallel as its runs allow.
NoIdleWorker ==
  /\ (\E w \in Workers : worker[w] = Done) => next > Total
  /\ returned /\ Concurrency > 0 => Finished \union Fatal = Runs

\* The counter is what the results and the given-up runs account for, plus one for
\* each result whose callback threw (parallel.ts:36, 41).
CounterAccounts ==
  /\ Len(results) + Cardinality(Lost) <= completed
  /\ completed <= Len(results) + Cardinality(Lost) + Cardinality(Finished \intersect Throwing)

\* Every run that is not hung settles as long as a worker is left for it, and the
\* suite returns if nothing is hung.
SuiteProgress ==
  /\ Cardinality(Hung) < Concurrency => \A r \in Runs \ Hung : <>(r \in Finished \union Lost)
  /\ Hung = {} => <>returned

===============================================================================
