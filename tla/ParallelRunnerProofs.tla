-------------------------- MODULE ParallelRunnerProofs --------------------------
(***************************************************************************)
(* Proofs about ParallelRunner, for every number of runs and workers and   *)
(* whichever runs may be rejected or have a callback that throws.          *)
(***************************************************************************)
EXTENDS ParallelRunner, SequenceTheorems, FiniteSetTheorems, TLAPS

\* A worker whose run is over has a run that was taken from the queue.
LEMMA ConstantsAreSets ==
  /\ Runs \subseteq Nat
  /\ Fatal \subseteq Runs /\ Throwing \subseteq Runs
BY RunsAssumption, TotalAssumption DEF Runs

(***************************************************************************)
(* A run below `next' is in exactly one place.  The invariant adds to the  *)
(* stated property that workers which have ended leave an empty queue, and *)
(* says of each run what Lost says of all of them.                         *)
(***************************************************************************)
HasRun(w) == worker[w] \in Runs

Inv ==
  /\ TypeOK
  /\ \A w \in Workers : worker[w] # Done => worker[w] < next
  /\ \A w \in Workers : worker[w] = Done => next = Total + 1
  /\ \A v, w \in Workers : HasRun(v) /\ v # w => worker[v] # worker[w]
  /\ \A i \in DOMAIN results : results[i] < next
  /\ \A i, j \in DOMAIN results : i # j => results[i] # results[j]
  /\ \A i \in DOMAIN results, w \in Workers : HasRun(w) => results[i] # worker[w]
  /\ \A r \in Runs : r < next =>
       \/ r \in Fatal
       \/ \E i \in DOMAIN results : results[i] = r
       \/ \E w \in Workers : worker[w] = r
  /\ returned => \A w \in Workers : worker[w] = Done

-------------------------------------------------------------------------------
\* The initial states satisfy the invariant.
LEMMA InvInit == Init => Inv
<1> SUFFICES ASSUME Init
             PROVE  Inv
  OBVIOUS
<1> USE TotalAssumption DEF Init, Runs, New, Done
<1>1. DOMAIN results = {} /\ results \in Seq(Runs)
  OBVIOUS
<1>2. TypeOK
  <2>1. worker \in [Workers -> New .. Done]
    OBVIOUS
  <2>2. next \in 1 .. (Total + 1) /\ completed \in Nat
    OBVIOUS
  <2> QED
    BY <1>1, <2>1, <2>2 DEF TypeOK
<1> QED
  BY <1>1, <1>2 DEF Inv, HasRun

\* Every step keeps the types.
LEMMA TypesAfterStep ==
  ASSUME Inv, [Next]_vars
  PROVE  TypeOK'
<1> USE TotalAssumption, ConstantsAreSets DEF Inv, TypeOK
<1>1. ASSUME NEW w \in Workers, TakeNext(w)
      PROVE  next' \in 1 .. (Total + 1) /\ worker' \in [Workers -> New .. Done]
  BY <1>1 DEF TakeNext, New, Done
<1>2. ASSUME NEW w \in Workers, StartWorker(w) \/ RunRejects(w)
      PROVE  TypeOK'
  BY <1>1, <1>2 DEF StartWorker, RunRejects
<1>3. ASSUME NEW w \in Workers, RunCompletes(w) \/ CallbackThrows(w)
      PROVE  TypeOK'
  <2>1. worker[w] \in Runs
    BY <1>3 DEF RunCompletes, CallbackThrows
  <2>2. results' = Append(results, worker[w])
    BY <1>3 DEF RunCompletes, CallbackThrows
  <2>3. results' \in Seq(Runs)
    BY <2>1, <2>2, AppendProperties
  <2> QED
    BY <1>1, <1>3, <2>3 DEF RunCompletes, CallbackThrows
<1>4. CASE Return \/ UNCHANGED vars
  BY <1>4 DEF Return, vars
<1> QED
  BY <1>2, <1>3, <1>4 DEF Next

\* A worker's run is over, or it had none: if the run is accounted for in the results
\* or as one that may be rejected, the worker can go on.
LEMMA InvAfterTurn ==
  ASSUME Inv, NEW w \in Workers, TakeNext(w), TypeOK', returned' = returned, ~returned,
         \/ worker[w] = New /\ results' = results
         \/ worker[w] \in Fatal /\ results' = results
         \/ worker[w] \in Runs /\ results' = Append(results, worker[w])
  PROVE  Inv'
<1> USE TotalAssumption, ConstantsAreSets
<1>1. worker[w] # Done
  BY DEF Inv, TypeOK, Runs, New, Done
<1>2. DOMAIN worker = Workers /\ worker[w] < next
  BY <1>1 DEF Inv, TypeOK
<1>3. results \in Seq(Runs) /\ next \in Nat
  BY DEF Inv, TypeOK
<1>4. DOMAIN results' \subseteq Nat /\ \A i \in DOMAIN results' :
        \/ i \in DOMAIN results /\ results'[i] = results[i]
        \/ i = Len(results) + 1 /\ i \notin DOMAIN results /\ results'[i] = worker[w] /\ HasRun(w)
  BY <1>3 DEF HasRun
<1>5. \A i \in DOMAIN results : i \in DOMAIN results' /\ results'[i] = results[i]
  BY <1>3
<1>6. worker[w] \in Runs =>
        worker[w] \in Fatal \/ \E i \in DOMAIN results' : results'[i] = worker[w]
  <2>1. CASE worker[w] \in Runs /\ results' = Append(results, worker[w])
    <3>1. Len(results) + 1 \in DOMAIN results' /\ results'[Len(results) + 1] = worker[w]
      BY <2>1, <1>3
    <3> QED
      BY <3>1
  <2> QED
    BY <2>1 DEF Runs, New
<1>7. \A v \in Workers : v # w => worker'[v] = worker[v]
  BY <1>2 DEF TakeNext
<1>8. CASE next <= Total
  <2>1. worker'[w] = next /\ next' = next + 1 /\ next \in Runs /\ worker'[w] # Done
    BY <1>8, <1>2, <1>3 DEF TakeNext, Runs, Done, Inv, TypeOK
  <2>2. \A v \in Workers : worker[v] \in Int /\ worker[v] # Done
    BY <1>8 DEF Inv, TypeOK, New, Done
  <2>3. \A v \in Workers : worker'[v] # Done => worker'[v] < next'
    BY <2>1, <2>2, <1>3, <1>7 DEF Inv
  <2>4. \A v \in Workers : worker'[v] = Done => next' = Total + 1
    BY <2>1, <2>2, <1>7
  <2>5. \A u, v \in Workers : worker'[u] \in Runs /\ u # v => worker'[u] # worker'[v]
    BY <2>1, <2>2, <1>7, <1>3 DEF Inv, HasRun
  <2>6. \A i \in DOMAIN results' : results'[i] < next'
    BY <1>2, <1>3, <1>4, <2>1, <2>2 DEF Inv, Runs
  <2>7. \A i, j \in DOMAIN results' : i # j => results'[i] # results'[j]
    BY <1>4 DEF Inv
  <2>8. \A i \in DOMAIN results', v \in Workers : worker'[v] \in Runs => results'[i] # worker'[v]
    <3> SUFFICES ASSUME NEW i \in DOMAIN results', NEW v \in Workers, worker'[v] \in Runs
                 PROVE  results'[i] # worker'[v]
      OBVIOUS
    <3>1. results'[i] < next
      BY <1>2, <1>4 DEF Inv
    <3>2. CASE v = w
      BY <3>1, <3>2, <2>1, <1>3
    <3>3. CASE v # w
      BY <3>3, <1>7, <1>4 DEF Inv, HasRun
    <3> QED
      BY <3>2, <3>3
  <2>9. \A r \in Runs : r < next' =>
          \/ r \in Fatal
          \/ \E i \in DOMAIN results' : results'[i] = r
          \/ \E v \in Workers : worker'[v] = r
    <3> SUFFICES ASSUME NEW r \in Runs, r < next', r \notin Fatal,
                        ~ \E i \in DOMAIN results' : results'[i] = r
                 PROVE  \E v \in Workers : worker'[v] = r
      OBVIOUS
    <3>1. CASE r = next
      BY <3>1, <2>1
    <3>2. CASE r # next
      <4>1. r < next
        BY <3>2, <2>1, <1>3 DEF Runs
      <4>2. PICK v \in Workers : worker[v] = r
        BY <4>1, <1>5 DEF Inv
      <4> QED
        BY <4>2, <1>6, <1>7
    <3> QED
      BY <3>1, <3>2
  <2> QED
    BY <2>3, <2>4, <2>5, <2>6, <2>7, <2>8, <2>9 DEF Inv, HasRun
<1>9. CASE ~(next <= Total)
  <2>1. worker'[w] = Done /\ next' = next /\ next = Total + 1
    BY <1>9, <1>2, <1>3 DEF TakeNext, Inv, TypeOK
  <2>2. Done \notin Runs
    BY DEF Done, Runs
  <2>3. \A v \in Workers : worker'[v] # Done => worker'[v] < next'
    BY <2>1, <1>7 DEF Inv
  <2>4. \A u, v \in Workers : worker'[u] \in Runs /\ u # v => worker'[u] # worker'[v]
    BY <2>1, <2>2, <1>7 DEF Inv, HasRun
  <2>5. \A i \in DOMAIN results' : results'[i] < next'
    BY <1>2, <1>4, <2>1 DEF Inv
  <2>6. \A i, j \in DOMAIN results' : i # j => results'[i] # results'[j]
    BY <1>4 DEF Inv
  <2>7. \A i \in DOMAIN results', v \in Workers : worker'[v] \in Runs => results'[i] # worker'[v]
    BY <1>4, <1>7, <2>1, <2>2 DEF Inv, HasRun
  <2>8. \A r \in Runs : r < next' =>
          \/ r \in Fatal
          \/ \E i \in DOMAIN results' : results'[i] = r
          \/ \E v \in Workers : worker'[v] = r
    <3> SUFFICES ASSUME NEW r \in Runs, r < next', r \notin Fatal,
                        ~ \E i \in DOMAIN results' : results'[i] = r
                 PROVE  \E v \in Workers : worker'[v] = r
      OBVIOUS
    <3>1. PICK v \in Workers : worker[v] = r
      BY <2>1, <1>5 DEF Inv
    <3> QED
      BY <3>1, <1>6, <1>7
  <2> QED
    BY <2>1, <2>3, <2>4, <2>5, <2>6, <2>7, <2>8 DEF Inv, HasRun
<1> QED
  BY <1>8, <1>9

-------------------------------------------------------------------------------
\* Every step preserves the invariant.
LEMMA InvStep ==
  ASSUME Inv, [Next]_vars
  PROVE  Inv'
<1> USE TypesAfterStep
<1>1. ASSUME NEW w \in Workers, StartWorker(w)
      PROVE  Inv'
  <2>1. ~returned
    BY <1>1, TotalAssumption DEF StartWorker, Inv, New, Done
  <2> QED
    BY <1>1, <2>1, InvAfterTurn DEF StartWorker
<1>2. ASSUME NEW w \in Workers, RunCompletes(w) \/ CallbackThrows(w) \/ RunRejects(w)
      PROVE  Inv'
  <2>1. worker[w] \in Runs
    BY <1>2, ConstantsAreSets DEF RunCompletes, CallbackThrows, RunRejects
  <2>2. ~returned
    BY <2>1, TotalAssumption DEF Inv, Runs, Done
  <2> QED
    BY <1>2, <2>1, <2>2, InvAfterTurn DEF RunCompletes, CallbackThrows, RunRejects
<1>3. CASE Return
  BY <1>3 DEF Return, Inv, HasRun
<1>4. CASE UNCHANGED vars
  BY <1>4 DEF vars, Inv, HasRun
<1> QED
  BY <1>1, <1>2, <1>3, <1>4 DEF Next

\* The invariant holds of every suite.
THEOREM Invariant == SafeSpec => []Inv
<1>1. Inv /\ [Next]_vars => Inv'
  BY InvStep
<1> QED
  BY <1>1, InvInit, PTL DEF SafeSpec

\* The variables have their types.
THEOREM TypeCorrect == SafeSpec => []TypeOK
<1>1. Inv => TypeOK
  BY DEF Inv
<1> QED
  BY <1>1, Invariant, PTL

\* Every run taken from the queue is with one worker, or once in the results, or its
\* engine may reject: none is run twice and none is forgotten.
THEOREM RunsAreRunOnce == SafeSpec => []EachRunOnce
<1>1. ASSUME Inv
      PROVE  EachRunOnce
  <2>1. \A v, w \in InFlight : v # w => worker[v] # worker[w]
    BY <1>1 DEF Inv, InFlight, HasRun
  <2>2. \A i, j \in DOMAIN results : i # j => results[i] # results[j]
    BY <1>1 DEF Inv
  <2>3. \A w \in InFlight : worker[w] < next /\ worker[w] \notin Finished
    BY <1>1, TotalAssumption DEF Inv, InFlight, Finished, HasRun, Runs, Done
  <2>4. \A r \in Finished : r < next
    BY <1>1 DEF Inv, Finished
  <2>5. Lost \subseteq Fatal
    <3> SUFFICES ASSUME NEW r \in Lost, r \notin Fatal
                 PROVE  FALSE
      OBVIOUS
    <3>1. r \in Runs /\ r < next
      BY <1>1, TotalAssumption DEF Lost, Runs, Inv, TypeOK
    <3>2. r \notin Finished /\ \A w \in InFlight : worker[w] # r
      BY DEF Lost
    <3>3. PICK w \in Workers : worker[w] = r
      BY <1>1, <3>1, <3>2 DEF Inv, Finished
    <3> QED
      BY <3>1, <3>2, <3>3 DEF InFlight
  <2> QED
    BY <2>1, <2>2, <2>3, <2>4, <2>5 DEF EachRunOnce
<1> QED
  BY <1>1, Invariant, PTL

\* No worker ends while the queue holds a run, and a suite that returns has a result
\* for every run whose engine cannot reject, if it has a worker at all.
THEOREM WorkersStayBusy == SafeSpec => []NoIdleWorker
<1>1. ASSUME Inv
      PROVE  NoIdleWorker
  <2>1. (\E w \in Workers : worker[w] = Done) => next > Total
    BY <1>1, TotalAssumption DEF Inv
  <2>2. ASSUME returned, Concurrency > 0
        PROVE  Finished \union Fatal = Runs
    <3>1. \A r \in Finished : r \in Runs
      BY <1>1, TotalAssumption DEF Inv, TypeOK, Finished, Runs
    <3>2. ASSUME NEW r \in Runs, r \notin Fatal
          PROVE  r \in Finished
      <4>1. 1 \in Workers
        BY <2>2, <3>2, TotalAssumption, ConcurrencyAssumption DEF Workers, Runs
      <4>2. next = Total + 1 /\ \A w \in Workers : worker[w] = Done
        BY <1>1, <2>2, <4>1 DEF Inv
      <4>3. r < next /\ r # Done
        BY <3>2, <4>2, TotalAssumption DEF Runs, Done
      <4> QED
        BY <1>1, <3>2, <4>2, <4>3 DEF Inv, Finished
    <3> QED
      BY <3>1, <3>2, ConstantsAreSets
  <2> QED
    BY <2>1, <2>2 DEF NoIdleWorker
<1> QED
  BY <1>1, Invariant, PTL

-------------------------------------------------------------------------------
(***************************************************************************)
(* The counter.  A run is lost exactly if it was taken, is with no worker  *)
(* and in no result; so a turn that ends with a result leaves the lost     *)
(* runs as they are, and a rejection adds one.                             *)
(***************************************************************************)
InResults(r)  == \E i \in DOMAIN results : results[i] = r
WithWorker(r) == \E w \in Workers : worker[w] = r

LEMMA ElementsOfAppend ==
  ASSUME NEW S, NEW seq \in Seq(S), NEW x \in S
  PROVE  \A r : (\E i \in DOMAIN Append(seq, x) : Append(seq, x)[i] = r)
                  <=> (\E i \in DOMAIN seq : seq[i] = r) \/ r = x
<1> DEFINE t == Append(seq, x)
           n == Len(seq)
<1>1. /\ n \in Nat /\ DOMAIN seq = 1 .. n /\ DOMAIN t = 1 .. (n + 1)
      /\ \A i \in 1 .. n : t[i] = seq[i]
      /\ t[n + 1] = x
  BY AppendProperties, LenProperties
<1> HIDE DEF t, n
<1>2. \A i \in 1 .. (n + 1) : i \in 1 .. n \/ i = n + 1
  BY <1>1
<1>3. n + 1 \in 1 .. (n + 1) /\ \A i \in 1 .. n : i \in 1 .. (n + 1)
  BY <1>1
<1>4. ASSUME NEW r
      PROVE  (\E i \in DOMAIN t : t[i] = r) <=> (\E i \in DOMAIN seq : seq[i] = r) \/ r = x
  <2>1. ASSUME NEW i \in DOMAIN t, t[i] = r PROVE (\E k \in DOMAIN seq : seq[k] = r) \/ r = x
    BY <1>1, <1>2, <2>1
  <2>2. ASSUME NEW i \in DOMAIN seq, seq[i] = r PROVE \E k \in DOMAIN t : t[k] = r
    BY <1>1, <1>3, <2>2
  <2>3. ASSUME r = x PROVE \E k \in DOMAIN t : t[k] = r
    BY <1>1, <1>3, <2>3
  <2> QED BY <2>1, <2>2, <2>3
<1> QED BY <1>4 DEF t

LEMMA LostRuns ==
  ASSUME Inv
  PROVE  \A r : r \in Lost <=> r \in Runs /\ r < next /\ ~InResults(r) /\ ~WithWorker(r)
<1>1. \A r : r \in Lost <=> /\ r \in 1 .. (next - 1)
                           /\ ~InResults(r)
                           /\ ~\E w \in Workers : worker[w] \in Runs /\ worker[w] = r
  BY DEF Lost, Finished, InFlight, InResults
<1>2. next \in Nat /\ next <= Total + 1
  BY TotalAssumption DEF Inv, TypeOK
<1>3. \A r : r \in 1 .. (next - 1) <=> r \in Runs /\ r < next
  BY <1>2, TotalAssumption DEF Runs
<1> QED
  BY <1>1, <1>3 DEF WithWorker

LEMMA SetsAreFinite ==
  ASSUME Inv
  PROVE  /\ IsFiniteSet(Lost) /\ Cardinality(Lost) \in Nat
         /\ IsFiniteSet(Finished \intersect Throwing)
         /\ Cardinality(Finished \intersect Throwing) \in Nat
<1>1. IsFiniteSet(Runs)
  BY FS_Interval, TotalAssumption DEF Runs
<1>2. Lost \subseteq Runs /\ Finished \intersect Throwing \subseteq Runs
  BY LostRuns, ConstantsAreSets
<1> QED
  BY <1>1, <1>2, FS_Subset, FS_CardinalityType

\* What a turn of a worker does to the lost runs.
LEMMA LostAfterTurn ==
  ASSUME Inv, Inv', NEW w \in Workers, TakeNext(w), worker[w] < next
  PROVE  /\ worker[w] = New /\ results' = results => Lost' = Lost
         /\ worker[w] \in Runs /\ results' = Append(results, worker[w]) => Lost' = Lost
         /\ worker[w] \in Runs /\ results' = results =>
              worker[w] \notin Lost /\ Lost' = Lost \union {worker[w]}
<1> USE TotalAssumption
<1>1. \A r : r \in Lost' <=> r \in Runs /\ r < next' /\ ~InResults(r)' /\ ~WithWorker(r)'
  <2>1. \A r : r \in Lost' <=> /\ r \in 1 .. (next' - 1)
                              /\ ~InResults(r)'
                              /\ ~\E v \in Workers : worker'[v] \in Runs /\ worker'[v] = r
    BY DEF Lost, Finished, InFlight, InResults
  <2>2. next' \in Nat /\ next' <= Total + 1
    BY DEF Inv, TypeOK
  <2>3. \A r : r \in 1 .. (next' - 1) <=> r \in Runs /\ r < next'
    BY <2>2 DEF Runs
  <2> QED
    BY <2>1, <2>3 DEF WithWorker
<1>2. /\ next \in Nat /\ next <= Total + 1 /\ worker \in [Workers -> New .. Done]
      /\ results \in Seq(Runs)
  BY DEF Inv, TypeOK
<1>3. \A v \in Workers : v # w => worker'[v] = worker[v]
  BY <1>2 DEF TakeNext
<1>4. \/ next <= Total /\ next' = next + 1 /\ worker'[w] = next
      \/ next > Total /\ next' = next /\ worker'[w] = Done
  <2>1. DOMAIN worker = Workers
    BY <1>2
  <2>2. CASE next <= Total
    BY <2>1, <2>2 DEF TakeNext
  <2>3. CASE ~(next <= Total)
    BY <1>2, <2>1, <2>3 DEF TakeNext
  <2> QED BY <2>2, <2>3
<1>5. \A r \in Runs : (r < next' /\ ~WithWorker(r)') <=>
                        (r < next /\ \A v \in Workers : v # w => worker[v] # r)
  <2> SUFFICES ASSUME NEW r \in Runs
               PROVE  (r < next' /\ \A v \in Workers : worker'[v] # r) <=>
                        (r < next /\ \A v \in Workers : v # w => worker[v] # r)
    BY DEF WithWorker
  <2>1. r \in Nat /\ r # Done /\ r <= Total
    BY DEF Runs, Done
  <2> QED
    BY <1>2, <1>3, <1>4, <2>1
<1>6. worker[w] \in Runs =>
        /\ ~InResults(worker[w])
        /\ \A v \in Workers : v # w => worker[v] # worker[w]
  BY DEF Inv, HasRun, InResults
<1>7. CASE worker[w] = New /\ results' = results
  <2>1. \A r \in Runs : WithWorker(r) <=> \E v \in Workers : v # w /\ worker[v] = r
    BY <1>7 DEF WithWorker, Runs, New
  <2>2. worker[w] \notin Runs
    BY <1>7 DEF Runs, New
  <2>3. Lost' = Lost
    BY <1>1, <1>5, <1>7, <2>1, LostRuns DEF InResults
  <2> QED
    BY <2>2, <2>3, <1>7
<1>8. CASE worker[w] \in Runs /\ results' = Append(results, worker[w])
  <2>1. \A r : InResults(r)' <=> InResults(r) \/ r = worker[w]
    <3>1. \A r : InResults(r)' <=> \E i \in DOMAIN Append(results, worker[w]) : Append(results, worker[w])[i] = r
      BY <1>8 DEF InResults
    <3>2. \A r : (\E i \in DOMAIN Append(results, worker[w]) : Append(results, worker[w])[i] = r)
                  <=> (\E i \in DOMAIN results : results[i] = r) \/ r = worker[w]
      BY <1>2, <1>8, ElementsOfAppend
    <3> QED
      BY <3>1, <3>2 DEF InResults
  <2>2. Lost' = Lost
    BY <1>1, <1>5, <1>6, <1>8, <2>1, LostRuns DEF WithWorker
  <2>3. results' # results
    BY <1>2, <1>8
  <2>4. worker[w] # New
    BY <1>8 DEF Runs, New
  <2> QED
    BY <2>2, <2>3, <2>4
<1>9. CASE worker[w] \in Runs /\ results' = results
  <2>1. \A r : InResults(r)' <=> InResults(r)
    BY <1>9 DEF InResults
  <2>2. worker[w] \notin Lost
    BY LostRuns DEF WithWorker
  <2>3. Lost' = Lost \union {worker[w]}
    BY <1>1, <1>5, <1>6, <1>9, <2>1, LostRuns DEF WithWorker
  <2>4. worker[w] # New /\ results # Append(results, worker[w])
    BY <1>2, <1>9 DEF Runs, New
  <2> QED
    BY <2>2, <2>3, <2>4, <1>9
<1> QED
  BY <1>7, <1>8, <1>9

LEMMA CounterStep ==
  ASSUME Inv, CounterAccounts, [Next]_vars
  PROVE  CounterAccounts'
<1> USE TotalAssumption
<1>1. Inv'
  BY InvStep
<1>2. /\ Len(results) \in Nat /\ completed \in Nat /\ results \in Seq(Runs)
      /\ Cardinality(Lost) \in Nat /\ Cardinality(Finished \intersect Throwing) \in Nat
  BY SetsAreFinite DEF Inv, TypeOK
<1>3. ASSUME NEW w \in Workers, StartWorker(w)
      PROVE  CounterAccounts'
  <2>1. worker[w] = New /\ worker[w] < next /\ TakeNext(w) /\ results' = results /\ completed' = completed
    BY <1>3 DEF StartWorker, Inv, TypeOK, New
  <2>2. Lost' = Lost /\ Finished' = Finished
    BY <1>1, <2>1, LostAfterTurn DEF Finished
  <2> QED
    BY <2>1, <2>2 DEF CounterAccounts
<1>4. ASSUME NEW w \in Workers, RunCompletes(w) \/ CallbackThrows(w)
      PROVE  CounterAccounts'
  <2>1. worker[w] \in Runs /\ TakeNext(w) /\ results' = Append(results, worker[w])
    BY <1>4, ConstantsAreSets DEF RunCompletes, CallbackThrows
  <2>2. worker[w] < next
    BY <2>1 DEF Inv, Runs, Done
  <2>3. Lost' = Lost /\ Len(results') = Len(results) + 1
    BY <1>1, <1>2, <2>1, <2>2, LostAfterTurn
  <2>4. Finished' = Finished \union {worker[w]} /\ worker[w] \notin Finished
    <3>1. Finished' = {Append(results, worker[w])[i] : i \in DOMAIN Append(results, worker[w])}
      BY <2>1 DEF Finished
    <3>2. Finished' = Finished \union {worker[w]}
      BY <1>2, <2>1, <3>1, ElementsOfAppend DEF Finished
    <3>3. worker[w] \notin Finished
      BY <2>1 DEF Inv, HasRun, Finished
    <3> QED
      BY <3>2, <3>3
  <2>5. Cardinality(Finished' \intersect Throwing) =
          IF worker[w] \in Throwing THEN Cardinality(Finished \intersect Throwing) + 1
                                    ELSE Cardinality(Finished \intersect Throwing)
    <3>1. CASE worker[w] \in Throwing
      <4>1. Finished' \intersect Throwing = (Finished \intersect Throwing) \union {worker[w]}
            /\ worker[w] \notin Finished \intersect Throwing
        BY <2>4, <3>1
      <4> QED
        BY <3>1, <4>1, SetsAreFinite, FS_AddElement
    <3>2. CASE worker[w] \notin Throwing
      <4>1. Finished' \intersect Throwing = Finished \intersect Throwing
        BY <2>4, <3>2
      <4> QED
        BY <3>2, <4>1
    <3> QED
      BY <3>1, <3>2
  <2>6. completed' = completed + 1 \/ (completed' = completed + 2 /\ worker[w] \in Throwing)
    BY <1>4 DEF RunCompletes, CallbackThrows
  <2> HIDE DEF Finished, Lost
  <2>7. CASE worker[w] \in Throwing
    <3>1. /\ Cardinality(Finished' \intersect Throwing) = Cardinality(Finished \intersect Throwing) + 1
          /\ completed' \in {completed + 1, completed + 2}
      BY <2>5, <2>6, <2>7
    <3> QED
      BY <1>2, <2>3, <3>1 DEF CounterAccounts
  <2>8. CASE worker[w] \notin Throwing
    <3>1. /\ Cardinality(Finished' \intersect Throwing) = Cardinality(Finished \intersect Throwing)
          /\ completed' = completed + 1
      BY <2>5, <2>6, <2>8
    <3> QED
      BY <1>2, <2>3, <3>1 DEF CounterAccounts
  <2> QED
    BY <2>7, <2>8
<1>5. ASSUME NEW w \in Workers, RunRejects(w)
      PROVE  CounterAccounts'
  <2>1. worker[w] \in Runs /\ TakeNext(w) /\ results' = results /\ completed' = completed + 1
    BY <1>5, ConstantsAreSets DEF RunRejects
  <2>2. worker[w] < next
    BY <2>1 DEF Inv, Runs, Done
  <2>3. worker[w] \notin Lost /\ Lost' = Lost \union {worker[w]}
    BY <1>1, <2>1, <2>2, LostAfterTurn
  <2>4. Cardinality(Lost') = Cardinality(Lost) + 1
    BY <2>3, SetsAreFinite, FS_AddElement
  <2>5. Finished' = Finished
    BY <2>1 DEF Finished
  <2> QED
    BY <1>2, <2>1, <2>4, <2>5 DEF CounterAccounts
<1>6. CASE Return \/ UNCHANGED vars
  <2>1. UNCHANGED <<next, worker, results, completed>>
    BY <1>6 DEF Return, vars
  <2>2. Lost' = Lost /\ Finished' = Finished
    BY <2>1 DEF Lost, Finished, InFlight
  <2> QED
    BY <2>1, <2>2 DEF CounterAccounts
<1> QED
  BY <1>3, <1>4, <1>5, <1>6 DEF Next

\* The counter is the number of results and of runs given up, plus at most one for each
\* result whose callback may throw, for any number of runs and workers
\* (parallel.ts:35-43).
THEOREM CounterIsAccounted == SafeSpec => []CounterAccounts
<1>1. Init => CounterAccounts
  <2> SUFFICES ASSUME Init PROVE CounterAccounts
    OBVIOUS
  <2>1. Inv
    BY InvInit
  <2>2. Lost = {} /\ Finished = {} /\ Len(results) = 0 /\ completed = 0
    BY LostRuns, <2>1 DEF Init, Runs, Finished
  <2> QED
    BY <2>2, FS_EmptySet DEF CounterAccounts
<1>2. Inv /\ CounterAccounts /\ [Next]_vars => CounterAccounts'
  BY CounterStep
<1> QED
  BY <1>1, <1>2, Invariant, PTL DEF SafeSpec

===============================================================================
