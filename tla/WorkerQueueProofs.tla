--------------------------- MODULE WorkerQueueProofs ---------------------------
(***************************************************************************)
(* What holds of the worker's queue for every concurrency, retry limit and *)
(* number of jobs.  Each action either appends a new job, or gives one job *)
(* a new record, or leaves the queue alone; the lemmas Enqueued and        *)
(* Rewritten say what the first two do to the sets of jobs by status, and  *)
(* all the theorems below are argued on these sets.                        *)
(***************************************************************************)
EXTENDS WorkerQueue, FiniteSetTheorems, SequenceTheorems, TLAPS

-------------------------------------------------------------------------------
(***************************************************************************)
(* Lemmas about the queue.                                                 *)
(***************************************************************************)

\* What the catch block (queue.ts:131-137) makes of a job is a job again, back in
\* the queue or failed, with no executeJob in flight.
LEMMA AfterErrorJob ==
  ASSUME NEW job \in Job
  PROVE  /\ AfterError(job) \in Job
         /\ AfterError(job).status \in {"queued", "failed"}
         /\ AfterError(job).at = "none"
         /\ job.retries < MaxRetries => AfterError(job).status = "queued"
  BY MaxRetriesAssumption DEF AfterError, Moved, Job, Status

\* The jobs of one status are finitely many positions of the queue, so they can
\* be counted.
LEMMA CountJobs ==
  ASSUME queue \in Seq(Job)
  PROVE  \A s : IsFiniteSet(WithStatus(s)) /\ Cardinality(WithStatus(s)) \in Nat
<1>1. DOMAIN queue = 1 .. Len(queue) /\ Len(queue) \in Nat
  BY LenProperties
<1>2. IsFiniteSet(DOMAIN queue)
  BY <1>1, FS_Interval
<1>3. TAKE s
<1>4. WithStatus(s) \in SUBSET DOMAIN queue
  BY DEF WithStatus
<1>5. QED
  BY <1>2, <1>4, FS_Subset, FS_CardinalityType

\* A job's position in the queue never changes: giving job i a new record leaves
\* every other job as it is.
LEMMA Rewritten ==
  ASSUME queue \in Seq(Job), NEW i \in DOMAIN queue, NEW job \in Job,
         queue' = [queue EXCEPT ![i] = job]
  PROVE  /\ queue' \in Seq(Job)
         /\ Len(queue') = Len(queue)
         /\ DOMAIN queue' = DOMAIN queue
         /\ queue'[i] = job
         /\ \A j \in DOMAIN queue : j # i => queue'[j] = queue[j]
         /\ \A s : WithStatus(s)' =
              IF job.status = s THEN WithStatus(s) \union {i} ELSE WithStatus(s) \ {i}
<1>1. DOMAIN queue = 1 .. Len(queue)
  BY LenProperties
<1>2. /\ queue' \in Seq(Job)
      /\ Len(queue') = Len(queue)
      /\ \A j \in 1 .. Len(queue) : queue'[j] = IF j = i THEN job ELSE queue[j]
  BY <1>1, ExceptSeq
<1>3. DOMAIN queue' = DOMAIN queue
  BY <1>1, <1>2, LenProperties
<1>4. queue'[i] = job /\ \A j \in DOMAIN queue : j # i => queue'[j] = queue[j]
  BY <1>1, <1>2
<1>5. \A s : WithStatus(s)' =
        IF job.status = s THEN WithStatus(s) \union {i} ELSE WithStatus(s) \ {i}
  BY <1>3, <1>4 DEF WithStatus
<1>6. QED
  BY <1>2, <1>3, <1>4, <1>5

\* enqueue (queue.ts:31-40) puts one queued job behind all the others.
LEMMA Enqueued ==
  ASSUME queue \in Seq(Job), queue' = Append(queue, NewJob)
  PROVE  /\ queue' \in Seq(Job)
         /\ Len(queue') = Len(queue) + 1
         /\ DOMAIN queue' = DOMAIN queue \union {Len(queue) + 1}
         /\ Len(queue) + 1 \notin DOMAIN queue
         /\ \A j \in DOMAIN queue : j <= Len(queue)
         /\ queue'[Len(queue) + 1] = NewJob
         /\ \A j \in DOMAIN queue : queue'[j] = queue[j]
         /\ \A s : WithStatus(s)' =
              IF s = "queued" THEN WithStatus(s) \union {Len(queue) + 1} ELSE WithStatus(s)
<1>1. NewJob \in Job
  BY MaxRetriesAssumption DEF NewJob, Job, Status
<1>2. DOMAIN queue = 1 .. Len(queue) /\ Len(queue) \in Nat
  BY LenProperties
<1>3. /\ queue' \in Seq(Job)
      /\ Len(queue') = Len(queue) + 1
      /\ \A j \in 1 .. Len(queue) : queue'[j] = queue[j]
      /\ queue'[Len(queue) + 1] = NewJob
  BY <1>1, AppendProperties
<1>4. DOMAIN queue' = 1 .. Len(queue')
  BY <1>3, LenProperties
<1>5. DOMAIN queue' = DOMAIN queue \union {Len(queue) + 1}
  BY <1>2, <1>3, <1>4
<1>6. Len(queue) + 1 \notin DOMAIN queue /\ \A j \in DOMAIN queue : j <= Len(queue)
  BY <1>2
<1>7. \A s : WithStatus(s)' =
        IF s = "queued" THEN WithStatus(s) \union {Len(queue) + 1} ELSE WithStatus(s)
  BY <1>2, <1>3, <1>5, <1>6 DEF WithStatus, NewJob
<1>8. QED
  BY <1>2, <1>3, <1>5, <1>6, <1>7

\* The constructor leaves an empty queue.
LEMMA EmptyQueue ==
  ASSUME Init
  PROVE  /\ queue \in Seq(Job)
         /\ Len(queue) = 0
         /\ DOMAIN queue = {}
         /\ \A s : WithStatus(s) = {}
<1>1. queue \in Seq(Job) /\ Len(queue) = 0
  BY EmptySeq DEF Init
<1>2. DOMAIN queue = {}
  BY <1>1, LenProperties
<1>3. QED
  BY <1>1, <1>2 DEF WithStatus

\* The records that Start, EngineReturns and DestroyReturns store are jobs.
LEMMA StartedJob ==
  ASSUME NEW job \in Job
  PROVE  /\ Moved(job, "processing", "engine") \in Job
         /\ Moved(job, "completed", "destroy") \in Job
         /\ Moved(job, job.status, "none") \in Job
  BY DEF Moved, Job, Status

\* A job of the queue is a job record.
LEMMA JobAt ==
  ASSUME queue \in Seq(Job), NEW i \in DOMAIN queue
  PROVE  queue[i] \in Job
  BY LenProperties, ElementOfSeq

-------------------------------------------------------------------------------
(***************************************************************************)
(* Type correctness.                                                       *)
(***************************************************************************)

\* What TypeOK says of one job, kept by every record the code stores.
WellFormed(job) ==
  /\ job.at = "engine" <=> job.status = "processing"
  /\ job.at = "destroy" => job.status = "completed"

\* Rewriting one job to a well-formed record keeps TypeOK.
LEMMA TypeRewritten ==
  ASSUME TypeOK, NEW i \in DOMAIN queue, NEW job \in Job, WellFormed(job),
         queue' = [queue EXCEPT ![i] = job], processing' \in BOOLEAN
  PROVE  TypeOK'
<1>1. queue \in Seq(Job) /\ Len(queue) <= MaxJobs
  BY DEF TypeOK
<1>2. /\ queue' \in Seq(Job)
      /\ Len(queue') = Len(queue)
      /\ DOMAIN queue' = DOMAIN queue
      /\ queue'[i] = job
      /\ \A j \in DOMAIN queue : j # i => queue'[j] = queue[j]
  BY <1>1, Rewritten
<1>3. ASSUME NEW j \in DOMAIN queue'
      PROVE  /\ queue'[j].at = "engine" <=> queue'[j].status = "processing"
             /\ queue'[j].at = "destroy" => queue'[j].status = "completed"
  <2>1. CASE j = i
    BY <2>1, <1>2 DEF WellFormed
  <2>2. CASE j # i
    BY <2>2, <1>2, <1>3 DEF TypeOK
  <2>3. QED
    BY <2>1, <2>2
<1>4. QED
  BY <1>1, <1>2, <1>3 DEF TypeOK

\* The records of the queue have the types the code gives them, and the promise a
\* job waits for agrees with its status (queue.ts:9-19, 76-141).
THEOREM TypeCorrect == SafeSpec => []TypeOK
<1>1. ASSUME Init
      PROVE  TypeOK
  <2>1. queue \in Seq(Job) /\ Len(queue) = 0 /\ DOMAIN queue = {}
    BY <1>1, EmptyQueue
  <2>2. 0 <= MaxJobs
    BY MaxJobsAssumption
  <2>3. QED
    BY <1>1, <2>1, <2>2 DEF Init, TypeOK
<1>2. TypeOK /\ [Next]_vars => TypeOK'
  <2> SUFFICES ASSUME TypeOK, [Next]_vars
               PROVE  TypeOK'
    OBVIOUS
  <2>0. queue \in Seq(Job) /\ Len(queue) <= MaxJobs /\ processing \in BOOLEAN
    BY DEF TypeOK
  <2>1. CASE enqueue
    <3>1. queue' = Append(queue, NewJob) /\ Len(queue) < MaxJobs /\ processing' = TRUE
      BY <2>1 DEF enqueue, processNext
    <3>2. /\ queue' \in Seq(Job)
          /\ Len(queue') = Len(queue) + 1
          /\ DOMAIN queue' = DOMAIN queue \union {Len(queue) + 1}
          /\ queue'[Len(queue) + 1] = NewJob
          /\ \A j \in DOMAIN queue : queue'[j] = queue[j]
      BY <2>0, <3>1, Enqueued
    <3>3. Len(queue') <= MaxJobs
      BY <2>0, <3>1, <3>2, LenProperties, MaxJobsAssumption
    <3>4. ASSUME NEW j \in DOMAIN queue'
          PROVE  /\ queue'[j].at = "engine" <=> queue'[j].status = "processing"
                 /\ queue'[j].at = "destroy" => queue'[j].status = "completed"
      <4>1. CASE j = Len(queue) + 1
        BY <4>1, <3>2 DEF NewJob
      <4>2. CASE j \in DOMAIN queue
        BY <4>2, <3>2 DEF TypeOK
      <4>3. QED
        BY <4>1, <4>2, <3>2
    <3>5. QED
      BY <3>1, <3>2, <3>3, <3>4 DEF TypeOK
  <2>2. CASE LoopBreak
    BY <2>2 DEF LoopBreak, TypeOK
  <2>3. ASSUME NEW i \in DOMAIN queue, Start(i)
        PROVE  TypeOK'
    <3> DEFINE job == Moved(queue[i], "processing", "engine")
    <3>1. queue' = [queue EXCEPT ![i] = job] /\ processing' = processing
      BY <2>3 DEF Start
    <3>2. job \in Job /\ WellFormed(job)
      BY <2>0, JobAt, StartedJob DEF WellFormed, Moved
    <3>3. QED
      BY <2>0, <3>1, <3>2, TypeRewritten
  <2>4. ASSUME NEW i \in DOMAIN queue, StartThrows(i) \/ Rejects(i)
        PROVE  TypeOK'
    <3>1. queue' = [queue EXCEPT ![i] = AfterError(queue[i])] /\ processing' = TRUE
      BY <2>4 DEF StartThrows, Rejects, processNext
    <3>2. AfterError(queue[i]) \in Job /\ WellFormed(AfterError(queue[i]))
      BY <2>0, JobAt, AfterErrorJob DEF WellFormed
    <3>3. QED
      BY <3>1, <3>2, TypeRewritten
  <2>5. ASSUME NEW i \in DOMAIN queue, EngineReturns(i)
        PROVE  TypeOK'
    <3> DEFINE job == Moved(queue[i], "completed", "destroy")
    <3>1. queue' = [queue EXCEPT ![i] = job] /\ processing' = processing
      BY <2>5 DEF EngineReturns
    <3>2. job \in Job /\ WellFormed(job)
      BY <2>0, JobAt, StartedJob DEF WellFormed, Moved
    <3>3. QED
      BY <2>0, <3>1, <3>2, TypeRewritten
  <2>6. ASSUME NEW i \in DOMAIN queue, DestroyReturns(i)
        PROVE  TypeOK'
    <3> DEFINE job == Moved(queue[i], queue[i].status, "none")
    <3>1. queue' = [queue EXCEPT ![i] = job] /\ processing' = TRUE
      BY <2>6 DEF DestroyReturns, processNext
    <3>2. queue[i].at = "destroy" /\ queue[i].status = "completed"
      BY <2>6 DEF DestroyReturns, TypeOK
    <3>3. job \in Job /\ WellFormed(job)
      BY <2>0, <3>2, JobAt, StartedJob DEF WellFormed, Moved
    <3>4. QED
      BY <3>1, <3>3, TypeRewritten
  <2>7. CASE UNCHANGED vars
    BY <2>7 DEF vars, TypeOK
  <2>8. QED
    BY <2>1, <2>2, <2>3, <2>4, <2>5, <2>6, <2>7 DEF Next
<1>3. QED
  BY <1>1, <1>2, PTL DEF SafeSpec

-------------------------------------------------------------------------------
(***************************************************************************)
(* What every step does to the queue, by kind of step.  The theorems below *)
(* use this lemma instead of the actions' definitions.                     *)
(***************************************************************************)

\* One job is rewritten to the record `job'.
Rewrites(i, job) == i \in DOMAIN queue /\ queue' = [queue EXCEPT ![i] = job]

\* Of a step of the queue, what the theorems need: a new job is appended, or the
\* queue stays as it is, or one job is rewritten in one of five ways.
LEMMA StepCases ==
  ASSUME TypeOK, [Next]_vars
  PROVE  \/ queue' = Append(queue, NewJob) /\ ~processing /\ Len(queue) < MaxJobs /\ processing'
         \/ queue' = queue
         \/ \E i \in DOMAIN queue :
              /\ queue[i] \in Job
              /\ \/ Picks(i) /\ Rewrites(i, Moved(queue[i], "processing", "engine"))
                      /\ processing' = processing
                 \/ Picks(i) /\ Rewrites(i, AfterError(queue[i])) /\ processing'
                 \/ /\ ~processing /\ ~processing'
                    /\ queue[i].status = "processing"
                    /\ Rewrites(i, Moved(queue[i], "completed", "destroy"))
                 \/ /\ ~processing /\ processing'
                    /\ queue[i].status = "completed"
                    /\ Rewrites(i, Moved(queue[i], "completed", "none"))
                 \/ /\ ~processing /\ processing'
                    /\ i \in Fallible /\ queue[i].at \in Rejecting
                    /\ Rewrites(i, AfterError(queue[i]))
<1>0. queue \in Seq(Job)
  BY DEF TypeOK
<1>1. CASE enqueue
  BY <1>1 DEF enqueue, processNext
<1>2. CASE LoopBreak \/ UNCHANGED vars
  BY <1>2 DEF LoopBreak, vars
<1>3. ASSUME NEW i \in DOMAIN queue, Start(i)
      PROVE  /\ Picks(i) /\ Rewrites(i, Moved(queue[i], "processing", "engine"))
             /\ processing' = processing
  BY <1>3 DEF Start, Rewrites
<1>4. ASSUME NEW i \in DOMAIN queue, StartThrows(i)
      PROVE  Picks(i) /\ Rewrites(i, AfterError(queue[i])) /\ processing'
  BY <1>4 DEF StartThrows, Rewrites, processNext
<1>5. ASSUME NEW i \in DOMAIN queue, EngineReturns(i)
      PROVE  /\ ~processing /\ ~processing'
             /\ queue[i].status = "processing"
             /\ Rewrites(i, Moved(queue[i], "completed", "destroy"))
  BY <1>5 DEF EngineReturns, Rewrites, TypeOK
<1>6. ASSUME NEW i \in DOMAIN queue, DestroyReturns(i)
      PROVE  /\ ~processing /\ processing'
             /\ queue[i].status = "completed"
             /\ Rewrites(i, Moved(queue[i], "completed", "none"))
  BY <1>6 DEF DestroyReturns, Rewrites, TypeOK, processNext
<1>7. ASSUME NEW i \in DOMAIN queue, Rejects(i)
      PROVE  /\ ~processing /\ processing'
             /\ i \in Fallible /\ queue[i].at \in Rejecting
             /\ Rewrites(i, AfterError(queue[i]))
  BY <1>7 DEF Rejects, Rewrites, processNext
<1>8. QED
  BY <1>0, <1>1, <1>2, <1>3, <1>4, <1>5, <1>6, <1>7, JobAt DEF Next

-------------------------------------------------------------------------------
(***************************************************************************)
(* Bounded concurrency.                                                    *)
(***************************************************************************)

\* A job that leaves or does not join the jobs in processing keeps the bound.
LEMMA FewerInService ==
  ASSUME queue \in Seq(Job), ConcurrencyBound,
         WithStatus("processing")' \subseteq WithStatus("processing")
  PROVE  ConcurrencyBound'
<1>1. /\ IsFiniteSet(WithStatus("processing"))
      /\ Cardinality(WithStatus("processing")) \in Nat
  BY CountJobs
<1>2. /\ IsFiniteSet(WithStatus("processing")')
      /\ Cardinality(WithStatus("processing")') <= Cardinality(WithStatus("processing"))
  BY <1>1, FS_Subset
<1>3. Cardinality(WithStatus("processing")') \in Nat
  BY <1>2, FS_CardinalityType
<1>4. QED
  BY <1>1, <1>2, <1>3, ConcurrencyAssumption DEF ConcurrencyBound, getProcessingCount

\* Never more than Concurrency jobs are being processed, for every concurrency,
\* number of jobs and retry limit, and whatever is rejected (queue.ts:60-66).
THEOREM Concurrent == SafeSpec => []ConcurrencyBound
<1>1. Init => ConcurrencyBound
  BY EmptyQueue, FS_EmptySet, ConcurrencyAssumption
     DEF ConcurrencyBound, getProcessingCount
<1>2. TypeOK /\ ConcurrencyBound /\ [Next]_vars => ConcurrencyBound'
  <2> SUFFICES ASSUME TypeOK, ConcurrencyBound, [Next]_vars
               PROVE  ConcurrencyBound'
    OBVIOUS
  <2>0. queue \in Seq(Job)
    BY DEF TypeOK
  <2>1. CASE queue' = Append(queue, NewJob)
    <3>1. WithStatus("processing")' = WithStatus("processing")
      BY <2>0, <2>1, Enqueued
    <3>2. QED
      BY <2>0, <3>1, FewerInService
  <2>2. CASE queue' = queue
    BY <2>2 DEF ConcurrencyBound, getProcessingCount, WithStatus
  <2>3. ASSUME NEW i \in DOMAIN queue, queue[i] \in Job, Picks(i),
               Rewrites(i, Moved(queue[i], "processing", "engine"))
        PROVE  ConcurrencyBound'
    <3> DEFINE job == Moved(queue[i], "processing", "engine")
    <3>1. job \in Job /\ job.status = "processing" /\ queue' = [queue EXCEPT ![i] = job]
      BY <2>3, StartedJob DEF Moved, Rewrites
    <3> HIDE DEF job
    <3>2. WithStatus("processing")' = WithStatus("processing") \union {i}
      BY <2>0, <3>1, Rewritten
    <3>3. /\ IsFiniteSet(WithStatus("processing"))
          /\ Cardinality(WithStatus("processing")) \in Nat
      BY <2>0, CountJobs
    <3>4. Cardinality(WithStatus("processing")') <= Cardinality(WithStatus("processing")) + 1
      BY <3>2, <3>3, FS_AddElement
    <3>5. Cardinality(WithStatus("processing")') \in Nat
      <4>1. IsFiniteSet(WithStatus("processing")')
        BY <3>2, <3>3, FS_AddElement
      <4>2. QED
        BY <4>1, FS_CardinalityType
    <3>6. QED
      BY <2>3, <3>3, <3>4, <3>5, ConcurrencyAssumption
         DEF Picks, ConcurrencyBound, getProcessingCount
  <2>4. ASSUME NEW i \in DOMAIN queue, NEW job \in Job, job.status # "processing",
               Rewrites(i, job)
        PROVE  ConcurrencyBound'
    <3>1. WithStatus("processing")' = WithStatus("processing") \ {i}
      BY <2>0, <2>4, Rewritten DEF Rewrites
    <3>2. QED
      BY <2>0, <3>1, FewerInService
  <2>5. ASSUME NEW i \in DOMAIN queue, queue[i] \in Job,
               \/ Rewrites(i, AfterError(queue[i]))
               \/ Rewrites(i, Moved(queue[i], "completed", "destroy"))
               \/ /\ queue[i].status = "completed"
                  /\ Rewrites(i, Moved(queue[i], "completed", "none"))
        PROVE  ConcurrencyBound'
    <3>1. /\ AfterError(queue[i]) \in Job
          /\ AfterError(queue[i]).status # "processing"
      BY <2>5, AfterErrorJob
    <3>2. /\ Moved(queue[i], "completed", "destroy") \in Job
          /\ Moved(queue[i], "completed", "destroy").status # "processing"
      BY <2>5, StartedJob DEF Moved
    <3>3. /\ queue[i].status = "completed" => Moved(queue[i], "completed", "none") \in Job
          /\ Moved(queue[i], "completed", "none").status # "processing"
      BY <2>5, StartedJob DEF Moved
    <3>4. QED
      BY <2>4, <2>5, <3>1, <3>2, <3>3
  <2>6. QED
    BY <2>1, <2>2, <2>3, <2>5, StepCases
<1>3. QED
  BY <1>1, <1>2, TypeCorrect, PTL DEF SafeSpec

-------------------------------------------------------------------------------
(***************************************************************************)
(* No lost wake-up, and final answers.                                     *)
(***************************************************************************)

\* The re-entrancy flag loses no wake-up, whatever is rejected: every turn that
\* frees a slot or adds a job ends in the loop, and the loop only ends when there
\* is nothing it could start (queue.ts:54-74, 129-139).
THEOREM NoWakeupLost == SafeSpec => []NoLostWakeup
<1>1. Init => NoLostWakeup
  BY EmptyQueue DEF NoLostWakeup
<1>2. TypeOK /\ NoLostWakeup /\ [Next]_vars => NoLostWakeup'
  <2> SUFFICES ASSUME TypeOK, NoLostWakeup, [Next]_vars
               PROVE  NoLostWakeup'
    OBVIOUS
  <2>0. queue \in Seq(Job)
    BY DEF TypeOK
  <2>1. CASE enqueue
    BY <2>1 DEF enqueue, processNext, NoLostWakeup
  <2>2. CASE LoopBreak
    BY <2>2 DEF LoopBreak, NoLostWakeup, WithStatus, getProcessingCount
  <2>3. ASSUME NEW i \in DOMAIN queue, Start(i) \/ StartThrows(i)
        PROVE  NoLostWakeup'
    BY <2>3 DEF Start, StartThrows, Picks, processNext, NoLostWakeup
  <2>4. ASSUME NEW i \in DOMAIN queue, EngineReturns(i)
        PROVE  NoLostWakeup'
    <3>1. Rewrites(i, Moved(queue[i], "completed", "destroy"))
      BY <2>4 DEF EngineReturns, Rewrites
    <3>2. Moved(queue[i], "completed", "destroy") \in Job
      BY <2>0, JobAt, StartedJob
    <3>3. DOMAIN queue' = DOMAIN queue /\ queue'[i].at = "destroy"
      BY <2>0, <3>1, <3>2, Rewritten DEF Rewrites, Moved
    <3>4. QED
      BY <3>3 DEF NoLostWakeup
  <2>5. ASSUME NEW i \in DOMAIN queue, DestroyReturns(i) \/ Rejects(i)
        PROVE  NoLostWakeup'
    BY <2>5 DEF DestroyReturns, Rejects, processNext, NoLostWakeup
  <2>6. CASE UNCHANGED vars
    BY <2>6 DEF vars, NoLostWakeup, WithStatus, getProcessingCount
  <2>7. QED
    BY <2>1, <2>2, <2>3, <2>4, <2>5, <2>6 DEF Next
<1>3. QED
  BY <1>1, <1>2, TypeCorrect, PTL DEF SafeSpec

\* An answer is final as long as destroying the environment cannot reject, which
\* the local environment's destroy guarantees by catching every error
\* (local-env.ts:192-201).  Without that assumption it does not hold: the catch
\* block would put a completed job back into the queue (queue.ts:129-133).
THEOREM AnswersFinal ==
  ASSUME "destroy" \notin Rejecting
  PROVE  SafeSpec => AnswersAreFinal
<1>1. ASSUME TypeOK, [Next]_vars, NEW k \in DOMAIN queue, queue[k].status \in Terminal
      PROVE  queue'[k].status = queue[k].status
  <2>0. queue \in Seq(Job)
    BY <1>1 DEF TypeOK
  <2>1. CASE queue' = Append(queue, NewJob)
    BY <1>1, <2>0, <2>1, Enqueued
  <2>2. CASE queue' = queue
    BY <2>2
  <2>3. ASSUME NEW i \in DOMAIN queue, NEW job \in Job, Rewrites(i, job),
               queue[i].status \in Terminal => job.status = queue[i].status
        PROVE  queue'[k].status = queue[k].status
    <3>1. queue'[i] = job /\ \A j \in DOMAIN queue : j # i => queue'[j] = queue[j]
      BY <2>0, <2>3, Rewritten DEF Rewrites
    <3>2. QED
      BY <1>1, <2>3, <3>1
  <2>4. ASSUME NEW i \in DOMAIN queue, Picks(i)
        PROVE  queue[i].status \notin Terminal
    BY <2>4 DEF Picks, WithStatus, Terminal
  <2>5. ASSUME NEW i \in DOMAIN queue, queue[i].at \in Rejecting
        PROVE  queue[i].status \notin Terminal
    BY <1>1, <2>5, RejectingAssumption DEF TypeOK, Terminal
  <2>6. ASSUME NEW i \in DOMAIN queue, queue[i] \in Job
        PROVE  /\ AfterError(queue[i]) \in Job
               /\ Moved(queue[i], "processing", "engine") \in Job
               /\ Moved(queue[i], "completed", "destroy") \in Job
               /\ queue[i].status = "completed" => Moved(queue[i], "completed", "none") \in Job
    BY <2>6, AfterErrorJob, StartedJob
  <2>7. ASSUME NEW i \in DOMAIN queue
        PROVE  /\ Moved(queue[i], "completed", "none").status = "completed"
               /\ queue[i].status = "processing" => queue[i].status \notin Terminal
    BY DEF Moved, Terminal
  <2>8. QED
    BY <1>1, <2>1, <2>2, <2>3, <2>4, <2>5, <2>6, <2>7, StepCases
<1>2. TypeOK /\ [Next]_vars =>
        [\A i \in DOMAIN queue :
           queue[i].status \in Terminal => queue'[i].status = queue[i].status]_vars
  BY <1>1
<1>3. QED
  BY <1>2, TypeCorrect, PTL DEF SafeSpec, AnswersAreFinal

-------------------------------------------------------------------------------
(***************************************************************************)
(* Order and retries, of jobs whose engine run is not rejected.            *)
(***************************************************************************)

\* In the loop, only the first queued job can have been tried already, and then a
\* slot is free: it will be tried again before the loop can end.  This is what
\* makes RetriesAreImmediate inductive.
RetriedIsNext ==
  \A i \in WithStatus("queued") \ Fallible :
    queue[i].retries # 0 =>
      /\ processing
      /\ getProcessingCount < Concurrency
      /\ \A j \in WithStatus("queued") : i <= j

\* The jobs that are not queued any more are the ones enqueued first, because the
\* loop always takes the first queued job and a failed attempt leaves the job at
\* its place (queue.ts:63, 131-133).
THEOREM Fifo == SafeSpec => []FifoOrder
<1>1. Init => FifoOrder
  BY EmptyQueue DEF FifoOrder
<1>2. TypeOK /\ FifoOrder /\ [Next]_vars => FifoOrder'
  <2> SUFFICES ASSUME TypeOK, FifoOrder, [Next]_vars,
                      NEW a \in DOMAIN queue', NEW b \in DOMAIN queue',
                      a < b, a \notin Fallible, queue'[a].status = "queued"
               PROVE  queue'[b].status = "queued"
    BY DEF FifoOrder
  <2>0. queue \in Seq(Job) /\ DOMAIN queue = 1 .. Len(queue) /\ Len(queue) \in Nat
    BY LenProperties DEF TypeOK
  <2>1. CASE queue' = Append(queue, NewJob)
    <3>1. /\ DOMAIN queue' = DOMAIN queue \union {Len(queue) + 1}
          /\ \A j \in DOMAIN queue : queue'[j] = queue[j]
          /\ queue'[Len(queue) + 1] = NewJob
      BY <2>0, <2>1, Enqueued
    <3>2. CASE b = Len(queue) + 1
      BY <3>1, <3>2 DEF NewJob
    <3>3. CASE b \in DOMAIN queue
      BY <2>0, <3>1, <3>3 DEF FifoOrder
    <3>4. QED
      BY <3>1, <3>2, <3>3
  <2>2. CASE queue' = queue
    BY <2>2 DEF FifoOrder
  <2>3. ASSUME NEW i \in DOMAIN queue, NEW job \in Job, Picks(i), Rewrites(i, job)
        PROVE  queue'[b].status = "queued"
    <3>1. /\ DOMAIN queue' = DOMAIN queue
          /\ queue'[i] = job
          /\ \A j \in DOMAIN queue : j # i => queue'[j] = queue[j]
      BY <2>0, <2>3, Rewritten DEF Rewrites
    <3>2. /\ queue[i].status = "queued"
          /\ \A j \in DOMAIN queue : queue[j].status = "queued" => i <= j
      BY <2>3 DEF Picks, WithStatus
    <3>3. i <= a
      BY <3>1, <3>2, <2>0
    <3>4. b # i /\ i < b
      BY <3>1, <3>3, <2>0
    <3>5. queue[b].status = "queued"
      BY <2>0, <3>1, <3>2, <3>4 DEF FifoOrder
    <3>6. QED
      BY <3>1, <3>4, <3>5
  <2>4. ASSUME NEW i \in DOMAIN queue, NEW job \in Job, Rewrites(i, job),
               queue[i].status # "queued", job.status # "queued" \/ i \in Fallible
        PROVE  queue'[b].status = "queued"
    <3>1. /\ DOMAIN queue' = DOMAIN queue
          /\ queue'[i] = job
          /\ \A j \in DOMAIN queue : j # i => queue'[j] = queue[j]
      BY <2>0, <2>4, Rewritten DEF Rewrites
    <3>2. a # i /\ queue[a].status = "queued"
      BY <2>4, <3>1
    <3>3. queue[b].status = "queued"
      BY <3>1, <3>2 DEF FifoOrder
    <3>4. b # i
      BY <2>4, <3>3
    <3>5. QED
      BY <3>1, <3>3, <3>4
  <2>5. ASSUME NEW i \in DOMAIN queue, queue[i] \in Job
        PROVE  /\ AfterError(queue[i]) \in Job
               /\ Moved(queue[i], "processing", "engine") \in Job
               /\ Moved(queue[i], "completed", "destroy") \in Job
               /\ Moved(queue[i], "completed", "destroy").status # "queued"
               /\ queue[i].status = "completed" => Moved(queue[i], "completed", "none") \in Job
               /\ Moved(queue[i], "completed", "none").status # "queued"
    BY <2>5, AfterErrorJob, StartedJob DEF Moved
  <2>6. ASSUME NEW i \in DOMAIN queue, queue[i].at \in Rejecting
        PROVE  queue[i].status # "queued"
    BY <2>6, RejectingAssumption DEF TypeOK
  <2>7. QED
    BY <2>1, <2>2, <2>3, <2>4, <2>5, <2>6, StepCases
<1>3. QED
  BY <1>1, <1>2, TypeCorrect, PTL DEF SafeSpec

\* A retry waits for nothing: between turns, a queued job was never tried, so the
\* attempts of a job whose task cannot be loaded are all made within one turn
\* (queue.ts:59-70, 131-133).
THEOREM NoBackoff == SafeSpec => []RetriesAreImmediate
<1>1. Init => RetriedIsNext
  BY EmptyQueue DEF RetriedIsNext
<1>2. TypeOK /\ RetriedIsNext /\ [Next]_vars => RetriedIsNext'
  <2> SUFFICES ASSUME TypeOK, RetriedIsNext, [Next]_vars
               PROVE  RetriedIsNext'
    OBVIOUS
  <2>0. queue \in Seq(Job) /\ DOMAIN queue = 1 .. Len(queue) /\ Len(queue) \in Nat
    BY LenProperties DEF TypeOK
  <2>1. CASE enqueue
    <3>1. ~processing /\ queue' = Append(queue, NewJob)
      BY <2>1 DEF enqueue
    <3>2. /\ WithStatus("queued")' = WithStatus("queued") \union {Len(queue) + 1}
          /\ \A j \in DOMAIN queue : queue'[j] = queue[j]
          /\ queue'[Len(queue) + 1] = NewJob
      BY <2>0, <3>1, Enqueued
    <3>3. \A i \in WithStatus("queued") \ Fallible : i \in DOMAIN queue /\ queue[i].retries = 0
      BY <3>1 DEF RetriedIsNext, WithStatus
    <3>4. \A i \in WithStatus("queued")' \ Fallible : queue'[i].retries = 0
      BY <3>2, <3>3 DEF NewJob
    <3>5. QED
      BY <3>4 DEF RetriedIsNext
  <2>2. CASE LoopBreak
    <3>1. /\ queue' = queue
          /\ getProcessingCount >= Concurrency \/ WithStatus("queued") = {}
      BY <2>2 DEF LoopBreak
    <3>2. getProcessingCount \in Nat
      BY <2>0, CountJobs DEF getProcessingCount
    <3>3. \A i \in WithStatus("queued") \ Fallible : queue[i].retries = 0
      BY <3>1, <3>2, ConcurrencyAssumption DEF RetriedIsNext
    <3>4. QED
      BY <3>1, <3>3 DEF RetriedIsNext, WithStatus
  <2>3. ASSUME NEW i \in DOMAIN queue, Start(i)
        PROVE  RetriedIsNext'
    <3> DEFINE job == Moved(queue[i], "processing", "engine")
    <3>1. /\ job \in Job /\ job.status = "processing"
          /\ Picks(i)
          /\ queue' = [queue EXCEPT ![i] = job]
      BY <2>0, <2>3, JobAt, StartedJob DEF Start, Moved
    <3>2. /\ WithStatus("queued")' = WithStatus("queued") \ {i}
          /\ \A j \in DOMAIN queue : j # i => queue'[j] = queue[j]
      BY <2>0, <3>1, Rewritten
    <3>3. i \in WithStatus("queued") /\ \A j \in WithStatus("queued") : i <= j
      BY <3>1 DEF Picks
    <3>4. \A j \in WithStatus("queued") \ Fallible : j # i => queue[j].retries = 0
      BY <2>0, <3>3 DEF RetriedIsNext, WithStatus
    <3>5. \A j \in WithStatus("queued")' \ Fallible : queue'[j].retries = 0
      BY <3>2, <3>4 DEF WithStatus
    <3>6. QED
      BY <3>5 DEF RetriedIsNext
  <2>4. ASSUME NEW i \in DOMAIN queue, StartThrows(i)
        PROVE  RetriedIsNext'
    <3> DEFINE job == AfterError(queue[i])
    <3>1. /\ job \in Job /\ job.status \in {"queued", "failed"}
          /\ Picks(i) /\ processing'
          /\ queue' = [queue EXCEPT ![i] = job]
      BY <2>0, <2>4, JobAt, AfterErrorJob DEF StartThrows, processNext
    <3>2. /\ WithStatus("queued")' \subseteq WithStatus("queued")
          /\ \A j \in DOMAIN queue : j # i => queue'[j] = queue[j]
          /\ i \in WithStatus("queued")
      <4>1. i \in WithStatus("queued")
        BY <3>1 DEF Picks
      <4>2. /\ \A j \in DOMAIN queue : j # i => queue'[j] = queue[j]
            /\ WithStatus("queued")' = IF job.status = "queued"
                                         THEN WithStatus("queued") \union {i}
                                         ELSE WithStatus("queued") \ {i}
        BY <2>0, <3>1, Rewritten
      <4>3. QED
        BY <4>1, <4>2
    <3>3. WithStatus("processing")' = WithStatus("processing")
      BY <2>0, <3>1, <3>2, Rewritten DEF WithStatus
    <3>4. getProcessingCount' < Concurrency /\ \A j \in WithStatus("queued") : i <= j
      BY <3>1, <3>3 DEF Picks, getProcessingCount
    <3>5. \A j \in WithStatus("queued") \ Fallible : j # i => queue[j].retries = 0
      BY <2>0, <3>2, <3>4 DEF RetriedIsNext, WithStatus
    <3>6. \A j \in WithStatus("queued")' \ Fallible : j # i => queue'[j].retries = 0
      BY <3>2, <3>5 DEF WithStatus
    <3>7. QED
      BY <3>1, <3>2, <3>4, <3>6 DEF RetriedIsNext
  <2>5. ASSUME NEW i \in DOMAIN queue, EngineReturns(i) \/ DestroyReturns(i)
        PROVE  RetriedIsNext'
    <3> DEFINE job == IF EngineReturns(i) THEN Moved(queue[i], "completed", "destroy")
                      ELSE Moved(queue[i], queue[i].status, "none")
    <3>1. /\ ~processing
          /\ queue' = [queue EXCEPT ![i] = job]
      BY <2>5 DEF EngineReturns, DestroyReturns
    <3>2. EngineReturns(i) \/ queue[i].status = "completed"
      BY <2>5 DEF DestroyReturns, TypeOK
    <3>3. job \in Job /\ job.status = "completed"
      BY <2>0, <3>2, JobAt, StartedJob DEF Moved
    <3>4. /\ WithStatus("queued")' = WithStatus("queued") \ {i}
          /\ \A j \in DOMAIN queue : j # i => queue'[j] = queue[j]
      BY <2>0, <3>1, <3>3, Rewritten
    <3>5. \A j \in WithStatus("queued")' \ Fallible : queue'[j].retries = 0
      BY <3>1, <3>4 DEF RetriedIsNext, WithStatus
    <3>6. QED
      BY <3>5 DEF RetriedIsNext
  <2>6. CASE UNCHANGED vars
    BY <2>6 DEF vars, RetriedIsNext, WithStatus, getProcessingCount
  <2>7. ASSUME NEW i \in DOMAIN queue, Rejects(i)
        PROVE  RetriedIsNext'
    <3> DEFINE job == AfterError(queue[i])
    <3>1. /\ job \in Job
          /\ ~processing /\ i \in Fallible
          /\ queue' = [queue EXCEPT ![i] = job]
      BY <2>0, <2>7, JobAt, AfterErrorJob DEF Rejects
    <3>2. /\ \A j \in DOMAIN queue : j # i => queue'[j] = queue[j]
          /\ WithStatus("queued")' = IF job.status = "queued"
                                       THEN WithStatus("queued") \union {i}
                                       ELSE WithStatus("queued") \ {i}
      BY <2>0, <3>1, Rewritten
    <3>3. \A j \in WithStatus("queued")' \ Fallible : queue'[j].retries = 0
      BY <3>1, <3>2 DEF RetriedIsNext, WithStatus
    <3>4. QED
      BY <3>3 DEF RetriedIsNext
  <2>8. QED
    BY <2>1, <2>2, <2>3, <2>4, <2>5, <2>6, <2>7 DEF Next
<1>3. RetriedIsNext => RetriesAreImmediate
  BY DEF RetriedIsNext, RetriesAreImmediate
<1>4. QED
  BY <1>1, <1>2, <1>3, TypeCorrect, PTL DEF SafeSpec

-------------------------------------------------------------------------------
(***************************************************************************)
(* Refinement.                                                             *)
(***************************************************************************)

\* The service counts as the queue does.
LEMMA SameCount ==
  \A S : Service!Cardinality(S) = Cardinality(S)
  BY DEF Service!Cardinality, Cardinality, Service!IsFiniteSet, IsFiniteSet

\* The queue implements the abstract service: initial states map to initial
\* states and every step is a step of the service or changes nothing of it.  As
\* for AnswersFinal, destroying the environment must not reject.
THEOREM Refinement ==
  ASSUME "destroy" \notin Rejecting
  PROVE  SafeSpec => Service!SafeSpec
<1>1. Init => Service!Init
  BY EmptyQueue DEF Service!Init
<1>2. TypeOK /\ [Next]_vars => [Service!Next]_(Service!vars)
  <2> SUFFICES ASSUME TypeOK, [Next]_vars
               PROVE  [Service!Next]_(Service!vars)
    OBVIOUS
  <2>0. /\ queue \in Seq(Job)
        /\ DOMAIN queue = 1 .. Len(queue)
        /\ Len(queue) \in Nat
        /\ DOMAIN queue \subseteq 1 .. MaxJobs
    BY LenProperties, MaxJobsAssumption DEF TypeOK
  <2>1. CASE enqueue
    <3>1. Len(queue) < MaxJobs /\ queue' = Append(queue, NewJob)
      BY <2>1 DEF enqueue
    <3>2. /\ Len(queue') = Len(queue) + 1
          /\ WithStatus("queued")' = WithStatus("queued") \union {Len(queue) + 1}
          /\ WithStatus("processing")' = WithStatus("processing")
          /\ WithStatus("completed")' = WithStatus("completed")
          /\ WithStatus("failed")' = WithStatus("failed")
      BY <2>0, <3>1, Enqueued
    <3>3. Len(queue) + 1 \in 1 .. MaxJobs
      BY <2>0, <3>1, MaxJobsAssumption
    <3>4. Service!Submit
      BY <3>2, <3>3 DEF Service!Submit
    <3>5. QED
      BY <3>4 DEF Service!Next
  <2>2. CASE queue' = queue
    BY <2>2 DEF Service!vars, WithStatus
  <2>3. ASSUME NEW i \in DOMAIN queue, Start(i)
        PROVE  Service!Admit(i)
    <3> DEFINE job == Moved(queue[i], "processing", "engine")
    <3>1. /\ job \in Job /\ job.status = "processing"
          /\ Picks(i)
          /\ queue' = [queue EXCEPT ![i] = job]
      BY <2>0, <2>3, JobAt, StartedJob DEF Start, Moved
    <3>2. /\ Len(queue') = Len(queue)
          /\ WithStatus("queued")' = WithStatus("queued") \ {i}
          /\ WithStatus("processing")' = WithStatus("processing") \union {i}
          /\ WithStatus("completed")' = WithStatus("completed") \ {i}
          /\ WithStatus("failed")' = WithStatus("failed") \ {i}
      BY <2>0, <3>1, Rewritten
    <3>3. i \notin WithStatus("completed") /\ i \notin WithStatus("failed")
      BY <3>1 DEF Picks, WithStatus
    <3>4. QED
      BY <3>1, <3>2, <3>3, SameCount DEF Service!Admit, Service!Due, Picks, getProcessingCount
  <2>4. ASSUME NEW i \in DOMAIN queue, StartThrows(i)
        PROVE  Service!Refuse(i) \/ UNCHANGED Service!vars
    <3> DEFINE job == AfterError(queue[i])
    <3>1. /\ job \in Job /\ job.status \in {"queued", "failed"}
          /\ Picks(i)
          /\ queue' = [queue EXCEPT ![i] = job]
      BY <2>0, <2>4, JobAt, AfterErrorJob DEF StartThrows
    <3>2. /\ i \in WithStatus("queued")
          /\ i \notin WithStatus("processing")
          /\ i \notin WithStatus("completed")
          /\ i \notin WithStatus("failed")
      BY <3>1 DEF Picks, WithStatus
    <3>3. CASE job.status = "queued"
      <4>1. /\ Len(queue') = Len(queue)
            /\ WithStatus("queued")' = WithStatus("queued") \union {i}
            /\ WithStatus("processing")' = WithStatus("processing") \ {i}
            /\ WithStatus("completed")' = WithStatus("completed") \ {i}
            /\ WithStatus("failed")' = WithStatus("failed") \ {i}
        BY <2>0, <3>1, <3>3, Rewritten
      <4>2. QED
        BY <3>2, <4>1 DEF Service!vars
    <3>4. CASE job.status = "failed"
      <4>1. /\ Len(queue') = Len(queue)
            /\ WithStatus("queued")' = WithStatus("queued") \ {i}
            /\ WithStatus("processing")' = WithStatus("processing") \ {i}
            /\ WithStatus("completed")' = WithStatus("completed") \ {i}
            /\ WithStatus("failed")' = WithStatus("failed") \union {i}
        BY <2>0, <3>1, <3>4, Rewritten
      <4>2. QED
        BY <3>1, <3>2, <4>1, SameCount
           DEF Service!Refuse, Service!Due, Picks, getProcessingCount
    <3>5. QED
      BY <3>1, <3>3, <3>4
  <2>5. ASSUME NEW i \in DOMAIN queue, EngineReturns(i)
        PROVE  Service!Finish(i)
    <3> DEFINE job == Moved(queue[i], "completed", "destroy")
    <3>1. /\ job \in Job /\ job.status = "completed"
          /\ queue' = [queue EXCEPT ![i] = job]
          /\ queue[i].status = "processing"
      BY <2>0, <2>5, JobAt, StartedJob DEF EngineReturns, Moved, TypeOK
    <3>2. /\ Len(queue') = Len(queue)
          /\ WithStatus("queued")' = WithStatus("queued") \ {i}
          /\ WithStatus("processing")' = WithStatus("processing") \ {i}
          /\ WithStatus("completed")' = WithStatus("completed") \union {i}
          /\ WithStatus("failed")' = WithStatus("failed") \ {i}
      BY <2>0, <3>1, Rewritten
    <3>3. /\ i \in WithStatus("processing")
          /\ i \notin WithStatus("queued")
          /\ i \notin WithStatus("failed")
      BY <3>1 DEF WithStatus
    <3>4. QED
      BY <3>2, <3>3 DEF Service!Finish
  <2>6. ASSUME NEW i \in DOMAIN queue, DestroyReturns(i)
        PROVE  UNCHANGED Service!vars
    <3> DEFINE job == Moved(queue[i], queue[i].status, "none")
    <3>1. queue' = [queue EXCEPT ![i] = job] /\ queue[i].status = "completed"
      BY <2>6 DEF DestroyReturns, TypeOK
    <3>2. job \in Job /\ job.status = "completed"
      BY <2>0, <3>1, JobAt, StartedJob DEF Moved
    <3> HIDE DEF job
    <3>3. /\ Len(queue') = Len(queue)
          /\ WithStatus("queued")' = WithStatus("queued") \ {i}
          /\ WithStatus("processing")' = WithStatus("processing") \ {i}
          /\ WithStatus("completed")' = WithStatus("completed") \union {i}
          /\ WithStatus("failed")' = WithStatus("failed") \ {i}
      BY <2>0, <3>1, <3>2, Rewritten
    <3>4. /\ i \in WithStatus("completed")
          /\ i \notin WithStatus("processing")
          /\ i \notin WithStatus("queued")
          /\ i \notin WithStatus("failed")
      BY <3>1 DEF WithStatus
    <3>5. QED
      BY <3>3, <3>4 DEF Service!vars
  <2>7. ASSUME NEW i \in DOMAIN queue, Rejects(i)
        PROVE  Service!Return(i) \/ Service!Finish(i)
    <3> DEFINE job == AfterError(queue[i])
    <3>1. /\ job \in Job /\ job.status \in {"queued", "failed"}
          /\ queue' = [queue EXCEPT ![i] = job]
      BY <2>0, <2>7, JobAt, AfterErrorJob DEF Rejects
    <3>2. queue[i].status = "processing"
      BY <2>7, RejectingAssumption DEF Rejects, TypeOK
    <3>3. /\ i \in WithStatus("processing")
          /\ i \notin WithStatus("queued")
          /\ i \notin WithStatus("completed")
          /\ i \notin WithStatus("failed")
      BY <3>2 DEF WithStatus
    <3>4. CASE job.status = "queued"
      <4>1. /\ Len(queue') = Len(queue)
            /\ WithStatus("queued")' = WithStatus("queued") \union {i}
            /\ WithStatus("processing")' = WithStatus("processing") \ {i}
            /\ WithStatus("completed")' = WithStatus("completed") \ {i}
            /\ WithStatus("failed")' = WithStatus("failed") \ {i}
        BY <2>0, <3>1, <3>4, Rewritten
      <4>2. QED
        BY <3>3, <4>1 DEF Service!Return
    <3>5. CASE job.status = "failed"
      <4>1. /\ Len(queue') = Len(queue)
            /\ WithStatus("queued")' = WithStatus("queued") \ {i}
            /\ WithStatus("processing")' = WithStatus("processing") \ {i}
            /\ WithStatus("completed")' = WithStatus("completed") \ {i}
            /\ WithStatus("failed")' = WithStatus("failed") \union {i}
        BY <2>0, <3>1, <3>5, Rewritten
      <4>2. QED
        BY <3>3, <4>1 DEF Service!Finish
    <3>6. QED
      BY <3>1, <3>4, <3>5
  <2>8. QED
    BY <2>0, <2>1, <2>2, <2>3, <2>4, <2>5, <2>6, <2>7
       DEF Next, LoopBreak, vars, Service!Next
<1>3. QED
  BY <1>1, <1>2, TypeCorrect, PTL DEF SafeSpec, Service!SafeSpec

===============================================================================
