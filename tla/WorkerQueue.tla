------------------------------ MODULE WorkerQueue ------------------------------
(***************************************************************************)
(* The in-memory job queue of the background worker                        *)
(* (apps/worker/src/queue.ts).                                             *)
(*                                                                         *)
(* The program runs on one JavaScript thread.  A turn of the event loop is *)
(* uninterrupted, so `processing' (the re-entrancy flag of processNext) is *)
(* TRUE exactly while a turn is inside the while loop of processNext, and  *)
(* no enqueue and no continuation of a promise can run then.  The loop     *)
(* itself takes one step per iteration.                                    *)
(***************************************************************************)
EXTENDS Naturals, Sequences, FiniteSets

CONSTANTS
  Concurrency,   \* WORKER_CONCURRENCY; 0 is accepted by the code
  MaxRetries,    \* the field maxRetries
  MaxJobs,       \* bound of the model: how many jobs are ever enqueued
  Rejecting,     \* the awaits of executeJob that may reject: see Rejects
  Fallible,      \* the jobs whose awaits may reject
  Hung           \* jobs whose engine run need never settle

ASSUME ConcurrencyAssumption == Concurrency \in Nat
ASSUME MaxRetriesAssumption  == MaxRetries \in Nat
ASSUME MaxJobsAssumption     == MaxJobs \in Nat
ASSUME RejectingAssumption   == Rejecting \subseteq {"engine", "destroy"}

VARIABLES
  queue,        \* every job ever enqueued, in order; nothing is ever removed
  processing    \* the re-entrancy flag: the loop of processNext is running

vars == <<queue, processing>>

(***************************************************************************)
(* A job: its status and retries, and the await its executeJob is at:      *)
(* "engine" (ExecutionEngine.execute), "destroy" (env.destroy), or "none"  *)
(* when no executeJob of it is in flight.                                  *)
(***************************************************************************)
Status == {"queued", "processing", "completed", "failed"}

Terminal == {"completed", "failed"}

Job == [status : Status, retries : 0 .. MaxRetries, at : {"none", "engine", "destroy"}]

NewJob == [status |-> "queued", retries |-> 0, at |-> "none"]

\* The job with another status, at another await.
Moved(job, status, at) == [status |-> status, retries |-> job.retries, at |-> at]

WithStatus(s) == {i \in DOMAIN queue : queue[i].status = s}

getPendingCount == Cardinality(WithStatus("queued"))

getProcessingCount == Cardinality(WithStatus("processing"))

\* Mutant of AfterError: the attempt is not counted.
AfterError_NotCounted(job) ==
  IF job.retries < MaxRetries
    THEN Moved(job, "queued", "none")
    ELSE Moved(job, "failed", "none")

\* What the catch block of executeJob makes of a job: back to the queue while it
\* has retries left, failed after that.
AfterError(job) ==
  IF job.retries < MaxRetries
    THEN [status |-> "queued", retries |-> job.retries + 1, at |-> "none"]
    ELSE Moved(job, "failed", "none")

-------------------------------------------------------------------------------
Init ==
  /\ queue = <<>>
  /\ processing = FALSE

\* A call of processNext: it enters the loop, or returns at once because the loop
\* that is already running will look at the queue again.
processNext == processing' = TRUE

enqueue ==
  /\ ~processing
  /\ Len(queue) < MaxJobs
  /\ queue' = Append(queue, NewJob)
  /\ processNext

\* Mutant of Picks: one job too many.
Picks_OffByOne(i) ==
  /\ processing
  /\ getProcessingCount <= Concurrency
  /\ i \in WithStatus("queued")
  /\ \A j \in WithStatus("queued") : i <= j

\* Mutant of Picks: the newest queued job first.
Picks_Newest(i) ==
  /\ processing
  /\ getProcessingCount < Concurrency
  /\ i \in WithStatus("queued")
  /\ \A j \in WithStatus("queued") : i >= j

\* Mutant of Picks: looks for a job that is not being processed.
Picks_Unprocessed(i) ==
  LET idle == DOMAIN queue \ WithStatus("processing")
  IN  /\ processing
      /\ getProcessingCount < Concurrency
      /\ i \in idle
      /\ \A j \in idle : i <= j

\* The loop goes on with job i: a slot is free and i is the first queued job.
Picks(i) ==
  /\ processing
  /\ getProcessingCount < Concurrency
  /\ i \in WithStatus("queued")
  /\ \A j \in WithStatus("queued") : i <= j

\* The loop starts executeJob, which runs up to its first await, the engine's.
Start(i) ==
  /\ Picks(i)
  /\ queue' = [queue EXCEPT ![i] = Moved(@, "processing", "engine")]
  /\ UNCHANGED processing

\* Mutant of StartThrows: the error ends the loop.
StartThrows_EndsLoop(i) ==
  /\ Picks(i)
  /\ queue' = [queue EXCEPT ![i] = AfterError(@)]
  /\ processing' = FALSE

\* The tasks cannot be loaded or the task is not among them: executeJob throws
\* before any await, so its catch block and its nested call of processNext run
\* inside this iteration of the loop.
StartThrows(i) ==
  /\ Picks(i)
  /\ queue' = [queue EXCEPT ![i] = AfterError(@)]
  /\ processNext

\* The loop breaks: every slot is taken or nothing is queued.
LoopBreak ==
  /\ processing
  /\ getProcessingCount >= Concurrency \/ WithStatus("queued") = {}
  /\ processing' = FALSE
  /\ UNCHANGED queue

\* The engine returns: the job is completed, and its slot free, before the
\* environment is destroyed.
EngineReturns(i) ==
  /\ ~processing
  /\ i \in DOMAIN queue
  /\ queue[i].at = "engine"
  /\ queue' = [queue EXCEPT ![i] = Moved(@, "completed", "destroy")]
  /\ UNCHANGED processing

\* Mutant of DestroyReturns: the finally block does not call processNext.
DestroyReturns_NoWakeup(i) ==
  /\ ~processing
  /\ i \in DOMAIN queue
  /\ queue[i].at = "destroy"
  /\ queue' = [queue EXCEPT ![i] = Moved(@, @.status, "none")]
  /\ UNCHANGED processing

DestroyReturns(i) ==
  /\ ~processing
  /\ i \in DOMAIN queue
  /\ queue[i].at = "destroy"
  /\ queue' = [queue EXCEPT ![i] = Moved(@, @.status, "none")]
  /\ processNext

\* The promise executeJob awaits is rejected.  With the engine and the local
\* environment of this repository neither can be (Rejecting = {}); the catch
\* block is there for both.
Rejects(i) ==
  /\ ~processing
  /\ i \in DOMAIN queue \intersect Fallible
  /\ queue[i].at \in Rejecting
  /\ queue' = [queue EXCEPT ![i] = AfterError(@)]
  /\ processNext

LoopStep == LoopBreak \/ \E i \in DOMAIN queue : Start(i) \/ StartThrows(i)

Settles(i) == EngineReturns(i) \/ DestroyReturns(i) \/ Rejects(i)

Next ==
  \/ enqueue
  \/ LoopBreak
  \/ \E i \in DOMAIN queue :
       Start(i) \/ StartThrows(i) \/ EngineReturns(i) \/ DestroyReturns(i) \/ Rejects(i)

(***************************************************************************)
(* The loop is synchronous code, so it does not stop half way.  A run that *)
(* is not hung settles (ExecutionEngine), and destroy of the local         *)
(* environment always does.  Nothing obliges anyone to call enqueue.       *)
(***************************************************************************)
Fairness ==
  /\ WF_vars(LoopStep)
  /\ \A i \in (1 .. MaxJobs) \ Hung : WF_vars(Settles(i))

SafeSpec == Init /\ [][Next]_vars

Spec == SafeSpec /\ Fairness

-------------------------------------------------------------------------------
(***************************************************************************)
(* Properties.                                                             *)
(***************************************************************************)

\* The queue is a sequence of jobs, the flag a Boolean; a job is at the engine's
\* await exactly while its status is "processing", and only a completed job waits
\* for its environment to be destroyed.
TypeOK ==
  /\ queue \in Seq(Job)
  /\ Len(queue) <= MaxJobs
  /\ processing \in BOOLEAN
  /\ \A i \in DOMAIN queue :
       /\ queue[i].at = "engine" <=> queue[i].status = "processing"
       /\ queue[i].at = "destroy" => queue[i].status = "completed"

\* Never more than Concurrency jobs are being processed, whatever order enqueues,
\* engine results and nested calls of processNext come in (queue.ts:60-61).
ConcurrencyBound == getProcessingCount <= Concurrency

\* No wake-up is lost to the re-entrancy flag (queue.ts:55): between turns, a job
\* is left queued only if every slot is taken, or if a completed job still waits
\* for its environment to be destroyed and will call processNext after that.
NoLostWakeup ==
  (~processing /\ \A i \in DOMAIN queue : queue[i].at # "destroy")
    => WithStatus("queued") = {} \/ getProcessingCount >= Concurrency

\* Nobody is overtaken (queue.ts:63): before a job that was not rejected is started
\* or given up, none that was enqueued after it is, whatever jobs come back.
FifoOrder ==
  \A i, j \in DOMAIN queue :
    (i < j /\ i \notin Fallible /\ queue[i].status = "queued") => queue[j].status = "queued"

\* A retry waits for nothing (queue.ts:131-133 inside the loop of 59-70): all
\* the attempts of a job that cannot start are used up within one turn, so a job seen
\* queued between turns was never tried, unless its engine run was rejected.
RetriesAreImmediate ==
  ~processing => \A i \in WithStatus("queued") \ Fallible : queue[i].retries = 0

\* An answer is final: once getJob has shown a job as completed or failed, no
\* later turn runs it again or changes the answer (queue.ts:120, 132-135).
AnswersAreFinal ==
  [][\A i \in DOMAIN queue :
       queue[i].status \in Terminal => queue'[i].status = queue[i].status]_vars

\* A hung engine run costs its slot and nothing else: while a slot is left, every
\* job that is not hung itself is answered in the end.
EveryJobSettles ==
  \A i \in (1 .. MaxJobs) \ Hung :
    (i \in DOMAIN queue) ~> (i \in DOMAIN queue /\ queue[i].status \in Terminal)

\* The abstract service: a ticket is a position in the queue.
Service == INSTANCE JobService WITH
  Capacity <- Concurrency,
  Tickets  <- 1 .. MaxJobs,
  Stuck    <- Hung,
  issued   <- Len(queue),
  waiting  <- WithStatus("queued"),
  serving  <- WithStatus("processing"),
  settled  <- WithStatus("completed") \union WithStatus("failed")

\* The queue implements the service, retries and the turns of the event loop
\* being invisible to whoever submits jobs.
ImplementsService == Service!Spec

===============================================================================
