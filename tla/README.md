# A verification of KaziAI Bench

KaziAI Bench runs AI agents on benchmark tasks: it creates a workspace, lets an agent work
in it, verifies what the agent left, and reports the result. This directory holds TLA+
models of the parts of the program that decide whether such a result can be trusted, the
TLC configurations that check them on small instances, and TLAPS proofs of the theorems
that hold for every value of their parameters.

Everything is translated from the sources under `src/`; `PROJECT.json` maps every
definition to the lines it stands for. Line numbers below are of those files.

    tlc -workers 2 -config WorkerQueue.cfg WorkerQueue.tla     # one run; PROJECT.json lists them all
    tlapm WorkerQueueProofs.tla                                # one module of proofs

## 1. Inventory

The program is a TypeScript monorepo on Node.js. Each process has one JavaScript thread: a
turn of the event loop is uninterrupted, and interleaving happens at `await`s, timers and
events. The operating system's processes, the Docker daemon and HTTP clients run beside it.

| Component | State it keeps | Operations | Hard behaviour | What makes it correct |
|---|---|---|---|---|
| Worker queue (`apps/worker/src/queue.ts`) | the array of jobs, the flag `processing` | `enqueue`, the loop of `processNext`, `executeJob` with its catch and finally | re-entrancy, wake-ups, retries, a job that hangs | slots bounded, no lost wake-up, no overtaking, final answers, every job answered |
| Suite runner (`core/src/parallel.ts`) | shared queue of runs, results, counter | workers take runs, push results, call `onRunComplete` | shared mutable state across awaits, a throwing callback | every run once, no idle worker, counters that add up |
| Execution engine (`core/src/engine.ts`) | status, result so far, error | nine awaits of one run, catch, finally | any await may reject | verdict, status and clean-up agree |
| Agent adapters (`agent-sdk`) | lifecycle state of the adapter | initialize, execute, shutdown | agents that throw, or do not await what they start | the engine survives all of them |
| Local environment (`environment-sdk/src/local-env.ts`) | working directory, `destroyed`, per command a child, a timer and a promise | create, execute, destroy; timer, error and close events | descendants of a shell, timer against exit | conclusive results, quiet after destroy |
| Docker sandbox (`sandbox/src/docker-sandbox.ts`) | `running`, the local fallback | create, reset, execute, destroy; timers | docker commands that fail, time out, take effect late | fields agree with the daemon, nothing left behind |
| Verifier (`verifier/src/dispatcher.ts` and one file per kind of check) | sums of scores and weights while it loops | dispatch of checks, the verdict | a check that throws, times out, is killed, or changes the workspace; the stop at the first failure | a pass means that all checks hold |
| Task validation and audit (`validation-pipeline.ts`, `hacker-fixer.ts`) | the sandbox of the no-op run, the trials of the vectors | criteria and no-op run; one verification per vector | errors that count as failures, an environment that is never reset | accepted tasks fail untouched, an audit that finds nothing is right |
| API server (`apps/api`) | maps of tasks, runs and keys | POST runs, POST submissions, leaderboard | repeated and conflicting requests, names that collide | nothing lost or counted twice |
| Budgets and cancellation (`core/src/budget.ts`, `cancellation.ts`) | one timer field; tokens by run, their listeners | run with timeout, cancel; create, listen, cancel, remove | overlapping calls, an action that outlives its timeout, a token that is replaced | limits limit, cancellations arrive, also if listeners call back |
| Tools and guardrail (`agent-sdk/src/guardrails.ts`, wrapped by `cli/src/commands/run.ts`) | counter of calls, the last call, its repetitions | a call: record, guard, execute, record | calls that overlap, are refused, or throw | limits hold, counters and trajectory agree |
| Trajectories, metrics (`tracing`, `metrics`, `reporting/src/comparator.ts`) | a list of events, counters | record, finalize, replay; scores, regressions | calls without results, runs without verdicts | counts and scores consistent |
| Command line (`apps/cli`) | files in `.kazi/runs` | run, export, compare | a kill between two writes, an export beside a run | records have trajectories, exports keep what they read |
| Files of an environment (`environment-sdk`) | paths to clean up | snapshot, artifacts, cleanup | partial failure | restore brings back the snapshot |
| Task schema, report writers, web, Python SDK | none to speak of | parse, format, print | - | - |

How they interact: the CLI, the suite runner and the worker each create an environment, an
agent and a verifier and call `ExecutionEngine.execute`, which owns the run: it creates the
environment, takes a snapshot, initializes and executes the agent, hands the environment to
the verifier, collects artifacts, and in a finally block shuts the agent down and destroys
the environment. The CLI wraps the tools of its agent, records them, and writes the files of
the run when the engine has returned; export and compare read those files, in other processes.
Task validation and audit call the verifier without the engine. Agent and verifier reach the
environment through its `execute`, at any time they like. The API server has a store of its own;
it neither calls the worker nor the engine.

## 2. Modules

| Module | What it models |
|---|---|
| `JobService` | abstract: what the worker promises to whoever submits jobs. A service with bounded slots that admits tickets in order of submission |
| `WorkerQueue` | the queue. One action per iteration of the loop (`Start`, `StartThrows`, `LoopBreak`) and per turn that begins outside of it (`enqueue`, `EngineReturns`, `DestroyReturns`, `Rejects`). `processing` is TRUE exactly while a turn is inside the loop |
| `ExecutionEngine` | one run. `pc` is the await the run is at; each action is what happens when that await settles, up to the next await. Collaborators are left open |
| `LocalEnvironment` | one environment and its commands: promise, shell, descendants, timer and exit code of each; the timer, `error` and `close` callbacks; and processes that fork, exit and get killed |
| `BenchmarkRun` | composes the two above: the engine's awaits are joined with the environment's operations, commands belong to the agent or to the verifier's checks, and callbacks and processes interleave with everything |
| `ParallelRunner` | the suite runner. A worker's turn, from the result of one run to the start of the next, is one step |
| `DockerSandbox` | the sandbox and the daemon. Docker clients are awaited; the daemon's `Remove` and `LateRun` happen on their own |
| `ApiStore`, `MCApiStore` | the store, the two requests that change it and the leaderboard; packages for model checking. A name is a sequence of symbols, one of which is the colon: the leaderboard joins names with two of them and splits keys at the first two (`Key`, `FirstPart`, `Rest`) |
| `RunLimits` | the `BudgetEnforcer` with overlapping calls of `runWithTimeout`, and the cancellation tokens and their registry. They share nothing, and are two parts of one module. `cancel` calls listeners one by one, and these may call anything: `stack` holds the cancellations in progress, one inside the other, and `CancelEnds` is the `delete` of `cancelRun` behind the last listener |
| `ToolSession` | an agent at work: a call runs through wrapper and guardrail to the start of the tool in one step, its answer comes in another. The ReferenceAgent's four steps are `Starts`, `Continues`, `Catches` and `Succeeds`; the HTTP agent sends one request (`HttpPosts` to `HttpReturns`); a custom agent may have several calls under way |
| `RunMetrics` | operators: recovery and composite scores, the comparator's regressions, in thousandths |
| `CliRun`, `MCCliRun` | `kazi run` around a session: result, metrics, the files, a kill between any two steps, and an exporting process. `MCCliRun` holds the results an earlier run may have left |
| `VerifierDispatch` | the dispatcher's loop, and every kind of check as a condition on the workspace. A workspace is the set of features that checks look for, and a check may add and remove some (`After`). A command may be cut short (`CheckCutShort`): killed, not started, or out of time, with the exit code that is reported then |
| `TaskAudit`, `MCTaskAudit` | the three callers of a verification: engine, validation with its no-op run, audit with its four vectors; and left-over processes that change the workspace (`Interferes`). `MCTaskAudit` holds tasks with checks of every kind |
| `*Proofs` | theorems about the module they are named after; `BenchmarkRunProofs` has those of `ExecutionEngine` and `LocalEnvironment`, too |

Definitions named `X_Something` are mutants: `X` as a plausible bug would have it. They
are used by no specification; replacing `X` by one of them breaks the property that
`PROJECT.json` names, which shows that the property depends on the code.

Abstractions worth knowing:

- A job, a run or a command is a number or a model value; steps, tokens and text are left out
  where no property is about them. In `BenchmarkRun` a verdict is the conjunction of its checks:
  its checks are assumed to have a positive weight. `VerifierDispatch` has the scores
  (`dispatcher.ts:34-42`), and `VerdictsAreRight` proves what they make of the conjunction for
  any weights.
- Scores are kept as fractions of two sums, and compared as the code compares them: after rounding
  half up to four digits (`AtLeast`, `Above`; `dispatcher.ts:37-41`).
- What commands and vectors do to a workspace depends on what they are, not on what they find: each
  adds and removes a fixed set of features. A command that is cut short has done all of it or nothing.
  Files outside of the workspace are features, too (`Outside`); only absolute paths name them.
- A docker sandbox that fell back hands its commands to a `LocalEnvironment`. Of that, `DockerSandbox`
  keeps what its caller sees: the timer kills the shell (`onTimeout`, promise "killed"), and the
  promise settles when what the shell has left running is gone (`onClose`).
- The order in which the listeners of a token registered is left out; they are called in any order.
- `handed` in `ToolSession` tells apart whether the agent's context has tools. The engine hands
  none over today (`engine.ts:121-125`), so that every CLI run ends in a rejection; with the
  value TRUE the session is what wrappers, guardrail and agent were written for. Both are in
  the model.
- The CLI runs the ReferenceAgent or the HTTP agent. A custom agent belongs to a program that
  uses the packages, and its session writes no files (`phase = "library"`).
- The engine awaits; what a collaborator may do in between is open in `ExecutionEngine`
  (`MayReject`) and made precise in `BenchmarkRun`. A custom agent may throw anything and may
  start commands it does not await, even after its run was verified.
- `ExecutionEngine.execute` itself can only reject if a verifier resolves to nothing
  (`engine.ts:178`), which no verifier of the repository does. `Rejecting` with `Fallible` in
  `WorkerQueue` and `Fatal` in `ParallelRunner` stand for such runs, since both callers have
  code for them.
- A shell ends with code 0, another code, or by a signal; its descendants either hold its
  output pipes or do not. Nothing else about processes is visible to the program.
- A docker client that failed or was killed says nothing of what the daemon did:
  a failed `docker run` may have created the container (`RunFails`), a timed-out one may start
  it later (`late`), a timed-out `docker rm` may still remove it (`removing`).

## 3. Runs

| Run | Bounds | What it shows |
|---|---|---|
| `worker_queue` | 2 slots, 4 jobs, 2 retries, job 2 may hang, the engine runs of jobs 1 and 4 may be rejected | all of `WorkerQueue`'s properties, and that it implements `JobService` with its fairness |
| `benchmark_run` | one command of the agent, one of a check, both kinds of agent | the result is consistent, commands are answered conclusively, the environment is destroyed exactly at the end, the run returns |
| `parallel_runner` | 5 runs on 3 workers: one hangs, one is rejected, one has a callback that throws | no run twice or forgotten, no idle worker, counters, progress |
| `docker_sandbox` | 2 commands, 2 resets | fields and daemon agree, a healthy sandbox leaves nothing, a fallback is for good, calls return, those of the host if what they left running ends |
| `api_store` | 7 packages, 2 posted runs | the last accepted package is stored as submitted, retries are harmless, plain names are ranked exactly |
| `run_limits` | 2 calls, one of them hung; 2 tokens for 2 runs, one listener | limits are lost only to overlapping calls, tokens are reached unless a listener created them in the middle, listeners are called exactly once, hung actions are given up |
| `cli_run` | the ReferenceAgent with every set of tools, and the HTTP agent; a custom agent with 5 calls of 2 kinds, 2 of them in flight, limits of 2 and 4 calls and 3 repetitions; 3 results of an earlier run, 5 states of its files | guardrail, counters, trajectory and replay; files after a kill; export beside a run; a run without a verdict never compares well |
| `task_audit` | 18 lists of one to three checks, each with and without a stop at the first failure; 5 features, one of them outside of the workspace; 4 vectors, 3 sets of static criteria that fail; one command cut short or one disturbance in a behaviour (`MaxUpsets`) | the dispatcher's verdict, the no-op run, file checks in a run, the audit |
| `orphans`, `timeout`, `bundled_agents`, `submissions` | as above | each finds a disagreement of the code with its documentation: section 6 |

Why the bounds are enough to be interesting. The queue needs more jobs than slots, a job that
comes back while younger ones wait, and one that keeps its slot: four jobs and two slots give
all of it, and two retries distinguish an off-by-one from the limit. A run has one thread of
control in the engine, so one agent's command and one check suffice to have a command of the
agent alive in every phase, its timer racing its exit, and a check that fails, times out or is
killed; commands do not interact with each other. In the suite, five runs and three workers
let every kind of run meet every other while a worker is taken for good. Two resets let a
sandbox fall back in the middle of its life, after a first container was removed or was not.
The packages are one of every kind that the handler and the leaderboard treat differently,
including two with one id, and two pairs whose names collide: one has its separator in a name, one
at the joint. Two calls suffice for one to clear the other's timer, two tokens for one to replace
another, and with a listener of the first for one to be created in the middle of a cancelRun. Five calls pass both limits of the
guardrail and can break a series of identical calls with another one; two in flight let answers
come in the other order. The costs of the CLI's runs go far over the budget, so that the scores
reach their bounds. Every kind of check occurs with a weight that decides and with one that does
not, before and after checks that throw; some leave or take away what others look for, and some
expect the codes 1 and 124 of commands that were cut short. The vectors include two that leave
nothing, so that what an earlier vector left is judged again, and one that overwrites a file of the
fixture. One upset is enough: nearly all properties ask for none, and in the rest a pass is judged
check by check. Two of them on a smaller instance have shown nothing else.

Deadlock checking is off where the system really stops: no more jobs are enqueued, a run or a
suite has returned, a sandbox is destroyed, all calls are answered, a report is made. `api_store`
checks it.

### Properties by component

- Queue. `ConcurrencyBound`; `NoLostWakeup`: between turns a job waits only if all slots
  are taken or a completed job has yet to destroy its environment and call `processNext`;
  `FifoOrder`; `RetriesAreImmediate`: all attempts of a job that cannot start are used up in
  one turn, so the retry limit is no protection against a condition that passes;
  `AnswersAreFinal`; `EveryJobSettles`; `ImplementsService`.
- Run. `VerdictMatchesStatus`, with its one exception: a run whose artifacts cannot be
  collected says passed and FAILED at once; `NoVerdictWithoutAgent`; `StatusMovesForward`;
  `CleanedUp`; `ResultsAreConclusive`; `RunReturns`.
- Suite. `EachRunOnce`; `NoIdleWorker`; `CounterAccounts`: the counter is the number of runs
  that settled, plus one for each throwing callback (`parallel.ts:38-43` counts those runs
  twice, so the count can pass the total); `SuiteProgress`: every run beside a hung one is finished
  (that a suite without hung runs returns, its other half, says nothing in a run that has one).
- Sandbox. `RunningMeansUp`; `HealthyCleanUp`: if docker never failed; the container that a failed
  `docker run` leaves behind is caught by no property, see section 6; `FallbackIsForGood`;
  `CallsSettle`: a command on the host only if nothing that it left there runs for ever.
- Store. `LatestPackageWins`; `RetryIsHarmless`; `PlainEntriesAreExact`. Names with two colons in a
  row, or with one at the joint, as `xa:` with `bb` and `xa` with `:bb`, may share an entry or be shown
  under a name nobody submitted (`store.ts:95-103`); the property is about all others. A package
  with the id of an older one leaves the older one's runs under trial numbers it lacks.
- Limits. `LimitLostOnlyToOthers` and `LimitIsEnforced`: the enforcer has one timer field for all
  its calls, and the end of one action clears the timer of another (`budget.ts:30-42`), so a limit
  holds for calls that do not overlap; `ReachedByCancelRun`, with its exceptions: a token that was
  replaced is never reached (`cancellation.ts:49-53`), and one that a listener creates in the middle
  of a `cancelRun` of its run is deleted unheard (:55-60); `CancellationIsHeard`: everybody who
  registered is called exactly once, nobody before the cancellation.
- Session. `CallLimit` and `LoopIsBroken`, also for calls that overlap; `CountersAgree`: four
  counters of the same calls; `AuditTrail`; `ReplayKeepsOrder`.
- Files. `RecordHasTrajectory` through every kill; `ExportHoldsAllOrNone`: while files are written an
  export collects every complete one that it could see, and in the default format, with an output
  that is not named `.jsonl`, it ends with none of them (`exporter.ts:26-27`);
  `NoVerdictLoses`: a run without a verdict gets full marks for reliability, safety and recovery,
  and still never beats a run that passed, as long as the task asks for more than 0.325.
- Checks. `VerdictIsReference`: a pass is earned by every check, either because it held in what it
  found or because it was cut short with just the code that it expects: 0 of a killed shell, 1 of one
  that was not started, 124 of a security check that hangs (`local-env.ts:143, 155`,
  `security-verifier.ts:20`); undisturbed, verdict and score are a reference's that knows no loop, no
  stop and no running sums. `NoOpRunDecides`, with its exception: an error counts as the failure that
  was expected and leaves the sandbox (`validation-pipeline.ts:182-185`); a score of exactly a tenth is
  a failure for the code, and not for its comments (:42, :158, :179). `FileChecksNeverPassRuns`, unless
  all paths are absolute. `AuditIsSound`, for tasks that run all their checks, ask for nothing that must
  be absent, and take nothing of the fixture away, and for each vector as far as those before it take
  nothing away either. For the others, what one vector or check did can hide the next: an audit that
  finds nothing says nothing about them. (Of the vectors in the source, the third overwrites `test.js`
  and the fourth does nothing, so for them the last condition excludes a vector without effects.)

The type invariants (`TypeOK`) and `NothingStartsAfterDestroy` are not in the runs because they
are proved: they are the first part of the inductive invariants of section 4.

### Fairness

Fairness is assumed of what the program's runtime does by itself, never of callers.

- Synchronous code goes on: the queue's loop, the start of the suite's workers.
- Promises that can settle do, and timers and events are delivered: the awaits of the engine,
  the callbacks of a command, the docker clients, all of which have a timer.
- A run settles unless it is in `Hung`. Nothing in the code makes it settle: the engine sets no
  limit on an agent. So `EveryJobSettles` and `SuiteProgress` are stated for the other runs, as
  long as a slot is left for them.
- The engine calls `destroy` (`engine.ts:154-158`), so the sandbox's `destroy` is fair.
- `RunReturns` assumes that the agent settles and, in `KidsDieOut`, that left-over descendants
  of shells come to an end. Without that it is false; run `timeout` shows why.
- Timeouts fire, and actions settle that are not in `Hung` (`RunLimits`); nobody has to cancel.
- In `CallsSettle`, that what a command left running on the host comes to an end (`<>[]` in the
  property itself), for the same reason.
- Nobody has to enqueue a job, execute a command, or end a process. Nor does the daemon have
  to do what it was told.

## 4. Proofs

All theorems are proved for every value of the constants, under the assumptions named in the
modules that declare them, which TLC evaluates in the runs. Most say that limits are natural
numbers and that sets of jobs, runs and commands are subsets. The others:

- `NamesAssumption` (`ApiStore`): a name is a sequence of at least one symbol. The schema asks for two
  (`submission.ts:6-10`), and a posted run without a name gets a default (`routes/runs.ts:62-64`).
- `TasksAssumption`, `EffectsAssumption`, `UpsetsAssumption` (`TaskAudit`): a task has at least one check,
  each with a natural weight in thousandths (`verification.ts:32`); each of the four cheat vectors has an
  effect, whatever it is; the bound on upsets is any natural number.
- `NoRunAssumption` (`RunLimits`): the value for "no run" is not the id of a run.
- `CallsAssumption` (`ToolSession`): no call of a custom agent is the value that stands for "there
  was no call yet".
- `ResultsAssumption` (`CliRun`): scores and costs are integers, the results of the earlier run are
  such as this one could have left, and the server of an HTTP agent claims no negative counts. The
  last is not checked by the code: it takes what the answer says (`http-adapter.ts:71-82`).

| Module | Theorems | Argument |
|---|---|---|
| `WorkerQueueProofs` | `TypeCorrect`, `Concurrent`, `NoWakeupLost`, `AnswersFinal`, `Fifo`, `NoBackoff`, `Refinement` | see below |
| `BenchmarkRunProofs`, on the engine | `EngineTypeCorrect`, `EngineInvariant`, `VerdictCorrect`, `AgentBeforeVerdict`, `StatusForward` | `EngineInv` says, for each await, which status, verdict and error a run can have there |
| ..., on the environment | `EnvInvariant`, `EnvTypeCorrect`, `ConclusiveResults`, `DestroyedIsQuiet` | `EnvInv` relates promise, shell, timer and exit code of a command |
| ..., on the composition | `Components`, `RunTypeCorrect`, `ComponentProperties`, `CleanUp` | every step of the composition is a step or a stutter of each component, so the components' theorems carry over; clean-up is proved on the composition |
| `ParallelRunnerProofs` | `Invariant`, `TypeCorrect`, `RunsAreRunOnce`, `WorkersStayBusy`, `CounterIsAccounted` | runs before `next` were handed out, and each is with one worker or has one result; a run is lost exactly if it was taken and is in neither place, so a rejection adds one to the lost runs and to the counter |
| `DockerSandboxProofs` | `SandboxInvariant`, `SandboxTypeCorrect`, `RunningIsTrue`, `CleanUpWhenHealthy`, `FallbackSticks` | `Believed` and `Healthy` say for each call in progress how the fields and the daemon agree |
| `ApiStoreProofs` | `LatestWins`, `RepeatedSubmission`, `PlainEntries` | ids of different submissions and of posted runs differ, whatever trials a package has; every stored name has a symbol (`NamesInv`); the first two colons of a plain contestant's key are those that join its names, so any other contestant with this key is the same |
| `RunLimitsProofs` | `Invariant`, `TypeCorrect`, `LimitLoss`, `CancelRunReaches`, `ListenersHear` | two actions that run know of each other (`RunningMeet`), so whoever loses its timer to another has that one in `beside`; of two tokens for a run the map holds the later; the token that a `cancelRun` on the stack will delete (`DeletesAreCovered`) is its own, a later one of the run, or one born inside of it; a listener waits for a cancelled token only while that one's cancel is on the stack, and was called once exactly if it registered and does not wait (`ListenersInv`) |
| `TaskAuditProofs` | `PassInvariant`, `PassedOnMerits`, `FileChecksFail` | `PassInv`: as long as no check has failed, each one before the next was recorded and earned its pass; the context of an engine run has no directory |
| ..., on the verdict | `ReferenceInvariant`, `VerdictsAreRight` | `RefInv`: undisturbed, the loop's sums are those of the checks before the next one, the workspace is what they leave, and a task that stops at a failure has had none |
| ..., on its callers | `NoOpRunsDecide`, `AuditsAreSound` | `NoOpInv`: the verdict that a report rests on is one on the untouched workspace; `AuditInv`: a vector that was judged harmless on top of the others is harmless alone, because nothing of the fixture was taken away (`KeptInv`) and the checks leave more if they find more (`LeftGrows`) |
| `CliRunProofs` | `Invariant`, `CallsAreLimited`, `LoopsAreBroken`, `RecordsHaveTrajectories`, `ExportsHoldAllOrNone` | `GuardInv` and, for the files, what each phase of the process has written and what an export has yet to read |
| ..., on the session | `SessionInvariant`, `SessionTypes`, `CountersAlwaysAgree`, `TrailsAreComplete`, `ReplaysKeepOrder` | `SessionInv`, see below |
| ..., on the results | `NoVerdictNeverWins` | `ResultInv`: a result without a verdict has score 0, one that passed has the minimum |

Why the invariants have to be strengthened. `ConcurrencyBound` and `NoLostWakeup` follow from
the type invariant once the number of jobs in processing is known to change by at most one per
step (`CountJobs`, `FewerInService`). `RetriesAreImmediate` speaks of the time between turns
and is not inductive: `RetriedIsNext` adds that, inside the loop, only the first queued job can
have been tried before, and that a slot is free for it, so the loop cannot end before it has
been tried again. `VerdictMatchesStatus` speaks of a returned run, and needs to know at every
await what the catch block may still do. `HealthyCleanUp` holds at the end because of what
holds while `docker run` and `docker rm` are under way. `LoopIsBroken` looks at the calls
that were started, the guardrail at those that were made: `LastStarted` and `RepeatsCount` say that
the last one started is the guardrail's last call, and that its counter is at least the length of
the series that it ends.

`SessionInv` joins what the session's properties need of each other. `CountersAgree` is inductive
with the types. `AuditTrail` speaks of a finished trajectory: `TrailInv` says at every stage of the
ReferenceAgent which call waits for a result (`AwaitsInv`), and that in the log every call has its
result behind it but for the one that waits (`Trailed`). `ReplayKeepsOrder` needs that the commands
of the log are those that were made, at all times (`Plays`): each call is recorded in the turn in
which it is made, however their answers overlap, and nothing is called after the end of the agent.

The models have three recursive functions, the sums of a verification's scores (`Sums`), the workspace
after so many checks (`Left`), and the commands of a replay in their order (`InOrder`). That they obey their equations, and what follows for
every length, is proved from the well-foundedness of the naturals: a set of naturals that has 0 and
with a number its successor has all of them (`SetInduction`, by way of the least number that it
lacks, `LeastOf`). `VerdictsAreRight` compares the loop's running sums with `Sums`; `AuditsAreSound`
compares what the checks leave, and the sums, of two workspaces check by check (`LeftGrows`,
`SumsMonotone`).

`NoVerdictNeverWins` is stated for tasks with a `minimum_score` above 0.325 (`MinScore > 325`): the
bundled tasks have 0.9, the default is 0.8, the schema allows any from 0 to 1. Efficiency and cost
can make up for 0.13 at most, which is what 0.325 of the score weigh. Far below it the property is
false: with a minimum of 0.2 and an earlier run that never had a verdict nor took more than one step, TLC
finds one that passed at great cost and scores less.

`AnswersFinal` and `Refinement` assume that `destroy` is not among the awaits that reject: a
job is shown as completed before its environment is destroyed (`queue.ts:120-129`), and if that
could fail, a completed job would be run again. `LocalEnvironment.destroy` cannot throw
(`local-env.ts:192-201`), so the assumption holds of this worker, but of no other environment.
`Refinement` covers initial states and steps.

Only model-checked: liveness (`EveryJobSettles`, `RunReturns`, `SuiteProgress`, `CallsSettle`,
`LimitIsEnforced`) and the fairness part of the refinement, which the prover cannot handle. Every
invariant and every action property of the passing runs is proved; what the four remaining runs look for is
false.

## 5. What could follow

1. The contents of a working directory: jobs of the worker that share an id and with it a
   directory (`queue.ts:90`), where the end of one destroys the files of the other.
2. The CLI's suites: several runs that write to `.kazi/runs` at the same time.
3. That `BenchmarkRun` implements an abstract run of which callers see only start and result,
   and that `VerifierDispatch` implements the conjunction which `BenchmarkRun` takes for a verdict.

## 6. Findings

| Run | The code | The documentation |
|---|---|---|
| `orphans` | the timer kills the shell alone and `destroy` kills nothing; descendants survive the run (`local-env.ts:122-130, 192-201`) | `docs/security.md:46-47`: process groups, zero orphans |
| `timeout` | a command's promise waits for `close`, hence for every holder of its pipes, after the timeout as before it (`local-env.ts:152-161`) | `docs/security.md:63`: an enforced wall-clock limit |
| `bundled_agents` | the engine's context for the agent has no `tools`, which both bundled agents dereference before their try block (`engine.ts:121-125`) | `docs/architecture.md:50-52`: supported out of the box |
| `submissions` | the id of a stored trial lacks its task, so that tasks overwrite each other (`routes/submissions.ts:24`) | `routes/submissions.ts:20`: each trial is ingested |

Found while reading and not the subject of a run:

- A shell that was killed has no exit code, and no exit code counts as 0 (`local-env.ts:155`), so that a
  check which expects 0 passes. One that cannot be started counts as 1 (:143). A timeout counts as 124,
  and only the verifier of commands looks at `timedOut`: a security check that expects 124 passes when its
  command hangs (`security-verifier.ts:20-21`). `VerdictIsReference` names all three.
- The sandbox's fallback forgets a container that a failed or late `docker run` created
  (`docker-sandbox.ts:96-103, 177-180`; `docs/architecture.md:46` says guaranteed cleanup). No property
  catches it: `HealthyCleanUp` is about sandboxes whose docker commands succeeded.
- A command that a sandbox handed to its fallback is not settled by its timeout, which kills the shell
  alone (`docker-sandbox.ts:130-132`, `local-env.ts:127-161`): run `timeout`, in another place.
- A posted run stays QUEUED for ever, though the Python SDK speaks of starting it
  (`sdks/python/kazi_bench/__init__.py:90`).
- The verifier's context has no `workspaceDir` (`engine.ts:132`): a filesystem check, or a
  database check with a path, rejects every run's verification (`FileChecksNeverPassRuns`), unless its
  path is absolute. The guide has one with a path of the workspace (`docs/task-authoring.md:69-73`); its
  fields `file_path` and `contains_regex` are none of the schema's, so that check has no path at all.
- A no-op run that scores exactly a tenth, or what is rounded to it, counts as a failure (score > 0.1,
  `validation-pipeline.ts:179`), where the comments and the changelog ask for less than a tenth (:42, :158,
  `benchmarks/CHANGELOG.md:8`). `NoOpRunDecides` says what the code does; its tasks include one of each.
- The audit's vectors and checks share one workspace (`hacker-fixer.ts:69-83`). One that takes something
  of the fixture away, as the third vector overwrites `test.js`, can make the rest fail that would bypass
  the checks alone: then the audit's "no cheat vectors bypassed" is not true of them.
- `docs/metrics.md` has formulas that are not the code's: the verification score is a weighted mean and
  not a sum (`dispatcher.ts:37`), efficiency is about steps and not durations and is at least 0.2, cost
  is taken against twice the budget, and a violation costs 0.5 and not 0.2 (`scoring.ts:36-57`).
  `RunMetrics` has the code's.
- The CLI's wrapped tools are handed to nobody (`run.ts:42-83`, `engine.ts:121-125`), so that its
  trajectories hold only the first and the last event.
- Two calls of one `BudgetEnforcer` share its timer field; the first to end disarms the other's
  limit (`budget.ts:30-42`). A token that another one replaces cannot be cancelled by its run's id
  (`cancellation.ts:49-53`), nor one that a listener creates while `cancelRun` of that run calls it: the
  delete behind the listeners takes it out of the map (:55-60). `kazi cancel` asks the registry of its own process, which is empty.
- An export with the default format to a name that does not end in `.jsonl` overwrites its records
  with the metadata (`exporter.ts:26-27`, `export.ts:59-63`; `KeepsRecords`). An export takes the record of a run for a second trajectory.
- A replay also runs the commands that the guardrail refused (`replay.ts:30-35`), and does so in an
  empty workspace.
- A verification that throws in the no-op run counts as the failure that was expected, and leaves
  the sandbox (`validation-pipeline.ts:182-185`). No run of a solution is part of the validation.
- A task whose checks have no weight is accepted and cannot be solved, unless its minimum is 0; the
  judge's fixed 0.95 can keep a minimum out of reach (`llm-judge.ts:30-52`).
- A filesystem check that has only a pattern passes if its file is missing (`fs-verifier.ts:30-53`).
- The HTTP agent clears its timer before it reads the body of the answer (`http-adapter.ts:62-68`,
  `HttpResponds`): a server that stalls there holds the run for ever. The http check does the same.
- A task with a `minimum_score` of 0.2 may rank a run that was never verified above one that passed:
  the former has full marks for safety, recovery, efficiency and cost (`scoring.ts:36-71`).
- `kazi run-suite` takes `--parallel` and ignores it (`run-suite.ts:15, 34`).
- `kazi replay` compares the output of a command with the field `output` of its call, which the
  recorder never sets (`replay.ts:37-39`, `run.ts:70-74`): a replay is reported as identical exactly
  if no command prints anything.
- Contestants whose names meet at a colon, as `xa:` with `bb` and `xa` with `:bb`, share an entry of the
  leaderboard (`store.ts:95-103`).
- `WORKER_CONCURRENCY` may parse to NaN, which is no limit at all.

## 7. Not modelled

- The web dashboard and the Python SDK: presentation and transport. Writers of HTML, Markdown and
  terminal reports: formatting.
- Of the command line: suites, list, info, inspect, validate, generate, report, doctor, cancel and
  all printing; of replay, the order of its commands (`Replayed`) and not their execution.
- The command sanitizer, the redactor and the failure taxonomy: pattern matching on strings. (By
  its words, the message of a `TimeoutError` is classified as a failed task.)
- Pricing and statistics: floating-point arithmetic on single values. `checkCost`, `checkSteps` and
  `checkTokens` compare and throw.
- Zod schemas and the loader of tasks: declarative validation of files. Of the submission
  schema, what decides acceptance is in `ApiStore`; of a task's, what bounds its checks is in
  `TasksAssumption`. The seeded generator is a pure function of its seed.
- `CleanupManager` and the snapshot classes, which no program of the repository uses, and the MCP
  client, a stub.
- A container that ends by itself while the sandbox uses it.
- Concurrency that is NaN; docker clients whose `spawn` fails after `docker info` succeeded
  (`execute` has no `error` handler, so the process would end); runs of a suite that share an agent
  or an environment, which no caller makes.
