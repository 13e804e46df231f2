---------------------------- MODULE ExecutionEngine ----------------------------
(***************************************************************************)
(* One run of ExecutionEngine.execute (packages/core/src/engine.ts): the   *)
(* engine drives an environment, an agent and a verifier through a fixed   *)
(* sequence of awaits, any of which may reject, and always ends with a     *)
(* result.                                                                 *)
(*                                                                         *)
(* `pc' names the await the run is at.  What the collaborators do between  *)
(* the awaits is left open here; BenchmarkRun composes the engine with the *)
(* local environment.                                                      *)
(***************************************************************************)
EXTENDS Naturals

CONSTANT AgentKinds   \* the kinds of agent a run may be given: see below

ASSUME AgentKindsAssumption == AgentKinds \subseteq {"bundled", "custom"}

VARIABLES
  agentKind,      \* "bundled": the reference or HTTP agent of agent-sdk;
                  \* "custom": another subclass of BaseAgentAdapter
  pc,             \* the await the run is at
  status,         \* the RunStatus it will return
  agentState,     \* lifecycle state of the adapter (base-adapter.ts)
  agentResult,    \* the status the agent reported, or "none"
  verification,   \* verificationResult.passed, or "none": never verified
  artifacts,      \* whether artifacts were collected
  errorMessage    \* the await whose rejection was caught, or "none"

engineVars ==
  <<agentKind, pc, status, agentState, agentResult, verification, artifacts, errorMessage>>

\* The awaits inside the try block, in order.
Body == {"create", "snapshot", "initialize", "execute", "verify", "collect"}

\* The awaits of the finally block, and the return.
PC == Body \union {"shutdown", "destroy", "returned"}

ErrorKinds == {"TimeoutError", "ResourceLimitError", "InfrastructureError", "Error"}

TerminalStatus == {"COMPLETED", "FAILED", "TIMEOUT", "INFRA_ERROR"}

AgentStates ==
  {"UNINITIALIZED", "INITIALIZED", "RUNNING", "COMPLETED", "FAILED", "TIMEOUT", "TERMINATED"}

AgentResults == {"success", "failure", "timeout", "error"}

\* The status the catch block gives a run for an error.
StatusOf(kind) ==
  CASE kind = "TimeoutError"        -> "TIMEOUT"
    [] kind = "ResourceLimitError"  -> "FAILED"
    [] kind = "InfrastructureError" -> "INFRA_ERROR"
    [] kind = "Error"               -> "FAILED"

\* The fields of the context that the engine hands to agent.initialize.
ContextGiven == {"task", "environment", "recordStep"}

\* The fields an agent dereferences in execute before its own try block.
Requires(kind) == IF kind = "bundled" THEN {"tools"} ELSE {}

CanExecute(kind) == Requires(kind) \subseteq ContextGiven

-------------------------------------------------------------------------------
EngineInit ==
  /\ agentKind \in AgentKinds
  /\ pc = "create"
  /\ status = "INITIALIZING"
  /\ agentState = "UNINITIALIZED"
  /\ agentResult = "none"
  /\ verification = "none"
  /\ artifacts = FALSE
  /\ errorMessage = "none"

EnvironmentCreated ==
  /\ pc = "create"
  /\ pc' = "snapshot"
  /\ UNCHANGED <<agentKind, status, agentState, agentResult, verification, artifacts, errorMessage>>

SnapshotTaken ==
  /\ pc = "snapshot"
  /\ pc' = "initialize"
  /\ status' = "RUNNING"
  /\ UNCHANGED <<agentKind, agentState, agentResult, verification, artifacts, errorMessage>>

\* The adapter accepts its context, and the engine goes on to call its execute,
\* which sets RUNNING before anything else.
AgentInitialized ==
  /\ pc = "initialize"
  /\ agentState = "UNINITIALIZED"
  /\ pc' = "execute"
  /\ agentState' = "RUNNING"
  /\ UNCHANGED <<agentKind, status, agentResult, verification, artifacts, errorMessage>>

\* The agent returns a result.  Whatever status it reports, and whatever state its
\* adapter is left in, the run goes on to verification.
AgentFinished(result) ==
  /\ pc = "execute"
  /\ CanExecute(agentKind)
  /\ pc' = "verify"
  /\ status' = "VERIFYING"
  /\ agentResult' = result
  /\ agentState' \in {"RUNNING", "COMPLETED", "FAILED", "TIMEOUT"}
  /\ UNCHANGED <<agentKind, verification, artifacts, errorMessage>>

Verified(passed) ==
  /\ pc = "verify"
  /\ pc' = "collect"
  /\ verification' = IF passed THEN "passed" ELSE "failed"
  /\ UNCHANGED <<agentKind, status, agentState, agentResult, artifacts, errorMessage>>

ArtifactsCollected ==
  /\ pc = "collect"
  /\ pc' = "shutdown"
  /\ artifacts' = TRUE
  /\ status' = IF verification = "passed" THEN "COMPLETED" ELSE "FAILED"
  /\ UNCHANGED <<agentKind, agentState, agentResult, verification, errorMessage>>

\* The errors the await at pc may reject with.  A custom agent may throw anything.
\* The bundled agents accept the context of their first run, and turn every error
\* inside their try block into a result, so only a missing field of the context
\* makes one of them reject.  The environments and verifiers of this repository
\* throw none of the three special kinds.
MayReject(kind) ==
  \/ pc \in {"initialize", "execute"} /\ agentKind = "custom" /\ kind \in ErrorKinds
  \/ pc = "execute" /\ ~CanExecute(agentKind) /\ kind = "Error"
  \/ pc \in {"create", "snapshot", "verify", "collect"} /\ kind = "Error"

\* Mutant of Rejected: an error skips the cleanup.
Rejected_NoFinally(kind) ==
  /\ MayReject(kind)
  /\ pc' = "returned"
  /\ status' = StatusOf(kind)
  /\ errorMessage' = pc
  /\ UNCHANGED <<agentKind, agentState, agentResult, verification, artifacts>>

\* Mutant of Rejected: the catch block leaves the status of an unknown error alone.
Rejected_NoDefault(kind) ==
  /\ MayReject(kind)
  /\ pc' = "shutdown"
  /\ status' = IF kind = "Error" THEN status ELSE StatusOf(kind)
  /\ errorMessage' = pc
  /\ UNCHANGED <<agentKind, agentState, agentResult, verification, artifacts>>

\* Mutant of Rejected: the error of an agent is noted, and the run goes on.
Rejected_GoesOn(kind) ==
  /\ MayReject(kind)
  /\ pc' = IF pc = "execute" THEN "verify" ELSE "shutdown"
  /\ status' = StatusOf(kind)
  /\ errorMessage' = pc
  /\ UNCHANGED <<agentKind, agentState, agentResult, verification, artifacts>>

\* The await at pc rejects and the catch block runs.
Rejected(kind) ==
  /\ MayReject(kind)
  /\ pc' = "shutdown"
  /\ status' = StatusOf(kind)
  /\ errorMessage' = pc
  /\ UNCHANGED <<agentKind, agentState, agentResult, verification, artifacts>>

\* The adapter is shut down; an error of a custom shutdown is ignored.
AgentShutDown ==
  /\ pc = "shutdown"
  /\ pc' = "destroy"
  /\ \/ agentState' = "TERMINATED"
     \/ agentKind = "custom" /\ UNCHANGED agentState
  /\ UNCHANGED <<agentKind, status, agentResult, verification, artifacts, errorMessage>>

\* Mutant of EnvironmentDestroyed: a failed cleanup is reported as the run's status.
EnvironmentDestroyed_Reported ==
  /\ pc = "destroy"
  /\ pc' = "returned"
  /\ status' \in {status, "INFRA_ERROR"}
  /\ UNCHANGED <<agentKind, agentState, agentResult, verification, artifacts, errorMessage>>

\* The environment is destroyed, or its error ignored, and the result returned.
EnvironmentDestroyed ==
  /\ pc = "destroy"
  /\ pc' = "returned"
  /\ UNCHANGED <<agentKind, status, agentState, agentResult, verification, artifacts, errorMessage>>

EngineNext ==
  \/ EnvironmentCreated
  \/ SnapshotTaken
  \/ AgentInitialized
  \/ \E result \in AgentResults : AgentFinished(result)
  \/ \E passed \in BOOLEAN : Verified(passed)
  \/ ArtifactsCollected
  \/ \E kind \in ErrorKinds : Rejected(kind)
  \/ AgentShutDown
  \/ EnvironmentDestroyed

EngineSpec == EngineInit /\ [][EngineNext]_engineVars

-------------------------------------------------------------------------------
(***************************************************************************)
(* Properties.                                                             *)
(***************************************************************************)

\* The variables have the types of the source.
EngineTypeOK ==
  /\ agentKind \in AgentKinds
  /\ pc \in PC
  /\ status \in {"INITIALIZING", "RUNNING", "VERIFYING"} \union TerminalStatus
  /\ agentState \in AgentStates
  /\ agentResult \in AgentResults \union {"none"}
  /\ verification \in {"none", "passed", "failed"}
  /\ artifacts \in BOOLEAN
  /\ errorMessage \in Body \union {"none"}

\* A result never contradicts itself in the optimistic direction (engine.ts:141,
\* 178): it says COMPLETED exactly if the verifier passed the run and nothing was
\* thrown.  The one result that says `passed' without COMPLETED is that of a run
\* whose artifacts could not be collected after the verdict.
VerdictMatchesStatus ==
  pc = "returned" =>
    /\ status \in TerminalStatus
    /\ status = "COMPLETED" <=> (verification = "passed" /\ errorMessage = "none")
    /\ (verification = "passed" /\ status # "COMPLETED") => errorMessage = "collect"

\* Nothing is verified that the agent did not finish: a verdict exists only with
\* an agent result, and an error before the verdict leaves the default verdict,
\* not passed (engine.ts:110, 128-136).
NoVerdictWithoutAgent ==
  /\ verification # "none" => agentResult # "none"
  /\ errorMessage \in {"create", "snapshot", "initialize", "execute", "verify"}
       => verification = "none"

\* The phases of a run, as its status shows them.
Rank(s) ==
  CASE s = "INITIALIZING" -> 0
    [] s = "RUNNING"      -> 1
    [] s = "VERIFYING"    -> 2
    [] OTHER              -> 3

\* A run's status only moves forward, and a terminal status is never revised, by
\* the finally block or by anything an agent does late (engine.ts:107-160).
StatusMovesForward ==
  [][status' # status => Rank(status) < Rank(status')]_engineVars

===============================================================================
