----------------------------- MODULE BenchmarkRun -----------------------------
(***************************************************************************)
(* One benchmark run from end to end: the execution engine, the local      *)
(* environment it creates and destroys, the agent's commands and the       *)
(* verifier's.  The awaits of the engine are joined with the operations    *)
(* of the environment they wait for; callbacks of the environment and the  *)
(* processes themselves interleave with them freely.                       *)
(***************************************************************************)
EXTENDS ExecutionEngine, LocalEnvironment

CONSTANT VerifierCommands   \* the commands that the verifier's checks execute

ASSUME VerifierCommandsAssumption == VerifierCommands \subseteq Commands

AgentCommands == Commands \ VerifierCommands

vars == <<engineVars, envVars>>

-------------------------------------------------------------------------------
Init == EngineInit /\ EnvInit

Create == EnvironmentCreated /\ create

\* The environment could not be created: one of the rejections of the engine.
CreateFails == pc = "create" /\ Rejected("Error") /\ createThrows

\* Awaits that read the environment, or do not touch it.
Snapshot == SnapshotTaken /\ UNCHANGED envVars

InitializeAgent == AgentInitialized /\ UNCHANGED envVars

\* The agent runs a command, once the engine has called its execute.  A custom
\* agent that does not await everything it starts may do so at any later time.
AgentExecutes(c) ==
  /\ c \in AgentCommands
  /\ \/ pc = "execute" /\ CanExecute(agentKind)
     \/ agentKind = "custom" /\ (agentResult # "none" \/ errorMessage = "execute")
  /\ execute(c)
  /\ UNCHANGED engineVars

FinishAgent == (\E result \in AgentResults : AgentFinished(result)) /\ UNCHANGED envVars

Verifying == \E c \in VerifierCommands : Running(c)

\* The checks run one after the other.
VerifierExecutes(c) ==
  /\ c \in VerifierCommands
  /\ pc = "verify"
  /\ ~Verifying
  /\ execute(c)
  /\ UNCHANGED engineVars

\* A check passes if its command exits with the expected code, here 0, in time.
CheckPasses(c) == exitCode[c] = "0" /\ ~TimedOut(c)

\* The verifier is done: it has run all its checks, or stopped at a failed one.  A
\* task without checks has score 0, which is not enough.  Checks have a weight.
Verify ==
  /\ ~Verifying
  /\ \/ \A c \in VerifierCommands : Settled(c)
     \/ \E c \in VerifierCommands : Settled(c) /\ ~CheckPasses(c)
  /\ Verified(VerifierCommands # {} /\ \A c \in VerifierCommands : Settled(c) /\ CheckPasses(c))
  /\ UNCHANGED envVars

CollectArtifacts == ArtifactsCollected /\ UNCHANGED envVars

\* Any other await of the try block rejects; the verifier's only between two of
\* its commands.
Fail ==
  /\ pc # "create"
  /\ ~Verifying
  /\ \E kind \in ErrorKinds : Rejected(kind)
  /\ UNCHANGED envVars

ShutDown == AgentShutDown /\ UNCHANGED envVars

Destroy == EnvironmentDestroyed /\ destroy

Events(c) == Callbacks(c) /\ UNCHANGED engineVars

Outside(c) == Processes(c) /\ UNCHANGED engineVars

Next ==
  \/ Create \/ CreateFails \/ Snapshot \/ InitializeAgent \/ FinishAgent
  \/ Verify \/ CollectArtifacts \/ Fail \/ ShutDown \/ Destroy
  \/ \E c \in Commands :
       AgentExecutes(c) \/ VerifierExecutes(c) \/ Events(c) \/ Outside(c)

(***************************************************************************)
(* Promises that can settle do, and node delivers its events.  That the    *)
(* agent settles is an assumption: the engine sets no limit on it.         *)
(***************************************************************************)
EngineFairness ==
  /\ WF_vars(Create \/ CreateFails)
  /\ WF_vars(Snapshot)
  /\ WF_vars(InitializeAgent)
  /\ WF_vars(pc = "execute" /\ (FinishAgent \/ Fail))
  /\ \A c \in VerifierCommands : WF_vars(VerifierExecutes(c))
  /\ WF_vars(Verify)
  /\ WF_vars(CollectArtifacts \/ (pc = "collect" /\ Fail))
  /\ WF_vars(ShutDown)
  /\ WF_vars(Destroy)

EnvFairness == \A c \in Commands : WF_vars(Events(c))

\* Descendants of a shell die out: nothing in the program makes them.
KidsDieOut == \A c \in Commands : <>[](kids[c] = {})

SafeSpec == Init /\ [][Next]_vars

Spec == SafeSpec /\ EngineFairness /\ EnvFairness

-------------------------------------------------------------------------------
(***************************************************************************)
(* Properties.                                                             *)
(***************************************************************************)

\* Types of both components.
TypeOK == EngineTypeOK /\ EnvTypeOK

\* However a run ends, the adapter was shut down and then the environment destroyed,
\* once each, before the caller has the result (engine.ts:148-160).
CleanedUp ==
  /\ destroyed <=> pc = "returned"
  /\ (pc = "returned" /\ agentKind = "bundled") => agentState = "TERMINATED"

\* Every run returns a result, if the agent settles and the processes that the
\* commands leave behind die out.
RunReturns == KidsDieOut => <>(pc = "returned")

\* When a run has returned, no process of its commands is alive (docs/security.md:47
\* promises it of every process group; local-env.ts:122-130, 192-201).
NoOrphans == pc = "returned" => \A c \in Commands : ~Alive(c)

\* A command's promise settles once its timer has fired (docs/security.md:63 promises
\* an enforced wall-clock limit; local-env.ts:127-130, 152-161).
TimeoutSettles == \A c \in Commands : (Running(c) /\ TimedOut(c)) ~> Settled(c)

\* A bundled agent does not make execute reject: it reports its errors as results
\* (docs/architecture.md:50-52 supports them out of the box; engine.ts:121-128,
\* reference-agent.ts:15, http-adapter.ts:41).
BundledAgentsReport == agentKind = "bundled" => errorMessage # "execute"

===============================================================================
