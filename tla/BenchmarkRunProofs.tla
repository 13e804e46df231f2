-------------------------- MODULE BenchmarkRunProofs --------------------------
(***************************************************************************)
(* Proofs about BenchmarkRun and the two components it is made of, for all *)
(* commands and kinds of agents.  The theorems of ExecutionEngine leave the *)
(* environment open: they hold of a run in any environment that takes part *)
(* in the engine's awaits.  In those of LocalEnvironment anybody may execute *)
(* a command, and create or destroy the environment, at any time.  The     *)
(* composition lets each component do only what its own specification      *)
(* allows, so that their theorems hold of it; what relates the two is proved *)
(* at the end.                                                             *)
(***************************************************************************)
EXTENDS BenchmarkRun, TLAPS

-------------------------------------------------------------------------------
(***************************************************************************)
(* ExecutionEngine                                                         *)
(***************************************************************************)
\* What StatusOf and CanExecute say, once and for all.
LEMMA StatusOfKind ==
  ASSUME NEW kind \in ErrorKinds
  PROVE  StatusOf(kind) \in TerminalStatus \ {"COMPLETED"}
BY DEF ErrorKinds, StatusOf, TerminalStatus

\* Only the awaits of the try block reject.
LEMMA RejectsInBody ==
  ASSUME EngineTypeOK, NEW kind \in ErrorKinds, MayReject(kind)
  PROVE  pc \in Body
BY DEF MayReject, Body, EngineTypeOK, PC

-------------------------------------------------------------------------------
\* The variables have their types: the type invariant of the runs.
THEOREM EngineTypeCorrect == EngineSpec => []EngineTypeOK
<1> USE DEF EngineTypeOK, PC, Body, TerminalStatus, AgentStates, AgentResults
<1>1. EngineInit => EngineTypeOK
  BY DEF EngineInit
<1>2. EngineTypeOK /\ [EngineNext]_engineVars => EngineTypeOK'
  <2> SUFFICES ASSUME EngineTypeOK, [EngineNext]_engineVars
               PROVE  EngineTypeOK'
    OBVIOUS
  <2>1. CASE EnvironmentCreated
    BY <2>1 DEF EnvironmentCreated
  <2>2. CASE SnapshotTaken
    BY <2>2 DEF SnapshotTaken
  <2>3. CASE AgentInitialized
    BY <2>3 DEF AgentInitialized
  <2>4. CASE \E result \in AgentResults : AgentFinished(result)
    BY <2>4 DEF AgentFinished
  <2>5. CASE \E passed \in BOOLEAN : Verified(passed)
    BY <2>5 DEF Verified
  <2>6. CASE ArtifactsCollected
    BY <2>6 DEF ArtifactsCollected
  <2>7. ASSUME NEW kind \in ErrorKinds, Rejected(kind)
        PROVE  EngineTypeOK'
    BY <2>7, StatusOfKind, RejectsInBody DEF Rejected
  <2>8. CASE AgentShutDown
    BY <2>8 DEF AgentShutDown
  <2>9. CASE EnvironmentDestroyed
    BY <2>9 DEF EnvironmentDestroyed
  <2>10. CASE UNCHANGED engineVars
    BY <2>10 DEF engineVars
  <2> QED
    BY <2>1, <2>2, <2>3, <2>4, <2>5, <2>6, <2>7, <2>8, <2>9, <2>10 DEF EngineNext
<1> QED
  BY <1>1, <1>2, PTL DEF EngineSpec

-------------------------------------------------------------------------------
(***************************************************************************)
(* What has happened when the run is at an await.  A run that is still in  *)
(* its try block has seen no error, has an agent result from verification  *)
(* on, and has a verdict from the collection of artifacts on; a run that   *)
(* left the try block left it by its last statement or by an error.        *)
(***************************************************************************)
AgentIsDone == agentResult # "none"

LeftTheTryBlock == pc \in {"shutdown", "destroy", "returned"}

Progress ==
  /\ pc \in Body => errorMessage = "none"
  /\ pc \in {"create", "snapshot", "initialize", "execute"} => agentResult = "none"
  /\ pc \in {"create", "snapshot", "initialize", "execute", "verify"} => verification = "none"
  /\ pc \in {"verify", "collect"} => AgentIsDone
  /\ pc = "collect" => verification # "none"

Outcome ==
  /\ LeftTheTryBlock =>
       \/ /\ errorMessage = "none"
          /\ verification # "none"
          /\ status = IF verification = "passed" THEN "COMPLETED" ELSE "FAILED"
       \/ /\ errorMessage \in Body
          /\ status \in TerminalStatus \ {"COMPLETED"}
          /\ errorMessage # "collect" => verification = "none"
  /\ verification # "none" => AgentIsDone

\* The status shows the phase the run is in.
Phase ==
  /\ pc \in {"create", "snapshot"} => status = "INITIALIZING"
  /\ pc \in {"initialize", "execute"} => status = "RUNNING"
  /\ pc \in {"verify", "collect"} => status = "VERIFYING"

\* The inductive invariant.
EngineInv == EngineTypeOK /\ Progress /\ Outcome /\ Phase

\* The initial states satisfy the invariant.
LEMMA InvInitially == EngineInit => EngineInv
BY DEF EngineInit, EngineInv, EngineTypeOK, Progress, Outcome, Phase, AgentIsDone,
       LeftTheTryBlock, PC, Body, TerminalStatus, AgentStates, AgentResults

\* An error leaves the try block as Outcome describes.
LEMMA InvAfterError ==
  ASSUME EngineInv, EngineTypeOK', NEW kind \in ErrorKinds, Rejected(kind)
  PROVE  EngineInv'
<1>1. pc \in Body
  BY RejectsInBody DEF EngineInv, Rejected
<1>2. status' \in TerminalStatus \ {"COMPLETED"}
  BY StatusOfKind DEF Rejected
<1>3. Progress' /\ Phase'
  BY DEF Rejected, Progress, Phase, Body
<1>4. Outcome'
  BY <1>1, <1>2 DEF EngineInv, Rejected, Progress, Outcome, LeftTheTryBlock, AgentIsDone, Body
<1> QED
  BY <1>3, <1>4 DEF EngineInv

\* Every step preserves the invariant.
LEMMA InvPreserved ==
  ASSUME EngineInv, EngineTypeOK', [EngineNext]_engineVars
  PROVE  EngineInv'
<1> USE DEF EngineInv, Progress, Outcome, Phase, AgentIsDone, LeftTheTryBlock, Body
<1>1. CASE EnvironmentCreated
  BY <1>1 DEF EnvironmentCreated
<1>2. CASE SnapshotTaken
  BY <1>2 DEF SnapshotTaken
<1>3. CASE AgentInitialized
  BY <1>3 DEF AgentInitialized
<1>4. CASE \E result \in AgentResults : AgentFinished(result)
  BY <1>4 DEF AgentFinished, AgentResults
<1>5. CASE \E passed \in BOOLEAN : Verified(passed)
  BY <1>5 DEF Verified
<1>6. CASE ArtifactsCollected
  BY <1>6 DEF ArtifactsCollected
<1>7. CASE \E kind \in ErrorKinds : Rejected(kind)
  BY <1>7, InvAfterError
<1>8. CASE AgentShutDown
  BY <1>8 DEF AgentShutDown
<1>9. CASE EnvironmentDestroyed
  BY <1>9 DEF EnvironmentDestroyed
<1>10. CASE UNCHANGED engineVars
  BY <1>10, Zenon DEF engineVars, EngineTypeOK
<1> QED
  BY <1>1, <1>2, <1>3, <1>4, <1>5, <1>6, <1>7, <1>8, <1>9, <1>10 DEF EngineNext

\* The invariant holds of every run.
THEOREM EngineInvariant == EngineSpec => []EngineInv
<1>1. EngineInv /\ EngineTypeOK' /\ [EngineNext]_engineVars => EngineInv'
  BY InvPreserved
<1> QED
  BY <1>1, InvInitially, EngineTypeCorrect, PTL DEF EngineSpec

\* A result says COMPLETED exactly if the verifier passed the run and nothing was
\* thrown; a pass is lost only when artifacts cannot be collected.
THEOREM VerdictCorrect == EngineSpec => []VerdictMatchesStatus
<1>1. EngineInv => VerdictMatchesStatus
  BY DEF EngineInv, EngineTypeOK, Outcome, LeftTheTryBlock, VerdictMatchesStatus,
         TerminalStatus, Body
<1> QED
  BY <1>1, EngineInvariant, PTL

\* There is no verdict without the result of an agent, and none after an error that
\* came before the verifier's answer.
THEOREM AgentBeforeVerdict == EngineSpec => []NoVerdictWithoutAgent
<1>1. EngineInv => NoVerdictWithoutAgent
  BY DEF EngineInv, EngineTypeOK, Progress, Outcome, LeftTheTryBlock, AgentIsDone,
         NoVerdictWithoutAgent, PC, Body
<1> QED
  BY <1>1, EngineInvariant, PTL

\* The status of a run only moves forward and its last value is final.
THEOREM StatusForward == EngineSpec => StatusMovesForward
<1> DEFINE Forward == status' # status => Rank(status) < Rank(status')
<1>1. ASSUME EngineInv, [EngineNext]_engineVars
      PROVE  [Forward]_engineVars
  <2>1. CASE SnapshotTaken
    BY <1>1, <2>1 DEF SnapshotTaken, EngineInv, Phase, Rank
  <2>2. CASE \E result \in AgentResults : AgentFinished(result)
    BY <1>1, <2>2 DEF AgentFinished, EngineInv, Phase, Rank
  <2>3. CASE ArtifactsCollected
    BY <1>1, <2>3 DEF ArtifactsCollected, EngineInv, Phase, Rank
  <2>4. ASSUME NEW kind \in ErrorKinds, Rejected(kind)
        PROVE  Forward
    <3>1. pc \in Body
      BY <1>1, <2>4, RejectsInBody DEF EngineInv, Rejected
    <3>2. status \in {"INITIALIZING", "RUNNING", "VERIFYING"}
      BY <1>1, <3>1 DEF EngineInv, Phase, Body
    <3>3. status' \in TerminalStatus
      BY <2>4, StatusOfKind DEF Rejected
    <3> QED
      BY <3>2, <3>3 DEF Rank, TerminalStatus
  <2>5. CASE UNCHANGED status
    BY <2>5
  <2> QED
    BY <1>1, <2>1, <2>2, <2>3, <2>4, <2>5
       DEF EngineNext, EnvironmentCreated, AgentInitialized, Verified, AgentShutDown,
           EnvironmentDestroyed
<1> QED
  BY <1>1, EngineInvariant, PTL DEF EngineSpec, StatusMovesForward

-------------------------------------------------------------------------------
(***************************************************************************)
(* LocalEnvironment                                                        *)
(***************************************************************************)
(***************************************************************************)
(* What is known of a command in each state of its promise.  A promise     *)
(* that is settled has no timer that could still fire, and its shell is    *)
(* over, so nothing the result was computed from can change any more.      *)
(***************************************************************************)
CommandInv(c) ==
  /\ promise[c] = "idle" => shell[c] = "none" /\ timer[c] = "off"
  /\ promise[c] = "running" => shell[c] # "none" /\ timer[c] # "off"
  /\ promise[c] = "settled" =>
       /\ shell[c] \in {"unborn"} \union ShellEnd
       /\ timer[c] \in {"off", "fired"}
       /\ exitCode[c] = "124" <=> (timer[c] = "fired" /\ shell[c] # "unborn")

\* The inductive invariant.
EnvInv == EnvTypeOK /\ \A c \in Commands : CommandInv(c)

\* The steps of the environment, one disjunct per action.
LEMMA EnvStepCases ==
  ASSUME EnvNext
  PROVE  \/ create \/ createThrows \/ destroy
         \/ \E c \in Commands :
              \/ execute(c) \/ onTimeout(c) \/ onError(c) \/ onClose(c)
              \/ \E kid \in Kids : Forks(c, kid) \/ KidEnds(c, kid)
              \/ \E how \in ShellEnd : ShellEnds(c, how)
BY DEF EnvNext, Callbacks, Processes

\* The code of a result is 124 exactly if the timer has fired.
LEMMA ExitCodeOfTimeout ==
  ASSUME NEW c
  PROVE  /\ ExitCode(c) \in {"0", "1", "124"}
         /\ ExitCode(c) = "124" <=> timer[c] = "fired"
BY DEF ExitCode, TimedOut

\* Settling a command whose shell is over, with a code that fits its timer.
LEMMA InvAfterResolve ==
  ASSUME EnvInv, NEW c \in Commands, NEW code \in {"0", "1", "124"}, Running(c),
         shell[c] \in {"unborn"} \union ShellEnd, Resolve(c, code),
         code = "124" <=> (timer[c] = "fired" /\ shell[c] # "unborn")
  PROVE  EnvInv'
<1> USE DEF EnvInv, EnvTypeOK, CommandInv, Resolve, Running, ShellEnd
<1>1. EnvTypeOK'
  OBVIOUS
<1>2. CommandInv(c)'
  OBVIOUS
<1>3. ASSUME NEW d \in Commands, d # c
      PROVE  CommandInv(d)'
  BY <1>3
<1> QED
  BY <1>1, <1>2, <1>3

\* Every step preserves the invariant.
LEMMA EnvInvPreserved ==
  ASSUME EnvInv, [EnvNext]_envVars
  PROVE  EnvInv'
<1> USE DEF EnvInv, EnvTypeOK, CommandInv, Running, ShellEnd
<1>1. CASE create \/ createThrows \/ destroy
  BY <1>1 DEF create, createThrows, destroy
<1>2. ASSUME NEW c \in Commands, execute(c)
      PROVE  EnvInv'
  <2>1. EnvTypeOK'
    BY <1>2 DEF execute
  <2>2. CommandInv(c)'
    BY <1>2 DEF execute
  <2>3. ASSUME NEW d \in Commands, d # c
        PROVE  CommandInv(d)'
    BY <1>2, <2>3 DEF execute
  <2> QED
    BY <2>1, <2>2, <2>3
<1>3. ASSUME NEW c \in Commands, onTimeout(c)
      PROVE  EnvInv'
  BY <1>3 DEF onTimeout
<1>4. ASSUME NEW c \in Commands, onError(c)
      PROVE  EnvInv'
  BY <1>4, InvAfterResolve DEF onError
<1>5. ASSUME NEW c \in Commands, onClose(c)
      PROVE  EnvInv'
  BY <1>5, InvAfterResolve, ExitCodeOfTimeout DEF onClose
<1>6. ASSUME NEW c \in Commands, NEW kid \in Kids, Forks(c, kid) \/ KidEnds(c, kid)
      PROVE  EnvInv'
  BY <1>6 DEF Forks, KidEnds
<1>7. ASSUME NEW c \in Commands, NEW how \in ShellEnd, ShellEnds(c, how)
      PROVE  EnvInv'
  BY <1>7 DEF ShellEnds
<1>8. CASE UNCHANGED envVars
  BY <1>8 DEF envVars
<1> QED
  BY <1>1, <1>2, <1>3, <1>4, <1>5, <1>6, <1>7, <1>8, EnvStepCases

\* The invariant holds of every environment.
THEOREM EnvInvariant == EnvSpec => []EnvInv
<1>1. EnvInit => EnvInv
  BY DEF EnvInit, EnvInv, EnvTypeOK, CommandInv, Running, ShellEnd
<1>2. EnvInv /\ [EnvNext]_envVars => EnvInv'
  BY EnvInvPreserved
<1> QED
  BY <1>1, <1>2, PTL DEF EnvSpec

\* The variables have their types, and a timer is armed only for a pending promise.
THEOREM EnvTypeCorrect == EnvSpec => []EnvTypeOK
BY EnvInvariant, PTL DEF EnvInv

\* A result is given only when the shell is gone, and exit code and timeout agree,
\* then and for ever after.
THEOREM ConclusiveResults == EnvSpec => []ResultsAreConclusive
<1>1. EnvInv => ResultsAreConclusive
  BY DEF EnvInv, CommandInv, ResultsAreConclusive, Settled, TimedOut, ShellEnd
<1> QED
  BY <1>1, EnvInvariant, PTL

\* A destroyed environment starts nothing.
THEOREM DestroyedIsQuiet == EnvSpec => NothingStartsAfterDestroy
<1> DEFINE Quiet == \A c \in Commands : destroyed /\ promise[c] = "idle" => promise'[c] = "idle"
<1>1. ASSUME EnvInv, EnvNext
      PROVE  Quiet
  <2> USE DEF EnvInv, EnvTypeOK, Running
  <2>1. CASE UNCHANGED promise
    BY <2>1
  <2>2. ASSUME NEW c \in Commands, execute(c)
        PROVE  Quiet
    BY <2>2 DEF execute
  <2>3. ASSUME NEW c \in Commands, onError(c) \/ onClose(c)
        PROVE  Quiet
    BY <1>1, <2>3 DEF onError, onClose, Resolve
  <2>4. (\A c \in Commands : ~execute(c) /\ ~onError(c) /\ ~onClose(c)) => UNCHANGED promise
    BY <1>1, EnvStepCases
       DEF create, createThrows, destroy, onTimeout, Forks, KidEnds, ShellEnds
  <2> QED
    BY <2>1, <2>2, <2>3, <2>4
<1>2. EnvInv /\ [EnvNext]_envVars => [Quiet]_envVars
  BY <1>1
<1> QED
  BY <1>2, EnvInvariant, PTL DEF EnvSpec, NothingStartsAfterDestroy

-------------------------------------------------------------------------------
(***************************************************************************)
(* BenchmarkRun                                                            *)
(***************************************************************************)
\* A step of the composition is a step of the engine, or leaves it alone.
LEMMA EngineStep ==
  ASSUME [Next]_vars
  PROVE  [EngineNext]_engineVars
<1>1. CASE Create \/ Snapshot \/ InitializeAgent \/ FinishAgent \/ CollectArtifacts \/ ShutDown \/ Destroy
  BY <1>1 DEF EngineNext, Create, Snapshot, InitializeAgent, FinishAgent, CollectArtifacts,
              ShutDown, Destroy
<1>2. CASE Verify
  BY <1>2 DEF EngineNext, Verify
<1>3. CASE CreateFails \/ Fail
  BY <1>3 DEF EngineNext, CreateFails, Fail, ErrorKinds
<1>4. ASSUME NEW c \in Commands, AgentExecutes(c) \/ VerifierExecutes(c) \/ Events(c) \/ Outside(c)
      PROVE  UNCHANGED engineVars
  BY <1>4 DEF AgentExecutes, VerifierExecutes, Events, Outside
<1>5. CASE UNCHANGED vars
  BY <1>5 DEF vars
<1> QED
  BY <1>1, <1>2, <1>3, <1>4, <1>5 DEF Next

\* A step of the composition is a step of the environment, or leaves it alone.
LEMMA EnvStep ==
  ASSUME [Next]_vars
  PROVE  [EnvNext]_envVars
<1>1. CASE Snapshot \/ InitializeAgent \/ FinishAgent \/ Verify \/ CollectArtifacts \/ Fail \/ ShutDown
  BY <1>1 DEF Snapshot, InitializeAgent, FinishAgent, Verify, CollectArtifacts, Fail, ShutDown
<1>2. CASE Create \/ CreateFails \/ Destroy
  BY <1>2 DEF EnvNext, Create, CreateFails, Destroy
<1>3. ASSUME NEW c \in Commands, AgentExecutes(c) \/ VerifierExecutes(c) \/ Events(c) \/ Outside(c)
      PROVE  EnvNext
  BY <1>3 DEF EnvNext, AgentExecutes, VerifierExecutes, Events, Outside
<1>4. CASE UNCHANGED vars
  BY <1>4 DEF vars
<1> QED
  BY <1>1, <1>2, <1>3, <1>4 DEF Next

\* The composition is a run of the engine and a life of the environment.
THEOREM Components == SafeSpec => EngineSpec /\ EnvSpec
<1>1. Init => EngineInit /\ EnvInit
  BY DEF Init
<1>2. [Next]_vars => [EngineNext]_engineVars /\ [EnvNext]_envVars
  BY EngineStep, EnvStep
<1> QED
  BY <1>1, <1>2, PTL DEF SafeSpec, EngineSpec, EnvSpec

\* The variables of both components have their types.
THEOREM RunTypeCorrect == SafeSpec => []TypeOK
<1>1. EngineTypeOK /\ EnvTypeOK => TypeOK
  BY DEF TypeOK
<1> QED
  BY <1>1, Components, EngineTypeCorrect, EnvTypeCorrect, PTL

\* The properties of the two components, of a run as a whole: its result agrees with
\* its verdict, there is no verdict without an agent, its status moves forward, results
\* of commands are conclusive, and nothing starts once the environment is destroyed.
THEOREM ComponentProperties ==
  SafeSpec =>
    /\ []VerdictMatchesStatus
    /\ []NoVerdictWithoutAgent
    /\ StatusMovesForward
    /\ []ResultsAreConclusive
    /\ NothingStartsAfterDestroy
BY Components, VerdictCorrect, AgentBeforeVerdict, StatusForward, ConclusiveResults,
   DestroyedIsQuiet, PTL

-------------------------------------------------------------------------------
\* What makes CleanedUp inductive: the adapter is terminated before the environment
\* is destroyed.
CleanUpInv ==
  /\ EngineTypeOK
  /\ CleanedUp
  /\ (pc = "destroy" /\ agentKind = "bundled") => agentState = "TERMINATED"

\* Every step preserves the invariant.
LEMMA CleanUpStep ==
  ASSUME CleanUpInv, EngineTypeOK', [Next]_vars
  PROVE  CleanUpInv'
<1> USE DEF CleanUpInv, CleanedUp
<1>1. CASE Destroy
  BY <1>1 DEF Destroy, EnvironmentDestroyed, destroy
<1>2. CASE ShutDown
  BY <1>2 DEF ShutDown, AgentShutDown, envVars
<1>3. CASE CreateFails \/ Fail
  <2>1. pc' = "shutdown" /\ pc \in Body
    BY <1>3, RejectsInBody DEF CreateFails, Fail, Rejected, ErrorKinds
  <2>2. destroyed' = destroyed
    BY <1>3 DEF CreateFails, Fail, createThrows, envVars
  <2> QED
    BY <2>1, <2>2 DEF Body
<1>4. CASE Create \/ Snapshot \/ InitializeAgent \/ FinishAgent \/ Verify \/ CollectArtifacts
  BY <1>4 DEF Create, Snapshot, InitializeAgent, FinishAgent, Verify, CollectArtifacts,
              EnvironmentCreated, SnapshotTaken, AgentInitialized, AgentFinished, Verified,
              ArtifactsCollected, create, envVars
<1>5. ASSUME NEW c \in Commands, AgentExecutes(c) \/ VerifierExecutes(c) \/ Events(c) \/ Outside(c)
      PROVE  UNCHANGED <<pc, agentKind, agentState, destroyed>>
  BY <1>5 DEF AgentExecutes, VerifierExecutes, Events, Outside, engineVars, execute, Callbacks,
              Processes, onTimeout, onError, onClose, Resolve, Forks, KidEnds, ShellEnds
<1>6. CASE UNCHANGED vars
  BY <1>6 DEF vars, engineVars, envVars
<1> QED
  BY <1>1, <1>2, <1>3, <1>4, <1>5, <1>6 DEF Next

\* However a run ends, the adapter was shut down and the environment destroyed.
THEOREM CleanUp == SafeSpec => []CleanedUp
<1>1. Init /\ EngineTypeOK => CleanUpInv
  BY DEF Init, EngineInit, EnvInit, CleanUpInv, CleanedUp
<1>2. CleanUpInv /\ EngineTypeOK' /\ [Next]_vars => CleanUpInv'
  BY CleanUpStep
<1>3. CleanUpInv => CleanedUp
  BY DEF CleanUpInv
<1> QED
  BY <1>1, <1>2, <1>3, Components, EngineTypeCorrect, PTL DEF SafeSpec

===============================================================================
