-------------------------- MODULE DockerSandboxProofs --------------------------
(***************************************************************************)
(* Proofs about the Docker sandbox, for any number of commands and resets. *)
(*                                                                         *)
(* A container and the field running are set and cleared by different      *)
(* parties, so what relates them depends on where the sandbox is: Believed *)
(* says it for each call in progress.                                      *)
(***************************************************************************)
EXTENDS DockerSandbox, TLAPS

\* How the sandbox's fields and the daemon agree, call by call.
Believed ==
  /\ call \in {"new", "info", "run"} => ~running /\ fallback = "none"
  /\ call \in {"remove", "resetRemove"} => running
  /\ call = "over" => ~running
  /\ fallback = "none" => ~late

\* What is known while no docker command has failed.
Healthy ==
  ~unhealthy => /\ fallback = "none"
                /\ call \in {"new", "info", "run", "over"} => container = "none"
                /\ call = "ready" /\ ~running => container = "none"
                /\ call \in {"remove", "resetRemove"} /\ ~removing => container = "none"

\* Processes live where there is something to run them.
ProcessesHaveAHome ==
  \A c \in Commands : /\ process[c] = "container" => container = "up"
                      /\ process[c] = "host" => fallback # "none"

SandboxInv == TypeOK /\ RunningMeansUp /\ Believed /\ Healthy /\ ProcessesHaveAHome

\* A destroyed, healthy sandbox left nothing behind, since processes have a home.
LEMMA InvImpliesCleanUp == SandboxInv => HealthyCleanUp
  BY DEF SandboxInv, HealthyCleanUp, TypeOK, Believed, Healthy, ProcessesHaveAHome, RunningMeansUp

LEMMA InvInit == Init => SandboxInv
<1> SUFFICES ASSUME Init PROVE SandboxInv
  OBVIOUS
<1> USE DEF Init
<1>1. TypeOK
  <2>1. {running, late, removing, unhealthy} \subseteq BOOLEAN
    OBVIOUS
  <2>2. resets \in 0..MaxResets
    BY MaxResetsAssumption
  <2> QED
    BY <2>1, <2>2 DEF TypeOK, Call
<1>2. RunningMeansUp /\ Believed /\ Healthy /\ ProcessesHaveAHome
  BY DEF RunningMeansUp, Believed, Healthy, ProcessesHaveAHome
<1> QED
  BY <1>1, <1>2 DEF SandboxInv

LEMMA CreateStep ==
  ASSUME SandboxInv,
         \/ create \/ DockerAvailable \/ DockerUnavailable
         \/ RunSucceeds \/ RunFails \/ RunTimesOut
  PROVE  SandboxInv'
<1> USE DEF SandboxInv, TypeOK, Call, Creating, RunningMeansUp, Believed, Healthy, ProcessesHaveAHome,
            dockerVars, commandVars
<1>1. CASE create
  BY <1>1 DEF create
<1>2. CASE DockerAvailable
  BY <1>2 DEF DockerAvailable
<1>3. CASE DockerUnavailable
  BY <1>3 DEF DockerUnavailable, FallBack
<1>4. CASE RunSucceeds
  BY <1>4 DEF RunSucceeds
<1>5. CASE RunFails
  BY <1>5 DEF RunFails, FallBack
<1>6. CASE RunTimesOut
  BY <1>6 DEF RunTimesOut, FallBack
<1> QED
  BY <1>1, <1>2, <1>3, <1>4, <1>5, <1>6

LEMMA RemoveStep ==
  ASSUME SandboxInv,
         destroy \/ reset \/ RemoveSucceeds \/ RemoveFails \/ Remove \/ LateRun
  PROVE  SandboxInv'
<1> USE DEF SandboxInv, TypeOK, Call, Creating, RunningMeansUp, Believed, Healthy, ProcessesHaveAHome,
            sandboxVars, commandVars
<1>1. CASE destroy
  BY <1>1 DEF destroy, DestroyLocal, DestroyContainer
<1>2. CASE reset
  BY <1>2, MaxResetsAssumption DEF reset
<1>3. CASE RemoveSucceeds
  BY <1>3 DEF RemoveSucceeds, Removed
<1>4. CASE RemoveFails
  BY <1>4 DEF RemoveFails, Removed
<1>5. CASE Remove
  BY <1>5 DEF Remove
<1>6. CASE LateRun
  BY <1>6 DEF LateRun
<1> QED
  BY <1>1, <1>2, <1>3, <1>4, <1>5, <1>6

LEMMA CommandStep ==
  ASSUME SandboxInv, NEW c \in Commands,
         execute(c) \/ Ends(c) \/ onClose(c) \/ onTimeout(c)
  PROVE  SandboxInv'
<1> USE DEF SandboxInv, TypeOK, RunningMeansUp, Believed, Healthy, ProcessesHaveAHome,
            sandboxVars, dockerVars
<1>1. CASE execute(c)
  BY <1>1 DEF execute, Backend
<1>2. CASE Ends(c)
  BY <1>2 DEF Ends
<1>3. CASE onClose(c)
  BY <1>3 DEF onClose
<1>4. CASE onTimeout(c)
  BY <1>4 DEF onTimeout
<1> QED
  BY <1>1, <1>2, <1>3, <1>4

LEMMA InvNext == SandboxInv /\ [Next]_vars => SandboxInv'
<1> SUFFICES ASSUME SandboxInv, [Next]_vars PROVE SandboxInv'
  OBVIOUS
<1>1. CASE UNCHANGED vars
  BY <1>1 DEF vars, sandboxVars, dockerVars, commandVars, SandboxInv, TypeOK, RunningMeansUp,
              Believed, Healthy, ProcessesHaveAHome
<1>2. CASE Next
  BY <1>2, CreateStep, RemoveStep, CommandStep DEF Next
<1> QED
  BY <1>1, <1>2

\* The inductive invariant holds of every reachable state.
THEOREM SandboxInvariant == Spec => []SandboxInv
<1>1. SafeSpec => []SandboxInv
  BY InvInit, InvNext, PTL DEF SafeSpec
<1> QED
  BY <1>1, PTL DEF Spec

\* Types; only a container that is up is removed (docker-sandbox.ts:176-190).
THEOREM SandboxTypeCorrect == Spec => []TypeOK
<1>1. SandboxInv => TypeOK
  BY DEF SandboxInv
<1> QED
  BY <1>1, SandboxInvariant, PTL

\* The field running never claims a container that is not there
\* (docker-sandbox.ts:84-85,188).
THEOREM RunningIsTrue == Spec => []RunningMeansUp
<1>1. SandboxInv => RunningMeansUp
  BY DEF SandboxInv
<1> QED
  BY <1>1, SandboxInvariant, PTL

\* Without a failure of docker, nothing survives destroy: no container, and none of the
\* processes of commands that timed out or were not awaited.
THEOREM CleanUpWhenHealthy == Spec => []HealthyCleanUp
  BY InvImpliesCleanUp, SandboxInvariant, PTL

\* A sandbox that fell back to the host stays there (docker-sandbox.ts:52-60,96-103).
THEOREM FallbackSticks == Spec => FallbackIsForGood
<1> DEFINE Stays == fallback # "none" =>
             /\ fallback' # "none"
             /\ \A c \in Commands : process'[c] = "container" => process[c] = "container"
<1>1. ASSUME SandboxInv, [Next]_vars PROVE Stays
  <2> SUFFICES ASSUME fallback # "none" PROVE Stays
    OBVIOUS
  <2> USE DEF SandboxInv, TypeOK, Believed, sandboxVars, dockerVars, commandVars
  <2>1. CASE UNCHANGED vars
    BY <1>1, <2>1 DEF vars
  <2>2. CASE create \/ DockerAvailable \/ DockerUnavailable \/ RunSucceeds \/ RunFails \/ RunTimesOut
    BY <1>1, <2>2
    DEF create, DockerAvailable, DockerUnavailable, RunSucceeds, RunFails, RunTimesOut
  <2>3. CASE destroy \/ reset \/ RemoveSucceeds \/ RemoveFails \/ LateRun
    BY <1>1, <2>3
    DEF destroy, DestroyLocal, DestroyContainer, reset, RemoveSucceeds, RemoveFails, Removed, LateRun
  <2>4. CASE Remove
    BY <1>1, <2>4 DEF Remove
  <2>5. ASSUME NEW c \in Commands, execute(c) \/ Ends(c) \/ onClose(c) \/ onTimeout(c)
        PROVE  Stays
    BY <1>1, <2>5 DEF execute, Backend, Ends, onClose, onTimeout
  <2> QED
    BY <1>1, <2>1, <2>2, <2>3, <2>4, <2>5 DEF Next
<1>2. Spec => [][Next]_vars
  BY PTL DEF Spec, SafeSpec
<1> QED
  BY <1>1, <1>2, SandboxInvariant, PTL DEF FallbackIsForGood
===============================================================================
