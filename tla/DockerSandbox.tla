----------------------------- MODULE DockerSandbox -----------------------------
(***************************************************************************)
(* The Docker sandbox (packages/sandbox/src/docker-sandbox.ts): a          *)
(* container that is driven through the docker command line, and a local   *)
(* environment to fall back to when docker cannot be used.                 *)
(*                                                                         *)
(* Its caller is the execution engine, which awaits create, then lets the  *)
(* agent and the verifier execute commands, and at the end awaits destroy; *)
(* reset is part of the interface and may come in between.  Commands may   *)
(* be executed at any time by an agent that does not await them.           *)
(*                                                                         *)
(* The docker daemon is external: a client that fails, or that is killed   *)
(* by its timer, says nothing of what the daemon did or will still do.     *)
(***************************************************************************)
EXTENDS Naturals

CONSTANTS
  Commands,    \* the commands that may be executed, each at most once
  MaxResets    \* bound of the model: how often reset is called

ASSUME MaxResetsAssumption == MaxResets \in Nat

VARIABLES
  call,        \* the await of create, reset or destroy that is in progress: see Call
  running,     \* the field running
  fallback,    \* the field localFallback: none, live, or destroyed
  resets,      \* how often reset was called
  container,   \* of the daemon, under the sandbox's name: none, created, or up
  late,        \* a docker run whose client gave up may still start the container
  removing,    \* a docker rm was issued and may still take effect
  unhealthy,   \* history: some docker command failed or timed out
  promise,     \* of each command: idle, running, killed (by its timer), or settled
  process      \* where a process of the command is alive: none, host, or container

sandboxVars == <<call, running, fallback, resets>>
dockerVars == <<container, late, removing, unhealthy>>
commandVars == <<promise, process>>
vars == <<sandboxVars, dockerVars, commandVars>>

\* new: before create; info, run: in create; ready: no call in progress; remove,
\* resetRemove: in destroy, called by the engine or by reset; over: destroyed.
Call == {"new", "info", "run", "ready", "remove", "resetRemove", "over"}

-------------------------------------------------------------------------------
Init ==
  /\ call = "new"
  /\ running = FALSE
  /\ fallback = "none"
  /\ resets = 0
  /\ container = "none"
  /\ late = FALSE
  /\ removing = FALSE
  /\ unhealthy = FALSE
  /\ promise = [c \in Commands |-> "idle"]
  /\ process = [c \in Commands |-> "none"]

(***************************************************************************)
(* create                                                                  *)
(***************************************************************************)

\* The phases a create may come to before it awaits: its working directory cannot be made
\* and it rejects, or docker info is asked.
Creating == {"ready", "info"}

create ==
  /\ call = "new"
  /\ call' \in Creating
  /\ UNCHANGED <<running, fallback, resets, dockerVars, commandVars>>

\* docker info succeeds, and docker run is started.
DockerAvailable ==
  /\ call = "info"
  /\ call' = "run"
  /\ UNCHANGED <<running, fallback, resets, dockerVars, commandVars>>

\* The fallback is set before its own create, which may reject this one.
FallBack ==
  /\ fallback' = "live"
  /\ call' = "ready"
  /\ unhealthy' = TRUE
  /\ UNCHANGED <<running, resets, commandVars>>

\* docker info fails, or is not answered in time.
DockerUnavailable ==
  /\ call = "info"
  /\ FallBack
  /\ UNCHANGED <<container, late, removing>>

\* docker run succeeds.  The name must be free.
RunSucceeds ==
  /\ call = "run"
  /\ container = "none"
  /\ container' = "up"
  /\ running' = TRUE
  /\ call' = "ready"
  /\ UNCHANGED <<fallback, resets, late, removing, unhealthy, commandVars>>

\* docker run fails: the name is taken, the container cannot be created, or it was
\* created and cannot be started.
RunFails ==
  /\ call = "run"
  /\ FallBack
  /\ container' \in IF container = "none" THEN {"none", "created"} ELSE {container}
  /\ UNCHANGED <<late, removing>>

\* docker run is not answered in time and its client is killed.
RunTimesOut ==
  /\ call = "run"
  /\ FallBack
  /\ late' = TRUE
  /\ UNCHANGED <<container, removing>>

(***************************************************************************)
(* destroy and reset                                                       *)
(***************************************************************************)

\* A sandbox that fell back destroys its local environment and nothing else.
DestroyLocal ==
  /\ fallback # "none"
  /\ fallback' = "destroyed"
  /\ call' = "over"
  /\ UNCHANGED removing

\* Mutant of DestroyContainer: a container with a pending command is not removed.
DestroyContainer_Busy ==
  LET idle == \A c \in Commands : promise[c] \in {"idle", "settled"} IN
  /\ fallback = "none"
  /\ call' = IF running /\ idle THEN "remove" ELSE "over"
  /\ removing' = (running /\ idle)
  /\ UNCHANGED fallback

DestroyContainer ==
  /\ fallback = "none"
  /\ call' = IF running THEN "remove" ELSE "over"
  /\ removing' = running
  /\ UNCHANGED fallback

destroy ==
  /\ call = "ready"
  /\ DestroyLocal \/ DestroyContainer
  /\ UNCHANGED <<running, resets, container, late, unhealthy, commandVars>>

\* Mutant of reset: a sandbox that fell back tries docker again.
reset_Retry ==
  /\ call = "ready"
  /\ resets < MaxResets
  /\ resets' = resets + 1
  /\ call' \in IF running THEN {"resetRemove"} ELSE Creating
  /\ removing' = running
  /\ fallback' = "none"
  /\ UNCHANGED <<running, container, late, unhealthy, commandVars>>

\* A sandbox that fell back resets its local environment; another one is destroyed
\* and created anew.
reset ==
  /\ call = "ready"
  /\ resets < MaxResets
  /\ resets' = resets + 1
  /\ call' \in IF fallback # "none" THEN {"ready"}
                ELSE IF running THEN {"resetRemove"} ELSE Creating
  /\ removing' = (fallback = "none" /\ running)
  /\ UNCHANGED <<running, fallback, container, late, unhealthy, commandVars>>

\* The docker rm client is gone.
Removed ==
  /\ call \in {"remove", "resetRemove"}
  /\ running' = FALSE
  /\ call' \in IF call = "remove" THEN {"over"} ELSE Creating
  /\ UNCHANGED <<fallback, resets, container, late, commandVars>>

RemoveSucceeds ==
  /\ ~removing
  /\ Removed
  /\ UNCHANGED <<removing, unhealthy>>

\* docker rm fails, or its client is killed by the timer: the error is ignored, and
\* the daemon may remove the container all the same.
RemoveFails ==
  /\ Removed
  /\ unhealthy' = TRUE
  /\ UNCHANGED removing

(***************************************************************************)
(* execute                                                                 *)
(***************************************************************************)

\* Mutant of Backend: prefers the container while there is one.
Backend_ContainerFirst ==
  IF container = "up" THEN "container" ELSE IF fallback = "live" THEN "host" ELSE "none"

\* Where a command is executed, or "none": it is refused.
Backend == IF fallback = "live" THEN "host" ELSE
           IF fallback = "none" /\ running THEN "container" ELSE "none"

\* A docker exec whose container is being removed may find it gone and start nothing.
execute(c) ==
  /\ promise[c] = "idle"
  /\ Backend # "none"
  /\ promise' = [promise EXCEPT ![c] = "running"]
  /\ process' = [process EXCEPT ![c] =
                   IF Backend = "container" /\ container # "up" THEN "none" ELSE Backend]
  /\ UNCHANGED <<sandboxVars, dockerVars>>

\* The command's process ends.
Ends(c) ==
  /\ process[c] # "none"
  /\ process' = [process EXCEPT ![c] = "none"]
  /\ UNCHANGED <<sandboxVars, dockerVars, promise>>

\* What was spawned has closed its pipes: the docker client is gone with the process, or
\* by itself once it was killed; the pipes of a shell are held by its descendants, too.
onClose(c) ==
  /\ \/ promise[c] \in {"running", "killed"} /\ process[c] = "none"
     \/ promise[c] = "killed" /\ process[c] = "container"
  /\ promise' = [promise EXCEPT ![c] = "settled"]
  /\ UNCHANGED <<sandboxVars, dockerVars, process>>

\* Mutant of onTimeout: has no timer for a command in the container.
onTimeout_Patient(c) ==
  /\ promise[c] = "running"
  /\ process[c] # "container"
  /\ promise' = [promise EXCEPT ![c] = "killed"]
  /\ process' \in {process, [process EXCEPT ![c] = "none"]}
  /\ UNCHANGED <<sandboxVars, dockerVars>>

\* The timer fires, and the promise waits for the close.  On the host the shell is killed,
\* which ends the command unless descendants of the shell go on; of a command in the
\* container the docker exec client is killed, and the process goes on.
onTimeout(c) ==
  /\ promise[c] = "running"
  /\ promise' = [promise EXCEPT ![c] = "killed"]
  /\ \/ UNCHANGED process
     \/ process[c] = "host" /\ process' = [process EXCEPT ![c] = "none"]
  /\ UNCHANGED <<sandboxVars, dockerVars>>

(***************************************************************************)
(* The daemon                                                              *)
(***************************************************************************)

\* docker rm takes effect; the processes in the container end with it.
Remove ==
  /\ removing
  /\ removing' = FALSE
  /\ container' = "none"
  /\ process' = [c \in Commands |-> IF process[c] = "container" THEN "none" ELSE process[c]]
  /\ UNCHANGED <<sandboxVars, late, unhealthy, promise>>

\* A docker run whose client was killed takes effect after all, or does not.
LateRun ==
  /\ late
  /\ late' = FALSE
  /\ container' \in IF container = "none" THEN {"none", "up"} ELSE {container}
  /\ UNCHANGED <<sandboxVars, removing, unhealthy, commandVars>>

Calls ==
  \/ DockerAvailable \/ DockerUnavailable \/ RunSucceeds \/ RunFails \/ RunTimesOut
  \/ RemoveSucceeds \/ RemoveFails

Next ==
  \/ create \/ reset \/ destroy
  \/ DockerAvailable \/ DockerUnavailable \/ RunSucceeds \/ RunFails \/ RunTimesOut
  \/ RemoveSucceeds \/ RemoveFails
  \/ \E c \in Commands : execute(c) \/ Ends(c) \/ onClose(c) \/ onTimeout(c)
  \/ Remove \/ LateRun

(***************************************************************************)
(* Every docker command has a timer, and so has every command executed;    *)
(* the engine destroys what it created.  Processes need not end.           *)
(***************************************************************************)
Fairness ==
  /\ WF_vars(Calls)
  /\ WF_vars(destroy)
  /\ \A c \in Commands : WF_vars(onClose(c)) /\ WF_vars(onTimeout(c))

SafeSpec == Init /\ [][Next]_vars

Spec == SafeSpec /\ Fairness

-------------------------------------------------------------------------------
\* The types of the variables; only a container that is up is ever removed, and only a
\* command that was executed has a process.
TypeOK ==
  /\ call \in Call
  /\ {running, late, removing, unhealthy} \subseteq BOOLEAN
  /\ fallback \in {"none", "live", "destroyed"}
  /\ resets \in 0..MaxResets
  /\ container \in {"none", "created", "up"}
  /\ promise \in [Commands -> {"idle", "running", "killed", "settled"}]
  /\ process \in [Commands -> {"none", "host", "container"}]
  /\ removing => container = "up"
  /\ \A c \in Commands : promise[c] = "idle" => process[c] = "none"

\* What the sandbox believes of the daemon is so: while its field running is set and it
\* is not removing the container, its container is up, no older docker run or docker rm
\* can still touch it, and there is no fallback.
RunningMeansUp ==
  running => /\ fallback = "none"
             /\ ~late
             /\ call = "ready" => container = "up" /\ ~removing

\* If no docker command ever failed, a destroyed sandbox leaves nothing behind: no
\* container, and no process in one, those of commands that timed out or were never
\* awaited included.  (docker-sandbox.ts:176-190)
HealthyCleanUp ==
  call = "over" /\ ~unhealthy =>
    /\ container = "none" /\ ~late
    /\ \A c \in Commands : process[c] = "none"

\* All commands since the last create share one file system: a sandbox that fell back
\* never again executes a command in a container, not even in one that a docker run
\* started late, and it does not leave the fallback.
FallbackIsForGood ==
  [][fallback # "none" =>
       /\ fallback' # "none"
       /\ \A c \in Commands : process'[c] = "container" => process[c] = "container"]_vars

\* Whatever docker does, the awaited calls return and the sandbox is destroyed in the
\* end.  A command is answered, though its process may go on in the container
\* (docker-sandbox.ts:150-153); only one that was handed to the fallback waits for whatever
\* it left running on the host (local-env.ts:127-161), and is answered if that ends.
CallsSettle ==
  /\ (call # "new") ~> (call = "over")
  /\ \A c \in Commands :
       <>[](process[c] # "host") => ((promise[c] = "running") ~> (promise[c] = "settled"))
===============================================================================
