--------------------------- MODULE LocalEnvironment ---------------------------
(***************************************************************************)
(* The local environment (packages/environment-sdk/src/local-env.ts): one  *)
(* working directory, and the commands executed in it.                     *)
(*                                                                         *)
(* A command is a shell with whatever the shell starts.  The operating     *)
(* system's part is external to the program and modelled by what the code  *)
(* can observe of it: the shell exits or is killed, descendants of the     *)
(* shell may outlive it, and node reports `close' for a child once the     *)
(* child is gone and nobody holds the other end of its output pipes.       *)
(***************************************************************************)
EXTENDS Naturals

CONSTANT Commands   \* the commands that may be executed, each at most once

VARIABLES
  workdir,      \* whether the working directory exists
  destroyed,    \* the field destroyed
  promise,      \* of each command: idle before execute, then running or settled
  shell,        \* none, unborn (the spawn failed), alive, or how it ended
  kids,         \* its live descendants, by what they hold: see Kids
  timer,        \* off, armed, or fired: the flag timedOut
  exitCode      \* of the result: 0, 1 for any other code, 124, or pending

envVars == <<workdir, destroyed, promise, shell, kids, timer, exitCode>>

\* "piped" descendants hold the output pipes of the command, "detached" ones have
\* redirected their output.
Kids == {"piped", "detached"}

ShellEnd == {"zero", "nonzero", "signal"}

Running(c) == promise[c] = "running"

Settled(c) == promise[c] = "settled"

TimedOut(c) == timer[c] = "fired"

\* Some process of the command is alive.
Alive(c) == shell[c] = "alive" \/ kids[c] # {}

-------------------------------------------------------------------------------
EnvInit ==
  /\ workdir = FALSE
  /\ destroyed = FALSE
  /\ promise = [c \in Commands |-> "idle"]
  /\ shell = [c \in Commands |-> "none"]
  /\ kids = [c \in Commands |-> {}]
  /\ timer = [c \in Commands |-> "off"]
  /\ exitCode = [c \in Commands |-> "pending"]

create ==
  /\ workdir' = TRUE
  /\ UNCHANGED <<destroyed, promise, shell, kids, timer, exitCode>>

\* create throws, before the directory was made or while the fixture was copied.
createThrows ==
  /\ workdir' \in {workdir, TRUE}
  /\ UNCHANGED <<destroyed, promise, shell, kids, timer, exitCode>>

\* A destroyed environment executes nothing.  The shell cannot be spawned if its
\* working directory is gone, and may fail to be spawned anyway.
execute(c) ==
  /\ ~destroyed
  /\ promise[c] = "idle"
  /\ promise' = [promise EXCEPT ![c] = "running"]
  /\ timer' = [timer EXCEPT ![c] = "armed"]
  /\ \/ workdir /\ shell' = [shell EXCEPT ![c] = "alive"]
     \/ shell' = [shell EXCEPT ![c] = "unborn"]
  /\ UNCHANGED <<workdir, destroyed, kids, exitCode>>

\* Mutant of onTimeout: sets its flag and kills nothing.
onTimeout_FlagOnly(c) ==
  /\ timer[c] = "armed"
  /\ timer' = [timer EXCEPT ![c] = "fired"]
  /\ UNCHANGED <<workdir, destroyed, promise, shell, kids, exitCode>>

\* The timer fires: the shell, if it is still there, is killed, and only the shell.
onTimeout(c) ==
  /\ timer[c] = "armed"
  /\ timer' = [timer EXCEPT ![c] = "fired"]
  /\ shell' = [shell EXCEPT ![c] = IF @ = "alive" THEN "signal" ELSE @]
  /\ UNCHANGED <<workdir, destroyed, promise, kids, exitCode>>

\* The command settles with a result, and its timer is cleared.
Resolve(c, code) ==
  /\ promise' = [promise EXCEPT ![c] = "settled"]
  /\ exitCode' = [exitCode EXCEPT ![c] = code]
  /\ timer' = [timer EXCEPT ![c] = IF @ = "armed" THEN "off" ELSE @]
  /\ UNCHANGED <<workdir, destroyed, shell, kids>>

\* The error event of a shell that could not be spawned settles the promise.
onError(c) ==
  /\ Running(c)
  /\ shell[c] = "unborn"
  /\ Resolve(c, "1")

\* Mutant of ExitCode: a shell that ended by itself counts, however late it was.
ExitCode_Late(c) ==
  IF shell[c] = "zero" THEN "0" ELSE IF TimedOut(c) THEN "124" ELSE "1"

\* The exit code of the result.  A shell that was killed has no code, and no code
\* counts as 0 unless the timer fired.
ExitCode(c) ==
  IF TimedOut(c) THEN "124" ELSE IF shell[c] = "nonzero" THEN "1" ELSE "0"

\* The close event: the shell has ended and nobody holds its pipes.
onClose(c) ==
  /\ Running(c)
  /\ shell[c] \in ShellEnd
  /\ "piped" \notin kids[c]
  /\ Resolve(c, ExitCode(c))

\* destroy never throws: removing the directory is best effort.
destroy ==
  /\ destroyed' = TRUE
  /\ workdir' \in {FALSE, workdir}
  /\ UNCHANGED <<promise, shell, kids, timer, exitCode>>

-------------------------------------------------------------------------------
(***************************************************************************)
(* The processes.                                                          *)
(***************************************************************************)

\* A live shell, or a live descendant, starts a descendant.
Forks(c, kid) ==
  /\ Alive(c)
  /\ kid = "piped" => shell[c] = "alive" \/ "piped" \in kids[c]
  /\ kids' = [kids EXCEPT ![c] = @ \union {kid}]
  /\ UNCHANGED <<workdir, destroyed, promise, shell, timer, exitCode>>

ShellEnds(c, how) ==
  /\ shell[c] = "alive"
  /\ shell' = [shell EXCEPT ![c] = how]
  /\ UNCHANGED <<workdir, destroyed, promise, kids, timer, exitCode>>

KidEnds(c, kid) ==
  /\ kid \in kids[c]
  /\ kids' = [kids EXCEPT ![c] = @ \ {kid}]
  /\ UNCHANGED <<workdir, destroyed, promise, shell, timer, exitCode>>

Processes(c) ==
  \/ \E kid \in Kids : Forks(c, kid) \/ KidEnds(c, kid)
  \/ \E how \in ShellEnd : ShellEnds(c, how)

Callbacks(c) == onTimeout(c) \/ onError(c) \/ onClose(c)

EnvNext ==
  \/ create \/ createThrows \/ destroy
  \/ \E c \in Commands : execute(c) \/ Callbacks(c) \/ Processes(c)

EnvSpec == EnvInit /\ [][EnvNext]_envVars

-------------------------------------------------------------------------------
(***************************************************************************)
(* Properties.                                                             *)
(***************************************************************************)

\* The variables have their types, and a timer is armed exactly while a promise is
\* pending whose time is not up.
EnvTypeOK ==
  /\ workdir \in BOOLEAN
  /\ destroyed \in BOOLEAN
  /\ promise \in [Commands -> {"idle", "running", "settled"}]
  /\ shell \in [Commands -> {"none", "unborn", "alive"} \union ShellEnd]
  /\ kids \in [Commands -> SUBSET Kids]
  /\ timer \in [Commands -> {"off", "armed", "fired"}]
  /\ exitCode \in [Commands -> {"pending", "0", "1", "124"}]
  /\ \A c \in Commands :
       /\ timer[c] = "armed" => Running(c)
       /\ Running(c) => timer[c] # "off"

\* A result is given only when the shell is gone, and the timeout's exit code and
\* flag never disagree for a shell that was born (local-env.ts:127-161).
ResultsAreConclusive ==
  \A c \in Commands : Settled(c) =>
    /\ shell[c] # "alive"
    /\ exitCode[c] = "124" <=> (TimedOut(c) /\ shell[c] # "unborn")

\* Once destroy was called, no command is started any more, whoever still holds
\* the environment (local-env.ts:94-96).
NothingStartsAfterDestroy ==
  [][\A c \in Commands :
       destroyed /\ promise[c] = "idle" => promise'[c] = "idle"]_envVars

===============================================================================
