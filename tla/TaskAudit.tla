------------------------------- MODULE TaskAudit -------------------------------
(***************************************************************************)
(* Those who ask for a verification: the execution engine, which gives a   *)
(* context without workspaceDir (core/src/engine.ts:132-136), the task     *)
(* validation with its no-op run (verifier/src/validation-pipeline.ts), and*)
(* the audit that tries known shortcuts against a task's checks            *)
(* (verifier/src/hacker-fixer.ts).                                         *)
(***************************************************************************)
EXTENDS VerifierDispatch, FiniteSetsExt

CONSTANTS
  Tasks,      \* the tasks that may be verified
  Features,   \* what a workspace may have
  Outside,    \* those of files outside of every workspace, which absolute paths name
  Effects,    \* of each vector, the features it adds and those it removes
  Failing     \* sets of static criteria that a task may fail to meet

\* A task has at least one check, each of a known kind and of a weight from 0 on
\* (task-schema/src/verification.ts).
ASSUME TasksAssumption ==
  \A t \in Tasks :
    /\ Len(t.checks) \in Nat \ {0}
    /\ DOMAIN t.checks = 1 .. Len(t.checks)
    /\ \A i \in DOMAIN t.checks : t.checks[i].kind \in CheckKinds /\ t.checks[i].weight \in Nat

ASSUME UpsetsAssumption == MaxUpsets \in Nat

\* The four shortcuts that an audit tries, in this order.
STANDARD_CHEAT_VECTORS ==
  <<"CHEAT-EXIT0", "CHEAT-TOUCH", "CHEAT-MOCK-TEST", "CHEAT-ENV-INJECT">>

ASSUME EffectsAssumption ==
  DOMAIN Effects = {STANDARD_CHEAT_VECTORS[i] : i \in DOMAIN STANDARD_CHEAT_VECTORS}

VARIABLES
  caller,     \* "engine", "validate" or "audit"
  at,         \* where the caller is
  fixture,    \* the features of the task's fixture
  outside,    \* the features outside of the workspace
  missing,    \* whether the fixture's directory is missing
  failing,    \* the static criteria that the task does not meet
  sandbox,    \* of the no-op run: "none", "there" or "removed"
  trials,     \* of each vector tried, whether it bypassed the checks
  report      \* what the caller concludes, once it is done

callerVars == <<caller, fixture, outside, missing, failing>>

vars == <<dispatchVars, callerVars, at, sandbox, trials, report>>

NoReport == [made |-> FALSE, accepted |-> FALSE, vulnerable |-> FALSE]

-------------------------------------------------------------------------------
(***************************************************************************)
(* The criteria of the validation and their weights.                       *)
(***************************************************************************)
Weight ==
  [c \in {"STAT-01", "STAT-02", "STAT-03", "STAT-04", "STAT-05", "CANARY-01",
          "RES-01", "RES-02", "RES-03", "NOOP-01", "VERIF-01", "VERIF-02"} |->
     CASE c = "NOOP-01" -> 5
       [] c = "CANARY-01" -> 4
       [] c \in {"STAT-04", "STAT-05", "RES-01", "VERIF-01"} -> 3
       [] OTHER -> 2]

Criteria == DOMAIN Weight

\* The criteria that are met.  A task has a check, and a weight of 0 counts as 1 here:
\* both criteria of the verification are always met.
Met(noOpFails) ==
  Criteria \ (failing \union (IF missing THEN {"STAT-05"} ELSE {})
                      \union (IF noOpFails THEN {} ELSE {"NOOP-01"}))

\* Math.round of the percentage.
overallScore(met) ==
  LET earned == MapThenSumSet(LAMBDA c : Weight[c], met)
      total  == MapThenSumSet(LAMBDA c : Weight[c], Criteria)
  IN (200 * earned + total) \div (2 * total)

\* Mutant of noOpFailed: only the verdict is looked at.
noOpFailed_Verdict == ~verdict.passed

\* The untouched workspace failed as it must; a score of 0.1 is still a failure.
noOpFailed == ~verdict.passed /\ ~Above(verdict.scored, verdict.weighed, 100)

-------------------------------------------------------------------------------
Init ==
  /\ caller \in {"engine", "validate", "audit"}
  /\ task \in Tasks
  /\ fixture \in SUBSET (Features \ Outside)
  /\ outside \in SUBSET Outside
  /\ missing \in BOOLEAN
  /\ failing \in Failing
  /\ caller # "validate" => ~missing /\ failing = {}
  /\ context \in [workspaceDir : {caller # "engine"}, response : BOOLEAN]
  /\ caller # "engine" => context.response    \* without a response there is a default text
  /\ workspace = IF caller = "validate" THEN {} ELSE fixture \union outside
  /\ next = 0
  /\ began = workspace
  /\ ran = <<>>
  /\ upset = 0
  /\ scored = 0
  /\ weighed = 0
  /\ allPassed = TRUE
  /\ verdict = NoVerdict
  /\ at = "start"
  /\ sandbox = "none"
  /\ trials = <<>>
  /\ report = NoReport

Dispatch ==
  /\ at = "verify"
  /\ dispatchCheck
  /\ UNCHANGED <<callerVars, at, sandbox, trials, report>>

\* A process that the agent, a check or a vector has left behind changes the workspace.
Interferes ==
  /\ at = "verify" \/ (caller = "audit" /\ at = "start")
  /\ \E f \in Features : workspace' \in {workspace \union {f}, workspace \ {f}}
  /\ Upsets
  /\ UNCHANGED <<task, context, next, began, ran, scored, weighed, allPassed, verdict>>
  /\ UNCHANGED <<callerVars, at, sandbox, trials, report>>

(***************************************************************************)
(* The engine: a verification in whatever state the agent has left the     *)
(* workspace.  A rejection is caught by the engine, and the run has failed.*)
(***************************************************************************)
EngineVerifies ==
  /\ caller = "engine" /\ at = "start"
  /\ at' = "verify"
  /\ UNCHANGED <<task, context, workspace, upset, callerVars, sandbox, trials, report>>
  /\ verify

EngineEnds ==
  /\ caller = "engine" /\ at = "verify" /\ verdict # NoVerdict
  /\ at' = "done"
  /\ UNCHANGED <<dispatchVars, callerVars, sandbox, trials, report>>

(***************************************************************************)
(* validateTask.                                                           *)
(***************************************************************************)
Concludes(noOpFails) ==
  report' = [made |-> TRUE, accepted |-> overallScore(Met(noOpFails)) >= 80 /\ noOpFails, vulnerable |-> FALSE]

\* The no-op run's sandbox.  A fixture that is missing is not copied.
NoOpCreates ==
  /\ caller = "validate" /\ at = "start"
  /\ sandbox' = "there"
  /\ workspace' = outside \union (IF missing THEN {} ELSE fixture)
  /\ at' = "verify"
  /\ verify
  /\ UNCHANGED <<task, context, upset, callerVars, trials, report>>

\* The sandbox cannot be created: an error, which counts as the expected failure.
NoOpCreateThrows ==
  /\ caller = "validate" /\ at = "start"
  /\ at' = "done"
  /\ Concludes(TRUE)
  /\ UNCHANGED <<dispatchVars, callerVars, sandbox, trials>>

NoOpEnds ==
  /\ caller = "validate" /\ at = "verify" /\ verdict.state = "returned"
  /\ sandbox' = "removed"
  /\ Concludes(noOpFailed)
  /\ at' = "done"
  /\ UNCHANGED <<dispatchVars, callerVars, trials>>

\* The verification threw: destroy is passed over.
NoOpThrows ==
  /\ caller = "validate" /\ at = "verify" /\ verdict.state = "rejected"
  /\ Concludes(TRUE)
  /\ at' = "done"
  /\ UNCHANGED <<dispatchVars, callerVars, sandbox, trials>>

(***************************************************************************)
(* auditTask: one environment for all vectors, which the caller gave.      *)
(***************************************************************************)
\* Mutant of bypassed: a partial score is not looked at.
bypassed_Passed == verdict.passed

bypassed == verdict.passed \/ Above(verdict.scored, verdict.weighed, 500)

\* What the i-th vector makes of a workspace.
Cheats(i, features) ==
  LET effect == Effects[STANDARD_CHEAT_VECTORS[i]] IN (features \ effect.removes) \union effect.adds

\* The vector's command is run to its end, or cut short, which nothing looks at.
VectorRuns ==
  /\ caller = "audit" /\ at = "start"
  /\ \/ workspace' = Cheats(Len(trials) + 1, workspace) /\ UNCHANGED upset
     \/ workspace' = workspace /\ Upsets
  /\ at' = "verify"
  /\ verify
  /\ UNCHANGED <<task, context, callerVars, sandbox, trials, report>>

\* After the last vector the report is made: vulnerable if any of them bypassed.
TrialEnds ==
  /\ caller = "audit" /\ at = "verify" /\ verdict.state = "returned"
  /\ trials' = Append(trials, bypassed)
  /\ IF Len(trials') = Len(STANDARD_CHEAT_VECTORS)
       THEN /\ at' = "done"
            /\ report' = [made |-> TRUE, accepted |-> FALSE,
                          vulnerable |-> \E i \in DOMAIN trials' : trials'[i]]
       ELSE /\ at' = "start"
            /\ UNCHANGED report
  /\ UNCHANGED <<dispatchVars, callerVars, sandbox>>

\* A vector's command or a verification that throws rejects the whole audit.
AuditRejects ==
  /\ caller = "audit"
  /\ at = "start" \/ (at = "verify" /\ verdict.state = "rejected")
  /\ at' = "done"
  /\ UNCHANGED <<dispatchVars, callerVars, sandbox, trials, report>>

Next ==
  \/ Dispatch \/ Interferes \/ EngineVerifies \/ EngineEnds
  \/ NoOpCreates \/ NoOpCreateThrows \/ NoOpEnds \/ NoOpThrows
  \/ VectorRuns \/ TrialEnds \/ AuditRejects

Spec == Init /\ [][Next]_vars

-------------------------------------------------------------------------------
(***************************************************************************)
(* Properties.                                                             *)
(***************************************************************************)
Untouched == outside \union (IF missing THEN {} ELSE fixture)

\* A task that passes on its untouched fixture, or scores more than a tenth there, is
\* not accepted, although an error counts as the failure that was expected: unless the
\* no-op run threw (and then destroy is passed over), or one of its commands was cut
\* short or disturbed (validation-pipeline.ts:157-185, 233).  The comments ask for less
\* than a tenth (:42, :158); the code accepts a tenth, and what is rounded to it (:179).
NoOpRunDecides ==
  (report.made /\ caller = "validate") =>
    \/ verdict.state # "returned"
    \/ /\ sandbox = "removed"
       /\ report.accepted =>
            \/ upset > 0
            \/ ~RefPassed(Untouched) /\ ~Above(RefScored(Untouched), RefWeighed(Untouched), 100)

\* No run of the engine passes a task that has a check of a file, or of a database at a
\* path, unless the path is absolute: the engine's context has no workspaceDir
\* (engine.ts:132-136, fs-verifier.ts:13, db-verifier.ts:12), although the guide shows
\* such checks with paths of the workspace (docs/task-authoring.md:69-73).
FileChecksNeverPassRuns ==
  (caller = "engine" /\ verdict.state = "returned" /\ verdict.passed) =>
    \A i \in DOMAIN task.checks :
      LET check == task.checks[i] IN
      /\ check.kind \in FileKinds => check.path = "absolute"
      /\ check.kind = "database" => check.path # "relative"

\* More features never make the check fail, and it takes none of the fixture away.
Growing(check) ==
  /\ check.leaks = {}
  /\ check.kind \in FileKinds => check.exists = "yes"
  /\ check.removes \intersect Untouched = {}

\* None of the first so many vectors takes anything of the fixture away.
Harmless(count) ==
  \A i \in 1 .. count : Effects[STANDARD_CHEAT_VECTORS[i]].removes \intersect Untouched = {}

\* An audit that finds nothing means that no vector would bypass the checks alone, in a
\* fresh workspace, although the vectors are tried on top of each other and of what the
\* checks have left (hacker-fixer.ts:69-100).  This takes a task that runs all its
\* checks, none of which can be passed by what is not there, commands that nobody cuts
\* short or disturbs, and a fixture of which neither the checks nor the vectors before
\* take anything away: a vector that overwrites the fixture's test hides what the
\* vectors after it could do.
AuditIsSound ==
  (report.made /\ caller = "audit" /\ ~report.vulnerable /\ upset = 0
    /\ ~task.stop /\ \A i \in DOMAIN task.checks : Growing(task.checks[i])) =>
    \A i \in DOMAIN STANDARD_CHEAT_VECTORS :
      LET alone == Cheats(i, Untouched) IN
      Harmless(i - 1) => ~RefPassed(alone) /\ ~Above(RefScored(alone), RefWeighed(alone), 500)

===============================================================================
