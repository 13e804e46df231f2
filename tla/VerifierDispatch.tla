---------------------------- MODULE VerifierDispatch ----------------------------
(***************************************************************************)
(* VerifierDispatcher.verify and the checks it dispatches to               *)
(* (packages/verifier): the loop over a task's checks, each of which       *)
(* passes, fails or throws, the weighted score, and the verdict.           *)
(*                                                                         *)
(* What an agent, a fixture or anybody else did in a workspace is the set  *)
(* of features it has; a check looks for features, or for their absence,   *)
(* and the command that it runs may change them.  Scores and weights are   *)
(* in thousandths.  A score is kept as the fraction of two sums, and is    *)
(* compared as if rounded half up to four digits.                          *)
(***************************************************************************)
EXTENDS Integers, Sequences

\* The kinds of checks, by the verifier that the dispatcher gives them to.
CommandKinds == {"command", "test", "regex", "custom"}
FileKinds    == {"filesystem", "git"}
ShellKinds   == CommandKinds \union {"database", "security"}
CheckKinds   == ShellKinds \union FileKinds \union {"http", "llm_judge"}

(***************************************************************************)
(* A check has a kind, a weight, and                                       *)
(*   needs      the features with which its command, query or request      *)
(*              answers as expected                                        *)
(*   leaks      of a security check: the features with which its output    *)
(*              has a signature of an exploit                              *)
(*   file       of a file check: the feature that its file exists, and     *)
(*   exists     whether it expects that: "yes", "no" or "any"              *)
(*   content    the features that make the file match its pattern          *)
(*   path       of a file or database check: "relative", "absolute" or     *)
(*              "none"                                                     *)
(*   throws     its pattern is no regular expression, or its file can      *)
(*              exist and not be read                                      *)
(*   expects    the exit code expected of its command                      *)
(*   adds,      the features that its command, query or request leaves and *)
(*   removes    takes away: none, if it only looks                         *)
(***************************************************************************)
\* A task: its sequence of checks, stop_on_first_failure, minimum_score.
Task(checks, stop, minimum) == [checks |-> checks, stop |-> stop, minimum |-> minimum]

CONSTANT
  MaxUpsets    \* a bound: how often a command is cut short or the workspace disturbed

VARIABLES
  task,        \* the task that is verified
  context,     \* of the verification: workspaceDir given or not, and the judge's view of
               \* the agent's response
  workspace,   \* the features of the workspace
  next,        \* the check whose turn it is, 0 if none is going on
  began,       \* history: the workspace as this verification found it
  ran,         \* history: of each check that was weighed in, if its condition held and
               \* how it ended
  upset,       \* history: how often a command was cut short, or a process left over by
               \* one changed the workspace
  scored,      \* the sum of the weighted scores
  weighed,     \* the sum of the weights
  allPassed,   \* whether no check has failed
  verdict      \* what verify returned, or rejected

dispatchVars == <<task, context, workspace, next, began, ran, upset, scored, weighed, allPassed, verdict>>

NoVerdict == [state |-> "none", passed |-> FALSE, scored |-> 0, weighed |-> 0]
Rejection == [NoVerdict EXCEPT !.state = "rejected"]

\* score > limit, and score >= limit, of the score rounded to tenths of a thousandth:
\* half a tenth more or less decides.  Without any weight the score is 0.
Above(sum, weights, limit)   == weights > 0 /\ 20 * sum >= (20 * limit + 1) * weights
AtLeast(sum, weights, limit) == IF weights > 0 THEN 20 * sum + weights >= 20 * limit * weights ELSE limit = 0

-------------------------------------------------------------------------------
(***************************************************************************)
(* The checks.                                                             *)
(***************************************************************************)
\* Exit code, output and pattern are as expected.
CommandPasses(check, features) == check.needs \subseteq features

\* The file exists or not, as expected; a file that does not exist matches any pattern.
FileAsExpected(check, features) ==
  \/ check.exists = "any"
  \/ (check.exists = "yes") = (check.file \in features)

FilePasses(check, features) ==
  /\ FileAsExpected(check, features)
  /\ check.file \in features => check.content \subseteq features

\* The status is as expected, and so is the body.
HttpPasses(check, features) == check.needs \subseteq features

\* The query succeeds, with the output and the number of rows expected.
DatabasePasses(check, features) == check.needs \subseteq features

\* The command exits as expected, and its output shows no signature of an exploit.
SecurityPasses(check, features) ==
  check.needs \subseteq features /\ check.leaks \intersect features = {}

\* The judge looks at the agent's response alone.
JudgePasses == context.response

Holds(check, features) ==
  CASE check.kind \in CommandKinds -> CommandPasses(check, features)
    [] check.kind \in FileKinds    -> FilePasses(check, features)
    [] check.kind = "http"         -> HttpPasses(check, features)
    [] check.kind = "database"     -> DatabasePasses(check, features)
    [] check.kind = "security"     -> SecurityPasses(check, features)
    [] check.kind = "llm_judge"    -> JudgePasses

\* A failed check scores nothing, except before the judge.
ScoreOf(check, holds) ==
  IF check.kind = "llm_judge"
    THEN IF holds THEN 950 ELSE 400
    ELSE IF holds THEN 1000 ELSE 0

\* Mutant of Unresolvable: a path is resolved against the current directory instead.
Unresolvable_Fallback(check) == FALSE

\* Without workspaceDir a path that is not absolute cannot be resolved, and the check
\* throws; no path at all is the empty one for a file check.
Unresolvable(check) ==
  /\ ~context.workspaceDir
  /\ \/ check.kind \in FileKinds /\ check.path # "absolute"
     \/ check.kind = "database" /\ check.path = "relative"

\* A pattern of a command is always tried, that of a file only if all is well so far.
Throws(check, features) ==
  \/ Unresolvable(check)
  \/ check.throws /\ check.kind \in CommandKinds
  \/ check.throws /\ check.kind \in FileKinds
       /\ FileAsExpected(check, features) /\ check.file \in features

\* The workspace that a check leaves.
After(check, features) == (features \ check.removes) \union check.adds

\* What is reported of a shell that did not come to its end: it was killed, could not be
\* started, or ran out of time.
ExitCode == [killed |-> 0, unstarted |-> 1, late |-> 124]

\* A check cut short passes if that code was expected, and the output so far is as
\* expected, too; only the commands' verifier looks at timedOut.
MayPassCutShort(check, how) ==
  /\ check.kind \in ShellKinds
  /\ check.kind \in CommandKinds => how # "late"
  /\ ExitCode[how] = IF check.kind = "database" THEN 0 ELSE check.expects

-------------------------------------------------------------------------------
(***************************************************************************)
(* The loop.                                                               *)
(***************************************************************************)
verify ==
  /\ next' = 1
  /\ began' = workspace'
  /\ ran' = <<>>
  /\ scored' = 0
  /\ weighed' = 0
  /\ allPassed' = TRUE
  /\ verdict' = NoVerdict

\* The verdict on the sums s and w, at the end of the loop.
Returns(passed, s, w) ==
  verdict' = [state |-> "returned", passed |-> passed /\ AtLeast(s, w, task.minimum),
              scored |-> s, weighed |-> w]

\* Mutant of Counts: the loop ends before the failed check is taken into account.
Counts_Break(check, holds) ==
  LET stops == ~holds /\ task.stop
      s == scored + (IF stops THEN 0 ELSE ScoreOf(check, holds) * check.weight)
      w == weighed + (IF stops THEN 0 ELSE check.weight)
      p == allPassed /\ (holds \/ stops)
  IN /\ scored' = s
     /\ weighed' = w
     /\ allPassed' = p
     /\ IF stops \/ next = Len(task.checks)
          THEN next' = 0 /\ Returns(p, s, w)
          ELSE next' = next + 1 /\ UNCHANGED verdict

\* The result of the check is weighed in; the loop goes on, ends, or is left.
Counts(check, holds) ==
  LET s == scored + ScoreOf(check, holds) * check.weight
      w == weighed + check.weight
      p == allPassed /\ holds
  IN /\ scored' = s
     /\ weighed' = w
     /\ allPassed' = p
     /\ IF (~holds /\ task.stop) \/ next = Len(task.checks)
          THEN next' = 0 /\ Returns(p, s, w)
          ELSE next' = next + 1 /\ UNCHANGED verdict

Check == task.checks[next]

\* What happened to the check is recorded.
Records(how) == ran' = Append(ran, [held |-> Holds(Check, workspace), how |-> how])

CheckAnswers ==
  /\ next > 0 /\ ~Throws(Check, workspace)
  /\ Counts(Check, Holds(Check, workspace))
  /\ Records("answered")
  /\ workspace' = After(Check, workspace)
  /\ UNCHANGED upset

Upsets == upset < MaxUpsets /\ upset' = upset + 1

\* A shell is killed or not started, or the time of a command or a request runs out.
CheckCutShort ==
  /\ next > 0 /\ ~Throws(Check, workspace)
  /\ Upsets
  /\ \E how \in DOMAIN ExitCode, passes \in BOOLEAN :
       /\ Check.kind \in ShellKinds \/ (Check.kind = "http" /\ how = "late")
       /\ passes => MayPassCutShort(Check, how)
       /\ Counts(Check, passes)
       /\ Records(how)
  /\ workspace' \in {workspace, After(Check, workspace)}

\* A check that throws rejects the verification; requests and the judge catch.  Its
\* command has run before its pattern is found to be none.
CheckThrows ==
  /\ next > 0
  /\ Throws(Check, workspace)
  /\ next' = 0
  /\ verdict' = Rejection
  /\ workspace' = IF Check.kind \in CommandKinds THEN After(Check, workspace) ELSE workspace
  /\ UNCHANGED <<ran, upset, scored, weighed, allPassed>>

dispatchCheck == (CheckAnswers \/ CheckCutShort \/ CheckThrows) /\ UNCHANGED <<task, context, began>>

-------------------------------------------------------------------------------
(***************************************************************************)
(* The reference: verdict and score of a task on a set of features, if     *)
(* nothing is thrown and no command is cut short.                          *)
(***************************************************************************)
\* The sums of the first so many values.
Sums(value) == LET sum[n \in Nat] == IF n = 0 THEN 0 ELSE sum[n - 1] + value[n] IN sum

\* The workspace after so many checks.
Left(features) ==
  LET left[n \in Nat] == IF n = 0 THEN features ELSE After(task.checks[n], left[n - 1]) IN left

\* Whether the i-th check holds in what those before it have left.
HoldsIn(i, features) == Holds(task.checks[i], Left(features)[i - 1])

Weights == [i \in DOMAIN task.checks |-> task.checks[i].weight]

\* What the checks score with their weights on a set of features, and if all hold.
Points(features) ==
  [i \in DOMAIN task.checks |-> ScoreOf(task.checks[i], HoldsIn(i, features)) * task.checks[i].weight]

FullPoints == [i \in DOMAIN task.checks |-> ScoreOf(task.checks[i], TRUE) * task.checks[i].weight]

\* The last check that is run: the first to fail, if the task says so, or the last.
LastRun(features) ==
  CHOOSE n \in DOMAIN task.checks :
    /\ task.stop => \A i \in 1 .. (n - 1) : HoldsIn(i, features)
    /\ n = Len(task.checks) \/ (task.stop /\ ~HoldsIn(n, features))

RefScored(features)  == Sums(Points(features))[LastRun(features)]
RefWeighed(features) == Sums(Weights)[LastRun(features)]

\* Passed on the merits of all checks, whether or not the task stops at a failure.
RefPassed(features) ==
  /\ \A i \in DOMAIN task.checks : HoldsIn(i, features)
  /\ AtLeast(Sums(FullPoints)[Len(task.checks)], Sums(Weights)[Len(task.checks)], task.minimum)

-------------------------------------------------------------------------------
(***************************************************************************)
(* Properties.                                                             *)
(***************************************************************************)
\* A check that passed held in the workspace as it found it, or was cut short with just
\* the exit code that it expects.
Earned(i) ==
  IF ran[i].how = "answered" THEN ran[i].held ELSE MayPassCutShort(task.checks[i], ran[i].how)

\* A verification that passes has run every check, and each has held in what it found,
\* but for one whose shell was killed and which expects 0, was not started and expects
\* 1, or ran out of time and, a security check, expects 124 (local-env.ts:143,155,
\* security-verifier.ts:20-21).  As long as no command was cut short and no left-over
\* process changed the workspace, verdict and score are the reference's, although the
\* checks change what the next ones find and the loop may have stopped at the first
\* failure (dispatcher.ts:22-41).
VerdictIsReference ==
  verdict.state = "returned" =>
    /\ verdict.passed => Len(ran) = Len(task.checks) /\ \A i \in DOMAIN ran : Earned(i)
    /\ upset = 0 =>
         /\ verdict.passed = RefPassed(began)
         /\ verdict.scored = RefScored(began) /\ verdict.weighed = RefWeighed(began)

===============================================================================
