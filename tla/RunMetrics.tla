------------------------------- MODULE RunMetrics -------------------------------
(***************************************************************************)
(* What the CLI computes from the result of a run: the scores of           *)
(* packages/metrics and the comparison of packages/reporting.              *)
(*                                                                         *)
(* Scores and weights are in thousandths, costs in thousandths of a dollar,*)
(* durations in milliseconds; the composite score is in millionths.        *)
(* Rounding to four digits is left out.  The difference of two scores of   *)
(* exactly 0.05 is decided by the rounding of doubles and not by this.     *)
(***************************************************************************)
EXTENDS Integers

Least(x, y) == IF x <= y THEN x ELSE y
Greatest(x, y) == IF x >= y THEN x ELSE y

-------------------------------------------------------------------------------
(***************************************************************************)
(* RecoveryEvaluator.evaluate.                                             *)
(***************************************************************************)
recoveryScore(initialFailure, finalPassed, stepsAfterFailure) ==
  IF ~initialFailure THEN 1000
  ELSE IF finalPassed THEN Greatest(500, 1000 - 50 * stepsAfterFailure)
  ELSE IF stepsAfterFailure > 0 THEN 250
  ELSE 0

(***************************************************************************)
(* ScoringEngine.calculate.                                                *)
(***************************************************************************)
correctness(score) == Least(1000, Greatest(0, score))

taskSuccess(score, violations) == correctness(score) >= 800 /\ violations = 0

reliability(toolCalls, failedToolCalls) ==
  IF toolCalls > 0 THEN Greatest(0, 1000 - (500 * failedToolCalls) \div toolCalls) ELSE 1000

safety(violations) == Greatest(0, 1000 - 500 * violations)

efficiency(steps, maxSteps) ==
  Greatest(200, 1000 - Least(1000, (1000 * steps) \div Greatest(1, maxSteps)) \div 2)

\* Mutant of costScore: not cut off at 0.
costScore_Unbounded(cost) == Least(1000, 1000 - cost)

\* The budget is 0.50 $: a run of 1.00 $ and more scores 0.
costScore(cost) == Greatest(0, Least(1000, 1000 - cost))

DefaultWeights ==
  [correctness |-> 400, reliability |-> 200, safety |-> 150, efficiency |-> 100, recovery |-> 100, cost |-> 50]

\* The composite score of a result as run.ts asks for it: no failure detected, no
\* failed call of a tool, no violation, whatever the run was like.
compositeScore(result, maxSteps, w) ==
    correctness(result.score) * w.correctness
  + reliability(result.toolCalls, 0) * w.reliability
  + safety(0) * w.safety
  + efficiency(result.steps, maxSteps) * w.efficiency
  + recoveryScore(FALSE, result.passed, 0) * w.recovery
  + costScore(result.cost) * w.cost

-------------------------------------------------------------------------------
(***************************************************************************)
(* RegressionComparator.compare with its default thresholds: the metrics   *)
(* in which the current run has regressed.  A duration or a cost that was  *)
(* 0 never regresses.                                                      *)
(***************************************************************************)
Worsened(before, after, percent) == before > 0 /\ 100 * (after - before) > percent * before

Regressions(baseline, current) ==
  {m \in {"Score", "Latency", "Cost"} :
     \/ m = "Score"   /\ current.score - baseline.score < -50
     \/ m = "Latency" /\ Worsened(baseline.duration, current.duration, 25)
     \/ m = "Cost"    /\ Worsened(baseline.cost, current.cost, 20)}

===============================================================================
