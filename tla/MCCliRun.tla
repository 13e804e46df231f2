------------------------------- MODULE MCCliRun -------------------------------
(***************************************************************************)
(* Values for model checking CliRun.                                       *)
(***************************************************************************)
EXTENDS CliRun

Earlier(verified, passed, score, steps, cost) ==
  [verified |-> verified, passed |-> passed, score |-> score, steps |-> steps, toolCalls |-> 3,
   cost |-> cost, duration |-> 100]

\* A server that says nothing of steps and calls, and one that did a lot.
MCClaims == {<<1, 0>>, <<30, 3>>}

\* The earlier run passed within its limits or far over them, or had no verdict.
MCEarlierResults ==
  {Earlier(TRUE, TRUE, 950, 30, 20000), Earlier(TRUE, TRUE, 1000, 1, 0),
   Earlier(FALSE, FALSE, 0, 2, 0)}

===============================================================================
