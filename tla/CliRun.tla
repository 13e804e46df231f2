-------------------------------- MODULE CliRun --------------------------------
(***************************************************************************)
(* The command line around one run (apps/cli/src/commands/run.ts): the     *)
(* agent's session, the engine's result, and the two files that are left   *)
(* in .kazi/runs; beside it another process that exports that directory    *)
(* (commands/export.ts, dataset/src/exporter.ts).  An earlier run has left *)
(* its files, or what it had written of them when it was killed.           *)
(*                                                                         *)
(* A file is written in two steps that other processes can tell apart: it  *)
(* is there and cut short, then complete.  A process may be killed between *)
(* any two steps.                                                          *)
(*                                                                         *)
(* The command line has no custom agents: they belong to programs that use *)
(* the packages and keep no files.  Such a session runs on its own here.   *)
(***************************************************************************)
EXTENDS ToolSession, RunMetrics

CONSTANTS
  EarlierResults,   \* what the earlier run may have returned
  Claims,           \* steps and tool calls that the server of an HTTP agent may claim
  Scores,           \* scores of verifications
  Costs, Durations, \* costs and durations of runs
  MinScore,         \* the task's minimum_score
  MaxSteps          \* the task's max_steps

Runs == {"earlier", "this"}

Files == Runs \X {"trajectory", "record"}

Results ==
  [verified : BOOLEAN, passed : BOOLEAN, score : Int, steps : Nat, toolCalls : Nat,
   cost : Int, duration : Int]

\* A result without a verdict has score 0; one that passed has the minimum score.
Fits(r) == (~r.verified => ~r.passed /\ r.score = 0) /\ (r.passed => r.score >= MinScore)

\* The earlier run was a run like this one.  A server claims no negative counts, which
\* the code does not check.
ASSUME ResultsAssumption ==
  /\ MinScore \in Int /\ MaxSteps \in Int
  /\ Scores \subseteq Int /\ Costs \subseteq Int /\ Durations \subseteq Int
  /\ Claims \subseteq Nat \X Nat
  /\ EarlierResults \subseteq Results
  /\ \A r \in EarlierResults : Fits(r)

NoResult == [verified |-> FALSE, passed |-> FALSE, score |-> 0, steps |-> 0, toolCalls |-> 0,
             cost |-> 0, duration |-> 0]

VARIABLES
  phase,     \* of this run's process, or "library" for a program with a custom agent
  result,    \* of each run, what the engine returned
  file,      \* of each file: "absent", "partial" or "complete"
  exporter,  \* the exporting process: "idle", "reading" or "done"
  listed,    \* the files it found and has not yet read
  records,   \* the files it has read
  dataset,   \* its options format and output (a name that ends in .jsonl, or another),
             \* and what its output file holds: records, or metadata in their place
  complete   \* history: the files that were complete when it listed the directory

runVars    == <<phase, result, file>>
exportVars == <<exporter, listed, records, dataset, complete>>
vars       == <<sessionVars, runVars, exportVars>>

-------------------------------------------------------------------------------
\* What a process that is killed, or has ended, may have written.
Left == {<<"absent", "absent">>, <<"partial", "absent">>, <<"complete", "absent">>,
         <<"complete", "partial">>, <<"complete", "complete">>}

Init ==
  /\ SessionInit
  /\ phase = IF agent = "custom" THEN "library" ELSE "engine"
  /\ \E earlier \in EarlierResults \union {NoResult}, left \in Left :
       /\ agent = "custom" <=> earlier = NoResult
       /\ agent = "custom" => left = <<"absent", "absent">>
       /\ result = [r \in Runs |-> IF r = "earlier" THEN earlier ELSE NoResult]
       /\ file = [f \in Files |-> IF f[1] = "this" THEN "absent"
                                  ELSE IF f[2] = "trajectory" THEN left[1] ELSE left[2]]
  /\ exporter = "idle"
  /\ listed = {}
  /\ records = {}
  /\ dataset = [format |-> "none", output |-> "none", records |-> {}, metadata |-> FALSE]
  /\ complete = {}

Session ==
  /\ \/ phase \in {"engine", "library"} /\ SessionStep
     \/ phase = "library" /\ Finalize
  /\ UNCHANGED <<runVars, exportVars>>

\* Steps and tool calls as the agent reports them: its counters, or what the server
\* claims, or the constants of the HTTP agent's catch block.
Reported ==
  CASE agent = "http" /\ outcome = "success" -> Claims
    [] agent = "http" /\ outcome = "error"   -> {<<1, 0>>}
    [] OTHER                                 -> {<<stepCount, toolCalls>>}

\* The engine's verdict: none, score 0, if anything was thrown before the verifier
\* answered; otherwise passed only with the minimum score.
EngineReturns ==
  /\ phase = "engine"
  /\ outcome # "none"
  /\ \E verified, passed \in BOOLEAN, score \in Scores, cost \in Costs, duration \in Durations,
        reported \in Reported :
       /\ outcome = "rejected" => ~verified /\ cost = 0
       /\ ~verified => ~passed /\ score = 0
       /\ passed => score >= MinScore
       /\ result' = [result EXCEPT !["this"] =
            [verified |-> verified, passed |-> passed, score |-> score,
             steps |-> reported[1], toolCalls |-> reported[2], cost |-> cost, duration |-> duration]]
  /\ phase' = "finalize"
  /\ UNCHANGED <<sessionVars, file, exportVars>>

FinalizeRun ==
  /\ phase = "finalize"
  /\ Finalize
  /\ phase' = "trajectory"
  /\ UNCHANGED <<result, file, exportVars>>

\* Mutant of NextFile: the record first.
NextFile_RecordFirst == IF phase = "trajectory" THEN "record" ELSE "trajectory"

\* The files are written one after the other.
NextFile == IF phase = "trajectory" THEN "trajectory" ELSE "record"

WriteFile ==
  /\ phase \in {"trajectory", "record"}
  /\ LET f == <<"this", NextFile>> IN
       IF file[f] = "absent"
         THEN file' = [file EXCEPT ![f] = "partial"] /\ UNCHANGED phase
         ELSE /\ file' = [file EXCEPT ![f] = "complete"]
              /\ phase' = IF phase = "trajectory" THEN "record" ELSE "ended"
  /\ UNCHANGED <<sessionVars, result, exportVars>>

Killed ==
  /\ phase \notin {"ended", "killed", "library"}
  /\ phase' = "killed"
  /\ UNCHANGED <<sessionVars, result, file, exportVars>>

-------------------------------------------------------------------------------
\* The command compare: it needs both records, and fails on one that is cut short.
Comparable(p, q) ==
  file[<<p, "record">>] = "complete" /\ file[<<q, "record">>] = "complete"

regressionDetected(p, q) == Regressions(result[p], result[q]) # {}

-------------------------------------------------------------------------------
\* The exporter lists the directory: every .json file is taken for a trajectory, the
\* records of runs as well.
ExportLists ==
  /\ exporter = "idle" /\ phase # "library"
  /\ exporter' = "reading"
  /\ listed' = {f \in Files : file[f] # "absent"}
  /\ complete' = {f \in Files : file[f] = "complete"}
  /\ UNCHANGED <<sessionVars, runVars, records, dataset>>

\* Mutant of ExportReads: a file that cannot be parsed ends the loop.
ExportReads_Breaks(f) ==
  /\ exporter = "reading" /\ f \in listed
  /\ IF file[f] = "complete"
       THEN records' = records \union {f} /\ listed' = listed \ {f}
       ELSE listed' = {} /\ UNCHANGED records
  /\ UNCHANGED <<sessionVars, runVars, exporter, dataset, complete>>

\* A file that cannot be parsed is skipped.
ExportReads(f) ==
  /\ exporter = "reading" /\ f \in listed
  /\ listed' = listed \ {f}
  /\ records' = IF file[f] = "complete" THEN records \union {f} ELSE records
  /\ UNCHANGED <<sessionVars, runVars, exporter, dataset, complete>>

\* Whether the metadata of an export leave its records alone: there are metadata only in
\* the format jsonl, and they go to a file beside the output if its name ends in .jsonl.
KeepsRecords(format, output) == format = "json" \/ output = ".jsonl"

\* The records are written, and the metadata, which may replace them.
ExportWrites ==
  /\ exporter = "reading" /\ listed = {}
  /\ exporter' = "done"
  /\ \E format \in {"jsonl", "json"}, output \in {".jsonl", "other"} :
       dataset' = [format |-> format, output |-> output,
                   records |-> IF KeepsRecords(format, output) THEN records ELSE {},
                   metadata |-> ~KeepsRecords(format, output)]
  /\ UNCHANGED <<sessionVars, runVars, listed, records, complete>>

ExportStep == ExportLists \/ ExportWrites \/ \E f \in Files : ExportReads(f)

Next == Session \/ EngineReturns \/ FinalizeRun \/ WriteFile \/ Killed \/ ExportStep

Spec == Init /\ [][Next]_vars

-------------------------------------------------------------------------------
(***************************************************************************)
(* Properties.                                                             *)
(***************************************************************************)

\* Whenever a process is killed, a run record, be it cut short, has its complete
\* trajectory beside it (run.ts:124-132).
RecordHasTrajectory ==
  \A r \in Runs :
    file[<<r, "record">>] # "absent" => file[<<r, "trajectory">>] = "complete"

\* An export in the format json, or to a name that ends in .jsonl, holds every file that
\* was complete when it began, whatever other runs write or leave cut short meanwhile, and
\* none that is not complete; so a finished run is there twice, as its trajectory and as
\* its record (export.ts:28-57).  Any other export, of the default format to another name,
\* loses them all: it holds metadata and not one record (export.ts:59-63,
\* exporter.ts:26-27).
ExportHoldsAllOrNone ==
  exporter = "done" =>
    IF dataset.format = "json" \/ dataset.output = ".jsonl"
      THEN /\ complete \subseteq dataset.records
           /\ \A f \in dataset.records : file[f] = "complete"
      ELSE dataset.records = {} /\ dataset.metadata

\* A run without a verdict, though it is credited with full marks for reliability,
\* safety and recovery, is no success, scores less than any run that passed, and the
\* comparison with that run detects the regression (engine.ts:110, run.ts:107-118,
\* scoring.ts:36-71, comparator.ts:37-40).
NoVerdictLoses ==
  \A p, q \in Runs :
    (Comparable(p, q) /\ result[p].passed /\ ~result[q].verified) =>
    /\ ~taskSuccess(result[q].score, 0)
    /\ compositeScore(result[q], MaxSteps, DefaultWeights) < compositeScore(result[p], MaxSteps, DefaultWeights)
    /\ regressionDetected(p, q)

===============================================================================
