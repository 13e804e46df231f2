------------------------------ MODULE CliRunProofs ------------------------------
(***************************************************************************)
(* Theorems about CliRun and the session in it, for any limits, calls,     *)
(* results and tasks.                                                      *)
(***************************************************************************)
EXTENDS CliRun, SequenceTheorems, FiniteSetTheorems, WellFoundedInduction, TLAPS

-------------------------------------------------------------------------------
(***************************************************************************)
(* The guardrail.  The last tool that was started is the one of lastCall,  *)
(* since a call that differs from lastCall is never refused as a loop; and *)
(* repeats is at least the length of the series that it ends.              *)
(***************************************************************************)
\* The names CallOf may answer with, and the calls of a custom agent.
Names == AllCalls \union {"none"}

GuardTypeOK ==
  /\ executed \in Seq(Names)
  /\ maxCalls \in Nat /\ callCount \in Nat /\ repeats \in Nat

LastStarted == executed # <<>> => executed[Len(executed)] = lastCall

\* The calls from i to j are all the same.
Series(i, j) == i <= j /\ \A k \in i .. j : executed[k] = executed[i]

RepeatsCount ==
  \A i \in DOMAIN executed : Series(i, Len(executed)) => Len(executed) - i + 1 <= repeats

GuardInv ==
  /\ GuardTypeOK
  /\ Len(executed) <= callCount
  /\ CallLimit
  /\ LastStarted
  /\ RepeatsCount
  /\ LoopIsBroken

LEMMA ConsecutiveType == maxConsecutive \in Nat
  BY LimitsAssumption DEF maxConsecutive, OrDefault

LEMMA GuardInitially == Init => GuardInv
<1> SUFFICES ASSUME Init PROVE GuardInv
  OBVIOUS
<1>1. executed = <<>> /\ callCount = 0 /\ repeats = 0 /\ maxCalls \in Nat
  <2>1. /\ executed = <<>> /\ callCount = 0 /\ repeats = 0
        /\ maxCalls \in {OrDefault(option, 200) : option \in MaxToolCalls}
    BY DEF Init, SessionInit
  <2>2. PICK option \in MaxToolCalls : maxCalls = OrDefault(option, 200)
    BY <2>1
  <2> QED BY <2>1, <2>2, LimitsAssumption DEF OrDefault
<1>2. executed \in Seq(Names) /\ Len(executed) = 0 /\ DOMAIN executed = {}
  BY <1>1, EmptySeq
<1> QED
  BY <1>1, <1>2 DEF GuardInv, GuardTypeOK, CallLimit, LastStarted, RepeatsCount, LoopIsBroken

\* A call that is refused leaves what was started.
LEMMA RefusedKeeps ==
  ASSUME GuardInv, NEW c \in Names, Guarded(c), Verdict(c) # "running"
  PROVE  GuardInv'
<1>1. executed' = executed /\ callCount' = callCount + 1 /\ maxCalls' = maxCalls
  BY DEF Guarded
<1>2. CASE Verdict(c) = "limit"
  <2>1. UNCHANGED <<lastCall, repeats>>
    BY <1>2 DEF Guarded
  <2> QED
    BY <1>1, <2>1 DEF GuardInv, GuardTypeOK, CallLimit, LastStarted, RepeatsCount, LoopIsBroken, Series
<1>3. CASE Verdict(c) # "limit"
  <2>1. c = lastCall
    BY <1>3 DEF Verdict
  <2>2. lastCall' = lastCall /\ repeats' = repeats + 1
    BY <1>3, <2>1 DEF Guarded
  <2> QED
    BY <1>1, <2>2 DEF GuardInv, GuardTypeOK, CallLimit, LastStarted, RepeatsCount, LoopIsBroken, Series
<1> QED BY <1>2, <1>3

LEMMA StartedKeeps ==
  ASSUME GuardInv, NEW c \in Names, Guarded(c), Verdict(c) = "running"
  PROVE  GuardInv'
<1> DEFINE n == Len(executed)
           After(i, j) == i <= j /\ \A k \in i .. j : executed'[k] = executed'[i]
<1>1. /\ executed' = Append(executed, c) /\ callCount' = callCount + 1 /\ maxCalls' = maxCalls
      /\ lastCall' = c
      /\ repeats' = IF c = lastCall THEN repeats + 1 ELSE 1
      /\ callCount + 1 <= maxCalls
      /\ c = lastCall => repeats + 1 < maxConsecutive
  BY ConsecutiveType DEF Guarded, Verdict, GuardInv, GuardTypeOK
<1>2. /\ n \in Nat /\ Len(executed') = n + 1
      /\ DOMAIN executed = 1 .. n /\ DOMAIN executed' = 1 .. (n + 1)
      /\ \A k \in 1 .. n : executed'[k] = executed[k]
      /\ executed'[n + 1] = c
      /\ executed' \in Seq(Names)
  BY <1>1 DEF GuardInv, GuardTypeOK
<1>3. GuardTypeOK' /\ Len(executed') <= callCount' /\ CallLimit' /\ LastStarted'
  BY <1>1, <1>2 DEF GuardInv, GuardTypeOK, CallLimit, LastStarted
<1> HIDE DEF n
\* A series that ends with the new call, before it.
<1>4. ASSUME NEW i \in 1 .. n, After(i, n + 1)
      PROVE  c = lastCall /\ Series(i, n)
  <2>1. \A k \in i .. (n + 1) : executed'[k] = executed'[i]
    BY <1>4
  <2>2. executed[n] = c /\ executed # <<>>
    BY <1>2, <2>1
  <2>3. c = lastCall
    BY <2>2 DEF GuardInv, LastStarted, n
  <2>4. Series(i, n)
    BY <1>2, <2>1 DEF Series
  <2> QED BY <2>3, <2>4
<1>5. \A i \in 1 .. (n + 1) : After(i, n + 1) => i = n + 1 \/ (c = lastCall /\ n - i + 1 <= repeats)
  <2> SUFFICES ASSUME NEW i \in 1 .. n, After(i, n + 1)
               PROVE  c = lastCall /\ n - i + 1 <= repeats
    BY <1>2
  <2>1. c = lastCall /\ Series(i, n)
    BY <1>4
  <2> QED BY <1>2, <2>1 DEF GuardInv, RepeatsCount, n
<1> HIDE DEF After
\* The numbers, without the sequences they are about.
<1>n. /\ n \in Nat /\ repeats \in Nat /\ maxConsecutive \in Nat
      /\ repeats' = IF c = lastCall THEN repeats + 1 ELSE 1
      /\ c = lastCall => repeats + 1 < maxConsecutive
  BY <1>1, <1>2, ConsecutiveType DEF GuardInv, GuardTypeOK
<1>6. RepeatsCount'
  <2> SUFFICES ASSUME NEW i \in 1 .. (n + 1), After(i, n + 1)
               PROVE  n + 1 - i + 1 <= repeats'
    BY <1>2 DEF RepeatsCount, Series, After
  <2>1. CASE i = n + 1
    <3>1. repeats' >= 1
      BY <1>n
    <3> QED BY <1>n, <2>1, <3>1
  <2>2. CASE i # n + 1
    <3>1. c = lastCall /\ n - i + 1 <= repeats
      BY <1>5, <2>2
    <3>2. repeats' = repeats + 1
      BY <1>n, <3>1
    <3> QED BY <1>n, <3>1, <3>2
  <2> QED BY <2>1, <2>2
<1>7. LoopIsBroken'
  <2> SUFFICES ASSUME NEW i \in 1 .. (n + 1), NEW j \in 1 .. (n + 1), After(i, j)
               PROVE  j - i < 1 \/ j - i + 1 < maxConsecutive
    BY <1>2 DEF LoopIsBroken, After
  <2>1. CASE j = n + 1
    <3>1. i = n + 1 \/ (c = lastCall /\ n - i + 1 <= repeats)
      BY <1>5, <2>1
    <3> QED BY <1>n, <2>1, <3>1
  <2>2. CASE j # n + 1
    <3>1. i <= j /\ j \in 1 .. n /\ i \in 1 .. n
      BY <1>n, <2>2 DEF After
    <3>2. \A k \in i .. j : executed[k] = executed[i]
      BY <1>2, <3>1 DEF After
    <3> QED
      BY <1>2, <3>1, <3>2 DEF GuardInv, LoopIsBroken
  <2> QED BY <2>1, <2>2
<1> QED BY <1>1, <1>2, <1>3, <1>6, <1>7 DEF GuardInv

LEMMA GuardUnchanged ==
  ASSUME GuardInv, UNCHANGED <<maxCalls, callCount, lastCall, repeats, executed>>
  PROVE  GuardInv'
  BY DEF GuardInv, GuardTypeOK, CallLimit, LastStarted, RepeatsCount, LoopIsBroken, Series

LEMMA GoesOnKeeps ==
  ASSUME GuardInv, NEW i, NEW answered, GoesOn(i, answered)
  PROVE  GuardInv'
<1>1. \A j : CallOf(j) \in Names
  BY DEF CallOf, Names, AllCalls, ReferenceCalls
<1>2. UNCHANGED guardVars \/ \E c \in Names : Guarded(c)
  BY <1>1 DEF GoesOn
<1> QED BY <1>2, RefusedKeeps, StartedKeeps, GuardUnchanged DEF guardVars

LEMMA SessionKeepsGuard ==
  ASSUME GuardInv, SessionStep
  PROVE  GuardInv'
<1>1. CASE Starts \/ Continues
  BY <1>1, GoesOnKeeps DEF Starts, Continues
<1>2. CASE RejectsAtOnce \/ Catches \/ Succeeds \/ HttpCatches \/ HttpReturns \/ CustomEnds
  BY <1>2, GuardUnchanged
     DEF RejectsAtOnce, Catches, Succeeds, HttpCatches, HttpReturns, CustomEnds, Ends, guardVars
<1>5. CASE HttpPosts \/ HttpResponds
  BY <1>5, GuardUnchanged DEF HttpPosts, HttpResponds, HttpMoves, guardVars
<1>3. ASSUME NEW c \in CustomCalls, CustomCall(c)
      PROVE  GuardInv'
  BY <1>3, RefusedKeeps, StartedKeeps DEF CustomCall, Names, AllCalls
<1>4. ASSUME NEW n, ToolAnswers(n) \/ ToolThrows(n)
      PROVE  GuardInv'
  BY <1>4, GuardUnchanged DEF ToolAnswers, ToolThrows
<1> QED BY <1>1, <1>2, <1>3, <1>4, <1>5 DEF SessionStep

-------------------------------------------------------------------------------
(***************************************************************************)
(* The files.  A phase of this run's process says which files there can be *)
(* and how far they are; the earlier run has left what any process leaves. *)
(***************************************************************************)
Trajectory(r) == <<r, "trajectory">>
Record(r)     == <<r, "record">>

FileInv ==
  /\ file \in [Files -> {"absent", "partial", "complete"}]
  /\ phase \in {"library", "engine", "finalize", "trajectory", "record", "ended", "killed"}
  /\ phase \in {"library", "engine", "finalize"} =>
       file[Trajectory("this")] = "absent" /\ file[Record("this")] = "absent"
  /\ phase = "trajectory" =>
       file[Trajectory("this")] # "complete" /\ file[Record("this")] = "absent"
  /\ phase = "record" => file[Record("this")] # "complete"
  /\ phase = "record" => file[Trajectory("this")] = "complete"
  /\ RecordHasTrajectory

LEMMA FileNames ==
  /\ \A r \in Runs : Trajectory(r) \in Files /\ Record(r) \in Files
  /\ \A r, s \in Runs : Trajectory(r) # Record(s)
  /\ Trajectory("this") # Trajectory("earlier") /\ Record("this") # Record("earlier")
  /\ Runs = {"earlier", "this"}
  BY DEF Trajectory, Record, Files, Runs

(***************************************************************************)
(* The exporter.  What was complete stays so, and has been read or will be.*)
(***************************************************************************)
ExportInv ==
  /\ exporter \in {"idle", "reading", "done"}
  /\ listed \subseteq Files
  /\ exporter = "idle" => records = {} /\ complete = {}
  /\ complete \subseteq records \union listed
  /\ \A f \in complete \union records : f \in Files /\ file[f] = "complete"
  /\ exporter = "done" =>
       /\ listed = {}
       /\ dataset.records = IF KeepsRecords(dataset.format, dataset.output) THEN records ELSE {}
       /\ ~KeepsRecords(dataset.format, dataset.output) => dataset.metadata

\* A file that is complete stays complete.
StayComplete == \A f \in Files : file[f] = "complete" => file'[f] = "complete"

LEMMA FileInitially == Init => FileInv /\ ExportInv
<1> SUFFICES ASSUME Init PROVE FileInv /\ ExportInv
  OBVIOUS
<1>1. PICK left \in Left :
        /\ file = [f \in Files |-> IF f[1] = "this" THEN "absent"
                                   ELSE IF f[2] = "trajectory" THEN left[1] ELSE left[2]]
  BY DEF Init
<1>2. left[1] \in {"absent", "partial", "complete"} /\ left[2] \in {"absent", "partial", "complete"}
      /\ (left[2] # "absent" => left[1] = "complete")
  BY DEF Left
<1>3. /\ file[Trajectory("this")] = "absent" /\ file[Record("this")] = "absent"
      /\ file[Trajectory("earlier")] = left[1] /\ file[Record("earlier")] = left[2]
  BY <1>1, FileNames DEF Trajectory, Record
<1>4. file \in [Files -> {"absent", "partial", "complete"}]
  BY <1>1, <1>2
<1>5. FileInv
  BY <1>2, <1>3, <1>4, FileNames DEF FileInv, Init, RecordHasTrajectory, Trajectory, Record
<1>6. ExportInv
  BY DEF Init, ExportInv
<1> QED BY <1>5, <1>6

LEMMA FilesUnchanged ==
  ASSUME FileInv, UNCHANGED file, phase' = phase \/ phase' = "killed"
         \/ (phase = "engine" /\ phase' = "finalize") \/ (phase = "finalize" /\ phase' = "trajectory")
  PROVE  FileInv' /\ StayComplete
  BY DEF FileInv, RecordHasTrajectory, StayComplete, Trajectory, Record

LEMMA WriteFileKeeps ==
  ASSUME FileInv, WriteFile
  PROVE  FileInv' /\ StayComplete
<1> DEFINE f == <<"this", NextFile>>
<1>1. phase \in {"trajectory", "record"}
      /\ f = (IF phase = "trajectory" THEN Trajectory("this") ELSE Record("this"))
  BY DEF WriteFile, NextFile, Trajectory, Record
<1>2. f \in Files /\ file[f] # "complete"
  BY <1>1, FileNames DEF FileInv, Runs
<1>3. \/ file[f] = "absent" /\ file' = [file EXCEPT ![f] = "partial"] /\ phase' = phase
      \/ /\ file[f] # "absent" /\ file' = [file EXCEPT ![f] = "complete"]
         /\ phase' = IF phase = "trajectory" THEN "record" ELSE "ended"
  BY DEF WriteFile
<1> HIDE DEF f
<1>4. StayComplete
  BY <1>2, <1>3 DEF StayComplete, FileInv
<1>5. file' \in [Files -> {"absent", "partial", "complete"}]
  BY <1>2, <1>3 DEF FileInv
<1>6. /\ file'[Trajectory("earlier")] = file[Trajectory("earlier")]
      /\ file'[Record("earlier")] = file[Record("earlier")]
  BY <1>1, <1>3, FileNames DEF FileInv
<1>7. ASSUME file'[Record("this")] = "absent" \/ file'[Trajectory("this")] = "complete"
      PROVE  RecordHasTrajectory'
  BY <1>6, <1>7, FileNames DEF FileInv, RecordHasTrajectory, Trajectory, Record
<1>8. CASE phase = "trajectory"
  <2>1. f = Trajectory("this") /\ file'[Record("this")] = file[Record("this")]
    BY <1>1, <1>3, <1>8, FileNames DEF FileInv
  <2>2. \/ phase' = "trajectory" /\ file'[Trajectory("this")] = "partial"
        \/ phase' = "record" /\ file'[Trajectory("this")] = "complete"
    BY <1>2, <1>3, <1>8, <2>1 DEF FileInv
  <2>3. file[Record("this")] = "absent"
    BY <1>8 DEF FileInv
  <2>4. RecordHasTrajectory'
    BY <1>7, <2>1, <2>3
  <2> QED BY <1>4, <1>5, <1>8, <2>1, <2>2, <2>3, <2>4 DEF FileInv
<1>9. CASE phase = "record"
  <2>1. f = Record("this") /\ file'[Trajectory("this")] = "complete"
    BY <1>1, <1>3, <1>9, FileNames DEF FileInv
  <2>2. \/ phase' = "record" /\ file'[Record("this")] = "partial"
        \/ phase' = "ended" /\ file'[Record("this")] = "complete"
    BY <1>2, <1>3, <1>9, <2>1 DEF FileInv
  <2>3. RecordHasTrajectory'
    BY <1>7, <2>1
  <2> QED BY <1>4, <1>5, <1>9, <2>1, <2>2, <2>3 DEF FileInv
<1> QED BY <1>1, <1>8, <1>9

LEMMA ExporterUnchanged ==
  ASSUME ExportInv, UNCHANGED exportVars, StayComplete
  PROVE  ExportInv'
  BY DEF ExportInv, exportVars, StayComplete

LEMMA ExportKeeps ==
  ASSUME ExportInv, ExportStep
  PROVE  ExportInv'
<1>1. CASE ExportLists
  BY <1>1 DEF ExportLists, ExportInv, runVars
<1>2. CASE ExportWrites
  <2>1. PICK format \in {"jsonl", "json"}, output \in {".jsonl", "other"} :
          dataset' = [format |-> format, output |-> output,
                      records |-> IF KeepsRecords(format, output) THEN records ELSE {},
                      metadata |-> ~KeepsRecords(format, output)]
    BY <1>2 DEF ExportWrites
  <2>2. /\ dataset'.format = format /\ dataset'.output = output
        /\ dataset'.records = IF KeepsRecords(format, output) THEN records ELSE {}
        /\ ~KeepsRecords(format, output) => dataset'.metadata
    BY <2>1, Zenon
  <2>3. /\ exporter' = "done" /\ listed = {}
        /\ UNCHANGED <<file, listed, records, complete>>
    BY <1>2 DEF ExportWrites, runVars
  <2> QED
    BY <2>2, <2>3 DEF ExportInv
<1>3. ASSUME NEW f \in Files, ExportReads(f)
      PROVE  ExportInv'
  BY <1>3 DEF ExportReads, ExportInv, runVars
<1> QED BY <1>1, <1>2, <1>3 DEF ExportStep

-------------------------------------------------------------------------------
CliInv == GuardInv /\ FileInv /\ ExportInv

\* The inductive invariant of guardrail, files and exporter (guardrails.ts, run.ts,
\* export.ts).
THEOREM Invariant == Spec => []CliInv
<1>1. CliInv /\ [Next]_vars => CliInv'
  <2> SUFFICES ASSUME CliInv, [Next]_vars PROVE CliInv'
    OBVIOUS
  <2> USE DEF CliInv
  <2>1. CASE Session
    <3>1. GuardInv'
      BY <2>1, SessionKeepsGuard, GuardUnchanged DEF Session, Finalize, guardVars
    <3> QED
      BY <2>1, <3>1, FilesUnchanged, ExporterUnchanged DEF Session, runVars
  <2>2. CASE EngineReturns \/ Killed
    BY <2>2, GuardUnchanged, FilesUnchanged, ExporterUnchanged
       DEF EngineReturns, Killed, sessionVars, guardVars
  <2>3. CASE FinalizeRun
    BY <2>3, GuardUnchanged, FilesUnchanged, ExporterUnchanged
       DEF FinalizeRun, Finalize, guardVars
  <2>4. CASE WriteFile
    <3>1. UNCHANGED <<sessionVars, exportVars>>
      BY <2>4 DEF WriteFile
    <3> QED
      BY <2>4, <3>1, GuardUnchanged, WriteFileKeeps, ExporterUnchanged DEF sessionVars, guardVars
  <2>5. CASE ExportStep
    <3>1. UNCHANGED <<sessionVars, runVars>>
      BY <2>5 DEF ExportStep, ExportLists, ExportWrites, ExportReads
    <3> QED
      BY <2>5, <3>1, GuardUnchanged, FilesUnchanged, ExportKeeps DEF sessionVars, guardVars, runVars
  <2>6. CASE UNCHANGED vars
    BY <2>6, GuardUnchanged, FilesUnchanged, ExporterUnchanged
       DEF vars, sessionVars, guardVars, runVars
  <2> QED BY <2>1, <2>2, <2>3, <2>4, <2>5, <2>6 DEF Next
<1> QED BY <1>1, GuardInitially, FileInitially, PTL DEF Spec, CliInv

\* However an agent overlaps its calls, and whatever is refused, no more tools are
\* started than the limit allows (guardrails.ts:27-30).
THEOREM CallsAreLimited == Spec => []CallLimit
<1>1. CliInv => CallLimit
  BY DEF CliInv, GuardInv
<1> QED BY <1>1, Invariant, PTL

\* No tool is started with the same arguments again and again, for any agent and any
\* limit (guardrails.ts:33-47).
THEOREM LoopsAreBroken == Spec => []LoopIsBroken
<1>1. CliInv => LoopIsBroken
  BY DEF CliInv, GuardInv
<1> QED BY <1>1, Invariant, PTL

\* Whenever the process is killed, no record is without its trajectory (run.ts:124-132).
THEOREM RecordsHaveTrajectories == Spec => []RecordHasTrajectory
<1>1. CliInv => RecordHasTrajectory
  BY DEF CliInv, FileInv
<1> QED BY <1>1, Invariant, PTL

\* An export that overlaps a run misses no file that was complete and takes none that is
\* not; in the default format to a name without .jsonl it loses all of them
\* (export.ts:28-63, exporter.ts:26-27).
THEOREM ExportsHoldAllOrNone == Spec => []ExportHoldsAllOrNone
<1>1. CliInv => ExportHoldsAllOrNone
  BY DEF CliInv, ExportInv, ExportHoldsAllOrNone, KeepsRecords
<1> QED BY <1>1, Invariant, PTL

-------------------------------------------------------------------------------
(***************************************************************************)
(* Counting the events of a type.                                          *)
(***************************************************************************)
\* The places of a log at which there are events of a type.
Places(type, log) == {i \in DOMAIN log : log[i].type = type}

LEMMA PlacesAreFinite ==
  ASSUME NEW S, NEW s \in Seq(S), NEW type
  PROVE  IsFiniteSet(Places(type, s)) /\ Count(type, s) = Cardinality(Places(type, s))
         /\ Count(type, s) \in Nat
<1>1. IsFiniteSet(1 .. Len(s)) /\ Places(type, s) \in SUBSET (1 .. Len(s))
  BY FS_Interval DEF Places
<1>2. IsFiniteSet(Places(type, s))
  BY <1>1, FS_Subset
<1> QED BY <1>2, FS_CardinalityType DEF Count, Places

\* Where the elements of two sequences are in the one after the other.
LEMMA ConcatIs ==
  ASSUME NEW S, NEW s \in Seq(S), NEW t \in Seq(S)
  PROVE  /\ Len(s) \in Nat /\ DOMAIN s = 1 .. Len(s) /\ Len(t) \in Nat /\ DOMAIN t = 1 .. Len(t)
         /\ s \o t \in Seq(S) /\ Len(s \o t) = Len(s) + Len(t)
         /\ DOMAIN (s \o t) = 1 .. (Len(s) + Len(t))
         /\ \A i \in 1 .. Len(s) : (s \o t)[i] = s[i]
         /\ \A i \in 1 .. Len(t) : (s \o t)[Len(s) + i] = t[i]
  OBVIOUS

\* The counts of two logs add up to that of the one after the other.
LEMMA CountConcat ==
  ASSUME NEW S, NEW s \in Seq(S), NEW t \in Seq(S), NEW type
  PROVE  Count(type, s \o t) = Count(type, s) + Count(type, t)
<1> DEFINE m == Len(s)
           A == Places(type, s)
           B == Places(type, t)
           C == {m + i : i \in B}
           shift == [i \in B |-> m + i]
<1>1. /\ m \in Nat /\ Len(t) \in Nat /\ DOMAIN s = 1 .. m /\ DOMAIN t = 1 .. Len(t)
      /\ s \o t \in Seq(S) /\ DOMAIN (s \o t) = 1 .. (m + Len(t))
      /\ \A i \in 1 .. m : (s \o t)[i] = s[i]
      /\ \A i \in 1 .. Len(t) : (s \o t)[m + i] = t[i]
  BY ConcatIs
<1>2. A \subseteq 1 .. m /\ B \subseteq 1 .. Len(t)
  BY <1>1 DEF Places
<1> HIDE DEF m
<1>3. shift \in Bijection(B, C)
  <2>1. \A i, j \in B : m + i = m + j => i = j
    BY <1>1, <1>2
  <2>2. shift \in Injection(B, C)
    BY <2>1 DEF Injection, IsInjective
  <2>3. shift \in Surjection(B, C)
    BY DEF Surjection
  <2> QED BY <2>2, <2>3 DEF Bijection
<1>4. IsFiniteSet(C) /\ Cardinality(C) = Count(type, t)
  BY <1>3, PlacesAreFinite, FS_Bijection DEF ExistsBijection
<1>5. Places(type, s \o t) = A \union C
  <2>1. ASSUME NEW i \in Places(type, s \o t)
        PROVE  i \in A \union C
    <3>1. i \in 1 .. (m + Len(t)) /\ (s \o t)[i].type = type
      BY <1>1 DEF Places
    <3>2. CASE i <= m
      BY <1>1, <3>1, <3>2 DEF Places
    <3>3. CASE ~(i <= m)
      <4>1. i - m \in 1 .. Len(t) /\ m + (i - m) = i
        BY <1>1, <3>1, <3>3
      <4>2. i - m \in B
        BY <1>1, <3>1, <4>1 DEF Places
      <4> QED BY <4>1, <4>2
    <3> QED BY <3>2, <3>3
  <2>2. ASSUME NEW i \in A
        PROVE  i \in Places(type, s \o t)
    BY <1>1, <1>2 DEF Places
  <2>3. ASSUME NEW i \in B
        PROVE  m + i \in Places(type, s \o t)
    BY <1>1, <1>2 DEF Places
  <2> QED BY <2>1, <2>2, <2>3
<1>6. A \intersect C = {}
  BY <1>1, <1>2
<1>7. IsFiniteSet(A) /\ Cardinality(A) = Count(type, s) /\ Count(type, s) \in Nat
      /\ Count(type, t) \in Nat
  BY PlacesAreFinite
<1>8. Cardinality(A \union C) = Cardinality(A) + Cardinality(C) - Cardinality(A \intersect C)
  BY <1>4, <1>7, FS_Union
<1>9. Cardinality(A \intersect C) = 0
  BY <1>6, FS_EmptySet
<1>10. Count(type, s \o t) = Cardinality(A \union C)
  BY <1>1, <1>5, PlacesAreFinite
<1> HIDE DEF A, C
<1> QED BY <1>4, <1>7, <1>8, <1>9, <1>10

\* What the recorder is given at once: a single event, or steps.
LEMMA CountOne ==
  ASSUME NEW e, NEW type
  PROVE  Count(type, <<e>>) = IF e.type = type THEN 1 ELSE 0
<1>1. DOMAIN <<e>> = {1} /\ <<e>>[1] = e
  OBVIOUS
<1>2. Count(type, <<e>>) = Cardinality(IF e.type = type THEN {1} ELSE {})
  BY <1>1 DEF Count
<1> QED BY <1>2, FS_Singleton, FS_EmptySet

LEMMA CountSteps ==
  ASSUME NEW n \in Nat, NEW type
  PROVE  Count(type, StepEvents(n)) = IF type = "AGENT_ACTION" THEN n ELSE 0
<1>1. DOMAIN StepEvents(n) = 1 .. n
      /\ \A i \in 1 .. n : StepEvents(n)[i].type = "AGENT_ACTION"
  BY DEF StepEvents, Event
<1>2. Count(type, StepEvents(n)) = Cardinality(IF type = "AGENT_ACTION" THEN 1 .. n ELSE {})
  BY <1>1 DEF Count
<1>3. Cardinality(1 .. n) = n
  BY FS_Interval
<1> QED BY <1>2, <1>3, FS_EmptySet

-------------------------------------------------------------------------------
(***************************************************************************)
(* The types of the session.                                               *)
(***************************************************************************)
Logged ==
  [type : {"TASK_START", "AGENT_ACTION", "TOOL_CALL", "TOOL_RESULT", "TASK_END"}, call : Nat]

TypeInv == SessionTypeOK /\ events \in Seq(Logged)

\* Of the steps from i on there is a first one that is not in S.
LEMMA FirstOutside ==
  ASSUME NEW i \in 1 .. 4, NEW S \in SUBSET (1 .. 3)
  PROVE  \E j \in i .. 4 : j \notin S /\ \A k \in i .. (j - 1) : k \in S
<1>1. i \notin S => (i \in i .. 4 /\ \A k \in i .. (i - 1) : k \in S)
  OBVIOUS
<1>2. (i \in S /\ i + 1 \notin S) => (i + 1 \in i .. 4 /\ \A k \in i .. (i + 1 - 1) : k \in S)
  OBVIOUS
<1>3. (i \in S /\ i + 1 \in S /\ i + 2 \notin S)
        => (i + 2 \in i .. 4 /\ \A k \in i .. (i + 2 - 1) : k \in S)
  OBVIOUS
<1>4. (i \in S /\ i + 1 \in S /\ i + 2 \in S)
        => (4 \in i .. 4 /\ 4 \notin S /\ \A k \in i .. (4 - 1) : k \in S)
  OBVIOUS
<1> QED BY <1>1, <1>2, <1>3, <1>4

\* The ReferenceAgent finds its next call, or is through.
LEMMA NextStageIs ==
  ASSUME NEW i \in 1 .. 4
  PROVE  /\ NextStage(i) \in i .. 4
         /\ NextStage(i) # 4 => CallOf(NextStage(i)) \in AllCalls
<1> DEFINE S == {k \in 1 .. 3 : CallOf(k) = "none"}
           First(j) == /\ j = 4 \/ CallOf(j) # "none"
                       /\ \A k \in i .. (j - 1) : CallOf(k) = "none"
<1>1. PICK j \in i .. 4 : j \notin S /\ \A k \in i .. (j - 1) : k \in S
  <2> HIDE DEF S
  <2>1. S \in SUBSET (1 .. 3)
    BY DEF S
  <2> QED BY <2>1, FirstOutside
<1>2. j = 4 \/ j \in 1 .. 3
  OBVIOUS
<1>3. First(j)
  BY <1>1, <1>2
<1>4. NextStage(i) = CHOOSE k \in i .. 4 : First(k)
  BY DEF NextStage
<1>5. NextStage(i) \in i .. 4 /\ First(NextStage(i))
  <2> HIDE DEF First
  <2> QED BY <1>3, <1>4
<1>6. \A k : CallOf(k) # "none" => CallOf(k) \in AllCalls
  BY DEF CallOf, AllCalls, ReferenceCalls
<1> QED BY <1>5, <1>6

\* A call under way, and what is recorded of it.
LEMMA GuardedTypes ==
  ASSUME TypeInv, NEW c \in AllCalls, Guarded(c)
  PROVE  /\ callCount' \in Nat /\ repeats' \in Nat /\ maxCalls' \in Nat
         /\ lastCall' \in AllCalls \union {"none"}
         /\ made' \in Seq(AllCalls) /\ executed' \in Seq(AllCalls)
         /\ fate' \in Seq({"running", "loop", "limit", "answered", "failed"})
         /\ Len(fate') = Len(made') /\ Len(made') = Len(made) + 1
         /\ CallEvents(c) \in Seq(Logged)
<1>1. Verdict(c) \in {"running", "loop", "limit"}
  BY DEF Verdict
<1>2. /\ made \in Seq(AllCalls) /\ executed \in Seq(AllCalls)
      /\ fate \in Seq({"running", "loop", "limit", "answered", "failed"})
      /\ Len(fate) = Len(made)
      /\ callCount \in Nat /\ repeats \in Nat /\ maxCalls \in Nat
      /\ lastCall \in AllCalls \union {"none"}
  BY DEF TypeInv, SessionTypeOK
<1>3. made' = Append(made, c) /\ fate' = Append(fate, Verdict(c))
      /\ executed' = IF Verdict(c) = "running" THEN Append(executed, c) ELSE executed
  BY DEF Guarded
<1>4. callCount' = callCount + 1 /\ maxCalls' = maxCalls
      /\ (lastCall' = lastCall \/ lastCall' = c)
      /\ (repeats' = repeats \/ repeats' = repeats + 1 \/ repeats' = 1)
  BY DEF Guarded
<1>5. callCount' \in Nat /\ repeats' \in Nat /\ maxCalls' \in Nat
      /\ lastCall' \in AllCalls \union {"none"}
  BY <1>2, <1>4
<1>6. made' \in Seq(AllCalls) /\ Len(made') = Len(made) + 1 /\ executed' \in Seq(AllCalls)
  BY <1>2, <1>3
<1>7. fate' \in Seq({"running", "loop", "limit", "answered", "failed"}) /\ Len(fate') = Len(fate) + 1
  BY <1>1, <1>2, <1>3
<1>8. CallEvents(c) \in Seq(Logged)
  <2>1. Len(made) + 1 \in Nat
    BY <1>2
  <2>2. Event("TOOL_CALL", Len(made) + 1) \in Logged
    BY <2>1 DEF Event, Logged
  <2> QED BY <2>2 DEF CallEvents
<1> QED BY <1>2, <1>5, <1>6, <1>7, <1>8

LEMMA RecordedTypes ==
  ASSUME TypeInv, NEW log \in Seq(Logged), Recorded(log)
  PROVE  /\ events' \in Seq(Logged) /\ toolCallCount' \in Nat
         /\ \A type : Count(type, events') = Count(type, events) + Count(type, log)
<1>1. events \in Seq(Logged) /\ toolCallCount \in Nat
      /\ events' = events \o log /\ toolCallCount' = toolCallCount + Count("TOOL_CALL", log)
  BY DEF TypeInv, SessionTypeOK, Recorded
<1>2. Count("TOOL_CALL", log) \in Nat
  BY PlacesAreFinite
<1>3. \A type : Count(type, events \o log) = Count(type, events) + Count(type, log)
  BY <1>1, CountConcat
<1>4. events' \in Seq(Logged)
  BY <1>1
<1> QED BY <1>1, <1>2, <1>3, <1>4

LEMMA StepsAreLogged ==
  ASSUME NEW n \in Nat
  PROVE  StepEvents(n) \in Seq(Logged)
<1>1. Event("AGENT_ACTION", 0) \in Logged
  BY DEF Event, Logged
<1> QED BY <1>1 DEF StepEvents

\* One turn of the ReferenceAgent: what it adds to the log.
LEMMA GoesOnIs ==
  ASSUME TypeInv, NEW i \in 1 .. 4, NEW answered \in 0 .. 1, GoesOn(i, answered)
  PROVE  \E n \in Nat :
           /\ StepEvents(n) \in Seq(Logged)
           /\ stepCount' = stepCount + n
           /\ \/ /\ stage' = 4 /\ UNCHANGED <<guardVars, toolCalls>>
                 /\ Recorded(StepEvents(n))
              \/ \E c \in AllCalls :
                   /\ stage' \in 1 .. 3 /\ toolCalls' = toolCalls + 1
                   /\ Guarded(c) /\ CallEvents(c) \in Seq(Logged)
                   /\ Recorded(StepEvents(n) \o CallEvents(c))
<1> DEFINE j == NextStage(i)
           n == answered + j - i + 1
<1>1. j \in i .. 4 /\ (j # 4 => CallOf(j) \in AllCalls)
  BY NextStageIs
<1>2. n \in Nat
  BY <1>1
<1>3. /\ stage' = j /\ stepCount' = stepCount + n
      /\ j = 4 => Recorded(StepEvents(n)) /\ UNCHANGED <<guardVars, toolCalls>>
      /\ j # 4 => /\ toolCalls' = toolCalls + 1
                  /\ Recorded(StepEvents(n) \o CallEvents(CallOf(j)))
                  /\ Guarded(CallOf(j))
  BY DEF GoesOn, recordStep
<1> HIDE DEF n, j
<1>4. StepEvents(n) \in Seq(Logged)
  BY <1>2, StepsAreLogged
<1>5. CASE j = 4
  BY <1>2, <1>3, <1>4, <1>5
<1>6. CASE j # 4
  <2>1. CallOf(j) \in AllCalls /\ j \in 1 .. 3
    BY <1>1, <1>6
  <2>2. CallEvents(CallOf(j)) \in Seq(Logged)
    BY <1>3, <1>6, <2>1, GuardedTypes
  <2> QED BY <1>2, <1>3, <1>4, <1>6, <2>1, <2>2
<1> QED BY <1>5, <1>6

\* The types hold in the beginning, and the counters agree.
LEMMA SessionInitially == SessionInit => TypeInv /\ CountersAgree
<1> SUFFICES ASSUME SessionInit PROVE TypeInv /\ CountersAgree
  OBVIOUS
<1>1. /\ made = <<>> /\ fate = <<>> /\ executed = <<>> /\ lastCall = "none"
      /\ toolCalls = 0 /\ stepCount = 0 /\ callCount = 0 /\ repeats = 0 /\ toolCallCount = 0
      /\ stage = 0 /\ outcome = "none"
      /\ events = <<Event("TASK_START", 0)>> /\ trajectory = NoTrajectory
  BY DEF SessionInit
<1>2. agent \in {"reference", "http", "custom"} /\ handed \in BOOLEAN
      /\ tools \subseteq {"filesystem", "terminal"}
  BY DEF SessionInit, ToolSets
<1>3. maxCalls \in Nat
  <2>1. PICK option \in MaxToolCalls : maxCalls = OrDefault(option, 200)
    BY DEF SessionInit
  <2> QED BY <2>1, LimitsAssumption DEF OrDefault
<1>4. /\ made \in Seq(AllCalls) /\ executed \in Seq(AllCalls)
      /\ fate \in Seq({"running", "loop", "limit", "answered", "failed"}) /\ Len(fate) = Len(made)
  BY <1>1, EmptySeq
<1>5. SessionTypeOK
  BY <1>1, <1>2, <1>3, <1>4 DEF SessionTypeOK
<1>6. Event("TASK_START", 0) \in Logged
  BY DEF Event, Logged
<1>7. events \in Seq(Logged)
  BY <1>1, <1>6
<1>8. Count("TOOL_CALL", events) = 0 /\ Count("AGENT_ACTION", events) = 0
  BY <1>1, CountOne DEF Event
<1> QED BY <1>1, <1>5, <1>7, <1>8 DEF TypeInv, CountersAgree

\* A turn of the ReferenceAgent counts its steps and its call everywhere.
LEMMA GoesOnCounts ==
  ASSUME TypeInv, CountersAgree, agent = "reference",
         NEW i \in 1 .. 4, NEW answered \in 0 .. 1, GoesOn(i, answered)
  PROVE  TypeInv' /\ CountersAgree'
<1>1. UNCHANGED <<agent, tools, handed, outcome, trajectory>>
  BY DEF GoesOn
<1>2. PICK n \in Nat :
        /\ StepEvents(n) \in Seq(Logged)
        /\ stepCount' = stepCount + n
        /\ \/ /\ stage' = 4 /\ UNCHANGED <<guardVars, toolCalls>>
              /\ Recorded(StepEvents(n))
           \/ \E c \in AllCalls :
                /\ stage' \in 1 .. 3 /\ toolCalls' = toolCalls + 1
                /\ Guarded(c) /\ CallEvents(c) \in Seq(Logged)
                /\ Recorded(StepEvents(n) \o CallEvents(c))
  BY GoesOnIs
<1>3. /\ toolCalls \in Nat /\ stepCount \in Nat /\ stage' \in 0 .. 5
      /\ Count("AGENT_ACTION", StepEvents(n)) = n /\ Count("TOOL_CALL", StepEvents(n)) = 0
      /\ callCount = toolCallCount /\ callCount = Count("TOOL_CALL", events)
      /\ toolCalls = callCount /\ stepCount = Count("AGENT_ACTION", events)
  BY <1>2, CountSteps DEF TypeInv, SessionTypeOK, CountersAgree
<1>4. CASE /\ UNCHANGED <<guardVars, toolCalls>>
           /\ Recorded(StepEvents(n))
  <2>1. /\ events' \in Seq(Logged) /\ toolCallCount' \in Nat
        /\ \A type : Count(type, events') = Count(type, events) + Count(type, StepEvents(n))
    BY <1>2, <1>4, RecordedTypes
  <2>2. toolCallCount' = toolCallCount
    <3>1. toolCallCount \in Nat
      BY DEF TypeInv, SessionTypeOK
    <3>2. toolCallCount' = toolCallCount + Count("TOOL_CALL", StepEvents(n))
      BY <1>4 DEF Recorded
    <3>3. Count("TOOL_CALL", StepEvents(n)) = 0
      BY <1>3
    <3> QED BY <3>1, <3>2, <3>3
  <2>3. stepCount' = Count("AGENT_ACTION", events') /\ Count("TOOL_CALL", events') = callCount
        /\ stepCount' \in Nat
    <3>1. /\ Count("AGENT_ACTION", events') = Count("AGENT_ACTION", events) + n
          /\ Count("TOOL_CALL", events') = Count("TOOL_CALL", events) + 0
      BY <1>3, <2>1
    <3>2. stepCount \in Nat /\ callCount \in Nat /\ stepCount' = stepCount + n
          /\ stepCount = Count("AGENT_ACTION", events) /\ callCount = Count("TOOL_CALL", events)
      BY <1>2, <1>3 DEF TypeInv, SessionTypeOK
    <3> QED BY <3>1, <3>2
  <2>4. TypeInv'
    BY <1>1, <1>3, <1>4, <2>1, <2>3 DEF TypeInv, SessionTypeOK, guardVars
  <2> QED BY <1>1, <1>3, <1>4, <2>2, <2>3, <2>4 DEF CountersAgree, guardVars
<1>5. ASSUME NEW c \in AllCalls, toolCalls' = toolCalls + 1, Guarded(c),
             CallEvents(c) \in Seq(Logged), Recorded(StepEvents(n) \o CallEvents(c))
      PROVE  TypeInv' /\ CountersAgree'
  <2> DEFINE log == StepEvents(n) \o CallEvents(c)
  <2>1. Count("TOOL_CALL", CallEvents(c)) = 1 /\ Count("AGENT_ACTION", CallEvents(c)) = 0
    BY CountOne DEF CallEvents, Event
  <2>2. log \in Seq(Logged) /\ Count("TOOL_CALL", log) = 1 /\ Count("AGENT_ACTION", log) = n
    <3>1. \A type : Count(type, log) = Count(type, StepEvents(n)) + Count(type, CallEvents(c))
      BY <1>2, <1>5, CountConcat
    <3> QED BY <1>2, <1>3, <1>5, <2>1, <3>1
  <2>r. Recorded(log)
    BY <1>5
  <2> HIDE DEF log
  <2>3. /\ events' \in Seq(Logged) /\ toolCallCount' \in Nat
        /\ \A type : Count(type, events') = Count(type, events) + Count(type, log)
    BY <2>2, <2>r, RecordedTypes
  <2>4. toolCallCount' = toolCallCount + 1 /\ callCount' = callCount + 1
    BY <1>5, <2>2, <2>r DEF Recorded, Guarded
  <2>5. stepCount' = Count("AGENT_ACTION", events') /\ Count("TOOL_CALL", events') = callCount'
        /\ stepCount' \in Nat /\ toolCalls' \in Nat
    <3>1. /\ Count("AGENT_ACTION", events') = Count("AGENT_ACTION", events) + n
          /\ Count("TOOL_CALL", events') = Count("TOOL_CALL", events) + 1
      BY <2>2, <2>3
    <3>2. /\ stepCount \in Nat /\ stepCount' = stepCount + n
          /\ toolCalls \in Nat /\ toolCalls' = toolCalls + 1
          /\ stepCount = Count("AGENT_ACTION", events) /\ callCount = Count("TOOL_CALL", events)
      BY <1>2, <1>3, <1>5
    <3> QED BY <2>4, <3>1, <3>2
  <2>6. /\ callCount' \in Nat /\ repeats' \in Nat /\ maxCalls' \in Nat
        /\ lastCall' \in AllCalls \union {"none"}
        /\ made' \in Seq(AllCalls) /\ executed' \in Seq(AllCalls)
        /\ fate' \in Seq({"running", "loop", "limit", "answered", "failed"})
        /\ Len(fate') = Len(made')
    BY <1>5, GuardedTypes
  <2>7. TypeInv'
    BY <1>1, <1>3, <2>3, <2>5, <2>6 DEF TypeInv, SessionTypeOK
  <2>8. toolCalls' = callCount' /\ callCount' = toolCallCount'
    BY <1>3, <1>5, <2>4
  <2> QED BY <1>1, <2>5, <2>7, <2>8 DEF CountersAgree
<1> QED BY <1>2, <1>4, <1>5

LEMMA CountsKept ==
  ASSUME TypeInv, CountersAgree, SessionStep \/ Finalize
  PROVE  TypeInv' /\ CountersAgree'
<1>1. CASE Starts \/ Continues
  <2>1. CASE Starts
    BY <2>1, GoesOnCounts DEF Starts
  <2>2. CASE Continues
    <3>1. stage + 1 \in 1 .. 4
      BY <2>2 DEF Continues, Waits
    <3> QED BY <2>2, <3>1, GoesOnCounts DEF Continues, Waits
  <2> QED BY <1>1, <2>1, <2>2
<1>2. ASSUME NEW how \in {"success", "error", "rejected"}, Ends(how)
      PROVE  TypeInv' /\ CountersAgree'
  <2>1. /\ outcome' = how /\ stage' = 5
        /\ UNCHANGED <<agent, tools, handed, toolCalls, stepCount>>
        /\ UNCHANGED <<maxCalls, callCount, lastCall, repeats, made, fate, executed>>
        /\ UNCHANGED <<events, toolCallCount, trajectory>>
    BY <1>2 DEF Ends, guardVars, recorderVars
  <2>2. TypeInv'
    BY <2>1 DEF TypeInv, SessionTypeOK
  <2> QED BY <2>1, <2>2 DEF CountersAgree
<1>3. ASSUME NEW from \in 0 .. 1, HttpMoves(from, from + 1)
      PROVE  TypeInv' /\ CountersAgree'
  <2>1. /\ stage' = from + 1
        /\ UNCHANGED <<agent, tools, handed, outcome, toolCalls, stepCount>>
        /\ UNCHANGED <<maxCalls, callCount, lastCall, repeats, made, fate, executed>>
        /\ UNCHANGED <<events, toolCallCount, trajectory>>
    BY <1>3 DEF HttpMoves, guardVars, recorderVars
  <2>2. stage' \in 0 .. 5
    BY <2>1
  <2>3. TypeInv'
    BY <2>1, <2>2 DEF TypeInv, SessionTypeOK
  <2> QED BY <2>1, <2>3 DEF CountersAgree
<1>4. ASSUME NEW c \in CustomCalls, CustomCall(c)
      PROVE  TypeInv' /\ CountersAgree'
  <2>1. c \in AllCalls /\ Guarded(c) /\ Recorded(CallEvents(c)) /\ UNCHANGED <<agentVars, trajectory>>
        /\ agent = "custom"
    BY <1>4 DEF CustomCall, AllCalls
  <2>2. /\ callCount' \in Nat /\ repeats' \in Nat /\ maxCalls' \in Nat
        /\ lastCall' \in AllCalls \union {"none"}
        /\ made' \in Seq(AllCalls) /\ executed' \in Seq(AllCalls)
        /\ fate' \in Seq({"running", "loop", "limit", "answered", "failed"})
        /\ Len(fate') = Len(made') /\ CallEvents(c) \in Seq(Logged)
    BY <2>1, GuardedTypes
  <2>3. /\ events' \in Seq(Logged) /\ toolCallCount' \in Nat
        /\ Count("TOOL_CALL", events') = Count("TOOL_CALL", events) + Count("TOOL_CALL", CallEvents(c))
    BY <2>1, <2>2, RecordedTypes
  <2>4. Count("TOOL_CALL", CallEvents(c)) = 1
    BY CountOne DEF CallEvents, Event
  <2>5. toolCallCount' = toolCallCount + 1 /\ callCount' = callCount + 1
    BY <2>1, <2>4 DEF Recorded, Guarded
  <2>6. TypeInv'
    BY <2>1, <2>2, <2>3 DEF TypeInv, SessionTypeOK, agentVars
  <2> QED BY <2>1, <2>3, <2>4, <2>5, <2>6 DEF CountersAgree, agentVars
<1>5. ASSUME NEW n, ToolAnswers(n)
      PROVE  TypeInv' /\ CountersAgree'
  <2> DEFINE log == <<Event("TOOL_RESULT", n)>>
  <2>1. n \in DOMAIN made /\ fate' = [fate EXCEPT ![n] = "answered"] /\ Recorded(log)
        /\ UNCHANGED <<agentVars, maxCalls, callCount, lastCall, repeats, made, executed, trajectory>>
    BY <1>5 DEF ToolAnswers, InFlight
  <2>2. log \in Seq(Logged)
    <3>1. n \in Nat
      BY <2>1 DEF TypeInv, SessionTypeOK
    <3>2. Event("TOOL_RESULT", n) \in Logged
      BY <3>1 DEF Event, Logged
    <3> QED BY <3>2
  <2>3. Count("TOOL_CALL", log) = 0 /\ Count("AGENT_ACTION", log) = 0
    BY CountOne DEF Event
  <2> HIDE DEF log
  <2>4. /\ events' \in Seq(Logged) /\ toolCallCount' \in Nat
        /\ \A type : Count(type, events') = Count(type, events) + Count(type, log)
    BY <2>1, <2>2, RecordedTypes
  <2>5. /\ fate' \in Seq({"running", "loop", "limit", "answered", "failed"})
        /\ Len(fate') = Len(fate)
    BY <2>1 DEF TypeInv, SessionTypeOK
  <2>6. TypeInv'
    BY <2>1, <2>4, <2>5 DEF TypeInv, SessionTypeOK, agentVars
  <2>7. Count("TOOL_CALL", events) \in Nat /\ Count("AGENT_ACTION", events) \in Nat
        /\ toolCallCount \in Nat
    BY PlacesAreFinite DEF TypeInv, SessionTypeOK
  <2>8. /\ Count("TOOL_CALL", events') = Count("TOOL_CALL", events)
        /\ Count("AGENT_ACTION", events') = Count("AGENT_ACTION", events)
        /\ toolCallCount' = toolCallCount
    BY <2>1, <2>3, <2>4, <2>7 DEF Recorded
  <2> QED BY <2>1, <2>6, <2>8 DEF CountersAgree, agentVars
<1>6. ASSUME NEW n, ToolThrows(n)
      PROVE  TypeInv' /\ CountersAgree'
  <2>1. n \in DOMAIN made /\ fate' = [fate EXCEPT ![n] = "failed"]
        /\ UNCHANGED <<agentVars, maxCalls, callCount, lastCall, repeats, made, executed, recorderVars>>
    BY <1>6 DEF ToolThrows, InFlight
  <2>2. /\ fate' \in Seq({"running", "loop", "limit", "answered", "failed"})
        /\ Len(fate') = Len(fate)
    BY <2>1 DEF TypeInv, SessionTypeOK
  <2>3. TypeInv'
    BY <2>1, <2>2 DEF TypeInv, SessionTypeOK, agentVars, recorderVars
  <2> QED BY <2>1, <2>3 DEF CountersAgree, agentVars, recorderVars
<1>7. CASE Finalize
  <2> DEFINE log == <<Event("TASK_END", 0)>>
  <2>1. Recorded(log) /\ UNCHANGED <<agentVars, guardVars>>
        /\ trajectory' = [events |-> events', totalToolCalls |-> toolCallCount']
    BY <1>7 DEF Finalize
  <2>2. Event("TASK_END", 0) \in Logged
    BY DEF Event, Logged
  <2>3. log \in Seq(Logged) /\ Count("TOOL_CALL", log) = 0 /\ Count("AGENT_ACTION", log) = 0
    BY <2>2, CountOne DEF Event
  <2> HIDE DEF log
  <2>4. /\ events' \in Seq(Logged) /\ toolCallCount' \in Nat
        /\ \A type : Count(type, events') = Count(type, events) + Count(type, log)
    BY <2>1, <2>3, RecordedTypes
  <2>5. TypeInv'
    BY <2>1, <2>4 DEF TypeInv, SessionTypeOK, agentVars, guardVars
  <2>6. Count("TOOL_CALL", events) \in Nat /\ Count("AGENT_ACTION", events) \in Nat
        /\ toolCallCount \in Nat
    BY PlacesAreFinite DEF TypeInv, SessionTypeOK
  <2>7. /\ Count("TOOL_CALL", events') = Count("TOOL_CALL", events)
        /\ Count("AGENT_ACTION", events') = Count("AGENT_ACTION", events)
        /\ toolCallCount' = toolCallCount
    BY <2>1, <2>3, <2>4, <2>6 DEF Recorded
  <2>8. trajectory'.events = events' /\ trajectory'.totalToolCalls = toolCallCount'
    BY <2>1
  <2> QED BY <2>1, <2>5, <2>7, <2>8 DEF CountersAgree, agentVars, guardVars
<1>8. CASE RejectsAtOnce \/ Catches \/ Succeeds \/ HttpCatches \/ HttpReturns \/ CustomEnds
  BY <1>2, <1>8 DEF RejectsAtOnce, Catches, Succeeds, HttpCatches, HttpReturns, CustomEnds
<1>9. CASE HttpPosts \/ HttpResponds
  BY <1>3, <1>9 DEF HttpPosts, HttpResponds
<1> QED BY <1>1, <1>4, <1>5, <1>6, <1>7, <1>8, <1>9 DEF SessionStep

-------------------------------------------------------------------------------
(***************************************************************************)
(* The trail of the ReferenceAgent.  It awaits each call before it makes   *)
(* the next, so that only the last call can be without an answer; and it   *)
(* ends only when no call is under way, so that nothing is recorded        *)
(* between a call and its result.                                          *)
(***************************************************************************)
\* How the agent's stage goes with the fates of its calls.
AwaitsInv ==
  /\ \A k \in DOMAIN made : k < Len(made) => fate[k] = "answered"
  /\ stage = 0 => made = <<>>
  /\ stage \notin 1 .. 3 => InFlight = {}
  /\ stage = 4 => \A k \in DOMAIN made : fate[k] = "answered"
  /\ outcome # "none" <=> stage = 5
  /\ (stage = 5 /\ outcome # "error") => \A k \in DOMAIN made : fate[k] = "answered"
  /\ trajectory # NoTrajectory => stage = 5

\* A call that was recorded has its result right behind it once it has an answer, and
\* is the last event until then.
Trailed(i) ==
  /\ events[i].call \in DOMAIN made
  /\ fate[events[i].call] = "answered" =>
       i < Len(events) /\ events[i + 1] = Event("TOOL_RESULT", events[i].call)
  /\ (fate[events[i].call] # "answered" /\ trajectory = NoTrajectory) => i = Len(events)

TrailInv ==
  agent = "reference" =>
    /\ AwaitsInv
    /\ \A i \in DOMAIN events : events[i].type = "TOOL_CALL" => Trailed(i)

\* Where the events are after some were recorded.
LEMMA Appended ==
  ASSUME TypeInv, NEW log \in Seq(Logged), Recorded(log)
  PROVE  /\ events' \in Seq(Logged) /\ DOMAIN events' = 1 .. Len(events')
         /\ Len(events) \in Nat /\ Len(log) \in Nat /\ DOMAIN events = 1 .. Len(events)
         /\ Len(events') = Len(events) + Len(log)
         /\ \A i \in 1 .. Len(events) : events'[i] = events[i]
         /\ \A i \in 1 .. Len(events') : i > Len(events) =>
              i - Len(events) \in 1 .. Len(log) /\ events'[i] = log[i - Len(events)]
<1>1. events \in Seq(Logged) /\ events' = events \o log
  BY DEF TypeInv, Recorded
<1> QED BY <1>1

\* The calls and their fates.
LEMMA FatesAre ==
  ASSUME TypeInv
  PROVE  /\ Len(made) \in Nat /\ DOMAIN made = 1 .. Len(made) /\ DOMAIN fate = 1 .. Len(made)
         /\ made \in Seq(AllCalls)
         /\ fate \in Seq({"running", "loop", "limit", "answered", "failed"})
         /\ Len(fate) = Len(made)
         /\ trajectory = NoTrajectory \/ trajectory # NoTrajectory
<1>1. /\ made \in Seq(AllCalls)
      /\ fate \in Seq({"running", "loop", "limit", "answered", "failed"})
      /\ Len(fate) = Len(made)
  BY DEF TypeInv, SessionTypeOK
<1> QED BY <1>1

\* The agent goes on when its calls have their answers.
LEMMA GoesOnTrail ==
  ASSUME TypeInv, TrailInv, agent = "reference", outcome = "none", trajectory = NoTrajectory,
         \A k \in DOMAIN made : fate[k] = "answered",
         NEW i \in 1 .. 4, NEW answered \in 0 .. 1, GoesOn(i, answered)
  PROVE  TrailInv'
<1>1. UNCHANGED <<agent, tools, handed, outcome, trajectory>>
  BY DEF GoesOn
<1>2. PICK n \in Nat :
        /\ StepEvents(n) \in Seq(Logged)
        /\ stepCount' = stepCount + n
        /\ \/ /\ stage' = 4 /\ UNCHANGED <<guardVars, toolCalls>>
              /\ Recorded(StepEvents(n))
           \/ \E c \in AllCalls :
                /\ stage' \in 1 .. 3 /\ toolCalls' = toolCalls + 1
                /\ Guarded(c) /\ CallEvents(c) \in Seq(Logged)
                /\ Recorded(StepEvents(n) \o CallEvents(c))
  BY GoesOnIs
<1>3. Len(StepEvents(n)) = n /\ \A k \in 1 .. n : StepEvents(n)[k].type = "AGENT_ACTION"
  BY <1>2 DEF StepEvents, Event
\* What is in the trail already stays in it.
<1>4. \A k \in DOMAIN events : events[k].type = "TOOL_CALL" =>
        /\ events[k].call \in DOMAIN made
        /\ k < Len(events) /\ events[k + 1] = Event("TOOL_RESULT", events[k].call)
  BY DEF TrailInv, Trailed
<1>5. CASE stage' = 4 /\ UNCHANGED guardVars /\ Recorded(StepEvents(n))
  <2>1. AwaitsInv'
    BY <1>1, <1>5 DEF AwaitsInv, InFlight, guardVars
  <2>2. ASSUME NEW k \in DOMAIN events', events'[k].type = "TOOL_CALL"
        PROVE  Trailed(k)'
    <3> DEFINE log == StepEvents(n)
    <3>1. /\ DOMAIN events' = 1 .. Len(events') /\ DOMAIN events = 1 .. Len(events)
          /\ Len(events) \in Nat /\ Len(events') = Len(events) + n
          /\ \A m \in 1 .. Len(events) : events'[m] = events[m]
          /\ \A m \in 1 .. Len(events') : m > Len(events) =>
               m - Len(events) \in 1 .. n /\ events'[m] = log[m - Len(events)]
      BY <1>2, <1>3, <1>5, Appended
    <3>2. k \in DOMAIN events
      BY <1>3, <2>2, <3>1
    <3>3. events[k].type = "TOOL_CALL" /\ k + 1 \in 1 .. Len(events)
      BY <1>4, <2>2, <3>1, <3>2
    <3>4. /\ events'[k] = events[k] /\ events'[k + 1] = Event("TOOL_RESULT", events[k].call)
          /\ events[k].call \in DOMAIN made /\ k < Len(events')
      BY <1>2, <1>4, <3>1, <3>2, <3>3
    <3>5. made' = made /\ fate' = fate
      BY <1>5 DEF guardVars
    <3> QED BY <3>4, <3>5 DEF Trailed
  <2> QED BY <2>1, <2>2 DEF TrailInv
<1>6. ASSUME NEW c \in AllCalls, stage' \in 1 .. 3, Guarded(c), CallEvents(c) \in Seq(Logged),
             Recorded(StepEvents(n) \o CallEvents(c))
      PROVE  TrailInv'
  <2> DEFINE log == StepEvents(n) \o CallEvents(c)
  <2>1. /\ log \in Seq(Logged) /\ Len(log) = n + 1
        /\ \A m \in 1 .. n : log[m] = StepEvents(n)[m]
        /\ log[n + 1] = Event("TOOL_CALL", Len(made) + 1)
    <3>1. Len(CallEvents(c)) = 1 /\ CallEvents(c)[1] = Event("TOOL_CALL", Len(made) + 1)
      BY DEF CallEvents
    <3> DEFINE s == StepEvents(n)
               t == CallEvents(c)
    <3>2. s \in Seq(Logged) /\ t \in Seq(Logged) /\ Len(s) = n /\ Len(t) = 1
          /\ t[1] = Event("TOOL_CALL", Len(made) + 1)
      BY <1>2, <1>3, <1>6, <3>1
    <3> HIDE DEF s, t
    <3>3. /\ s \o t \in Seq(Logged) /\ Len(s \o t) = n + 1
          /\ \A m \in 1 .. n : (s \o t)[m] = s[m]
          /\ (s \o t)[n + 1] = t[1]
      <4>1. /\ s \o t \in Seq(Logged) /\ Len(s \o t) = Len(s) + Len(t)
            /\ \A m \in 1 .. Len(s) : (s \o t)[m] = s[m]
            /\ \A m \in 1 .. Len(t) : (s \o t)[Len(s) + m] = t[m]
        BY <3>2, ConcatIs
      <4>2. 1 \in 1 .. Len(t) /\ Len(s) + 1 = n + 1
        BY <3>2
      <4> QED BY <3>2, <4>1, <4>2
    <3> QED BY <3>2, <3>3 DEF s, t
  <2>2. \A m \in 1 .. n : log[m].type = "AGENT_ACTION"
    BY <1>3, <2>1
  <2>r. Recorded(log)
    BY <1>6
  <2> HIDE DEF log
  <2>3. /\ DOMAIN events' = 1 .. Len(events') /\ DOMAIN events = 1 .. Len(events)
        /\ Len(events) \in Nat /\ Len(events') = Len(events) + n + 1
        /\ \A m \in 1 .. Len(events) : events'[m] = events[m]
        /\ \A m \in 1 .. Len(events') : m > Len(events) =>
             m - Len(events) \in 1 .. (n + 1) /\ events'[m] = log[m - Len(events)]
    <3>1. /\ DOMAIN events' = 1 .. Len(events') /\ DOMAIN events = 1 .. Len(events)
          /\ Len(events) \in Nat /\ Len(events') = Len(events) + Len(log)
          /\ \A m \in 1 .. Len(events) : events'[m] = events[m]
          /\ \A m \in 1 .. Len(events') : m > Len(events) =>
               m - Len(events) \in 1 .. Len(log) /\ events'[m] = log[m - Len(events)]
      BY <2>1, <2>r, Appended
    <3>2. Len(log) = n + 1 /\ Len(events) + (n + 1) = Len(events) + n + 1
      BY <2>1, <3>1
    <3> QED BY <3>1, <3>2
  <2>4. /\ Len(made) \in Nat /\ DOMAIN made = 1 .. Len(made)
        /\ Len(made') = Len(made) + 1 /\ DOMAIN made' = 1 .. (Len(made) + 1)
        /\ \A k \in 1 .. Len(made) : fate'[k] = "answered"
        /\ fate'[Len(made) + 1] # "answered"
    <3>1. made' = Append(made, c) /\ fate' = Append(fate, Verdict(c))
      BY <1>6 DEF Guarded
    <3>2. Verdict(c) # "answered" /\ Verdict(c) \in {"running", "loop", "limit"}
      BY DEF Verdict
    <3>3. /\ Len(made) \in Nat /\ DOMAIN made = 1 .. Len(made) /\ made \in Seq(AllCalls)
          /\ fate \in Seq({"running", "loop", "limit", "answered", "failed"})
          /\ Len(fate) = Len(made)
      BY FatesAre
    <3>4. Len(made') = Len(made) + 1 /\ DOMAIN made' = 1 .. (Len(made) + 1)
      BY <3>1, <3>3
    <3> DEFINE v == Verdict(c)
    <3>5. v \in {"running", "loop", "limit", "answered", "failed"}
      BY <3>2
    <3> HIDE DEF v
    <3>6. /\ \A k \in 1 .. Len(made) : fate'[k] = fate[k]
          /\ fate'[Len(made) + 1] = v
      BY <3>1, <3>3, <3>5 DEF v
    <3> QED BY <3>2, <3>3, <3>4, <3>6 DEF v
  <2>5. AwaitsInv'
    BY <1>1, <1>6, <2>4 DEF AwaitsInv
  <2>6. ASSUME NEW k \in DOMAIN events', events'[k].type = "TOOL_CALL"
        PROVE  Trailed(k)'
    <3>1. CASE k \in 1 .. Len(events)
      <4>1. events[k].type = "TOOL_CALL" /\ k + 1 \in 1 .. Len(events)
        BY <1>4, <2>3, <2>6, <3>1
      <4>2. /\ events'[k] = events[k] /\ events'[k + 1] = Event("TOOL_RESULT", events[k].call)
            /\ events[k].call \in 1 .. Len(made) /\ k < Len(events')
        BY <1>2, <1>4, <2>3, <2>4, <3>1, <4>1
      <4> QED BY <2>4, <4>2 DEF Trailed
    <3>2. CASE k \notin 1 .. Len(events)
      <4>1. k = Len(events') /\ events'[k] = Event("TOOL_CALL", Len(made) + 1)
        <5>1. k - Len(events) \in 1 .. (n + 1) /\ events'[k] = log[k - Len(events)]
          BY <2>3, <3>2
        <5>2. k - Len(events) \notin 1 .. n
          BY <2>2, <2>6, <5>1
        <5>3. k - Len(events) = n + 1
          BY <1>2, <5>1, <5>2
        <5>4. k = Len(events')
          <6>1. k \in Int /\ Len(events) \in Nat /\ Len(events') = Len(events) + n + 1
            BY <2>3
          <6> QED BY <5>3, <6>1
        <5> QED BY <2>1, <5>1, <5>3, <5>4
      <4>2. events'[k].call = Len(made) + 1
        BY <4>1 DEF Event
      <4> QED BY <2>4, <4>1, <4>2 DEF Trailed
    <3> QED BY <3>1, <3>2
  <2> QED BY <2>5, <2>6 DEF TrailInv
<1> QED BY <1>2, <1>5, <1>6

\* While a call is under way it is the last one, and nothing was recorded after it.
LEMMA AnswerTrail ==
  ASSUME TypeInv, TrailInv, agent = "reference", NEW n, ToolAnswers(n) \/ ToolThrows(n)
  PROVE  TrailInv' /\ trajectory' = trajectory /\ outcome' = outcome
<1>1. /\ n \in DOMAIN made /\ fate[n] \in {"running", "loop"} /\ made' = made
      /\ UNCHANGED <<agent, tools, handed, stage, outcome, toolCalls, stepCount, trajectory>>
      /\ \/ fate' = [fate EXCEPT ![n] = "answered"] /\ Recorded(<<Event("TOOL_RESULT", n)>>)
         \/ fate' = [fate EXCEPT ![n] = "failed"] /\ events' = events
  BY DEF ToolAnswers, ToolThrows, InFlight, agentVars, recorderVars
<1>2. /\ AwaitsInv /\ n = Len(made) /\ stage \in 1 .. 3 /\ trajectory = NoTrajectory
      /\ DOMAIN made = 1 .. Len(made) /\ DOMAIN fate = 1 .. Len(made) /\ DOMAIN fate' = 1 .. Len(made)
      /\ \A k \in DOMAIN made : k # n => k < n /\ fate'[k] = fate[k] /\ fate[k] = "answered"
  <2>1. AwaitsInv
    BY DEF TrailInv
  <2>2. Len(made) \in Nat /\ DOMAIN made = 1 .. Len(made) /\ DOMAIN fate = 1 .. Len(made)
        /\ fate \in Seq({"running", "loop", "limit", "answered", "failed"})
    BY FatesAre
  <2>3. n = Len(made)
    BY <1>1, <2>1, <2>2 DEF AwaitsInv
  <2>4. stage \in 1 .. 3
    BY <1>1, <2>1 DEF AwaitsInv, InFlight
  <2>5. trajectory = NoTrajectory
    BY <2>1, <2>4 DEF AwaitsInv
  <2>6. DOMAIN fate' = 1 .. Len(made) /\ \A k \in DOMAIN made : k # n => fate'[k] = fate[k]
    BY <1>1, <2>2
  <2>7. \A k \in DOMAIN made : k # n => k < n /\ fate[k] = "answered"
    BY <2>1, <2>2, <2>3 DEF AwaitsInv
  <2> QED BY <2>1, <2>2, <2>3, <2>4, <2>5, <2>6, <2>7
<1>3. AwaitsInv'
  BY <1>1, <1>2 DEF AwaitsInv
<1>4. CASE fate' = [fate EXCEPT ![n] = "answered"] /\ Recorded(<<Event("TOOL_RESULT", n)>>)
  <2> DEFINE log == <<Event("TOOL_RESULT", n)>>
  <2>1. log \in Seq(Logged) /\ Len(log) = 1 /\ log[1] = Event("TOOL_RESULT", n)
    <3>1. n \in Nat
      BY <1>2, FatesAre
    <3>2. Event("TOOL_RESULT", n) \in Logged
      BY <3>1 DEF Event, Logged
    <3> QED BY <3>2
  <2>r. Recorded(log)
    BY <1>4
  <2> HIDE DEF log
  <2>2. /\ DOMAIN events' = 1 .. Len(events') /\ DOMAIN events = 1 .. Len(events)
        /\ Len(events) \in Nat /\ Len(events') = Len(events) + 1
        /\ \A m \in 1 .. Len(events) : events'[m] = events[m]
        /\ events'[Len(events) + 1] = Event("TOOL_RESULT", n)
    <3>1. /\ DOMAIN events' = 1 .. Len(events') /\ DOMAIN events = 1 .. Len(events)
          /\ Len(events) \in Nat /\ Len(events') = Len(events) + 1
          /\ \A m \in 1 .. Len(events) : events'[m] = events[m]
          /\ \A m \in 1 .. Len(events') : m > Len(events) => events'[m] = log[m - Len(events)]
      BY <2>1, <2>r, Appended
    <3>2. Len(events) + 1 \in 1 .. Len(events') /\ Len(events) + 1 > Len(events)
          /\ Len(events) + 1 - Len(events) = 1
      BY <3>1
    <3> QED BY <2>1, <3>1, <3>2
  <2>3. ASSUME NEW i \in DOMAIN events', events'[i].type = "TOOL_CALL"
        PROVE  Trailed(i)'
    <3>1. i # Len(events) + 1
      BY <2>2, <2>3 DEF Event
    <3>2. i \in DOMAIN events /\ events'[i] = events[i] /\ i < Len(events')
      BY <2>2, <3>1
    <3>3. Trailed(i)
      BY <2>3, <3>2 DEF TrailInv
    <3>4. CASE events[i].call = n
      <4>1. fate[n] # "answered"
        BY <1>1
      <4>2. i = Len(events)
        BY <1>2, <3>3, <3>4, <4>1 DEF Trailed
      <4>3. events'[i + 1] = Event("TOOL_RESULT", n)
        BY <2>2, <4>2
      <4>4. fate'[n] = "answered" /\ n \in DOMAIN made'
        BY <1>1, <1>2, <1>4
      <4>5. events'[i].call = n
        BY <3>2, <3>4
      <4> QED BY <3>2, <4>3, <4>4, <4>5 DEF Trailed
    <3>5. CASE events[i].call # n
      <4>1. fate[events[i].call] = "answered" /\ events[i].call \in DOMAIN made
        BY <1>2, <3>3, <3>5 DEF Trailed
      <4>2. i + 1 \in 1 .. Len(events) /\ events[i + 1] = Event("TOOL_RESULT", events[i].call)
        BY <2>2, <3>2, <3>3, <4>1 DEF Trailed
      <4>3. events'[i + 1] = events[i + 1] /\ fate'[events[i].call] = "answered"
        BY <1>2, <2>2, <3>5, <4>1, <4>2
      <4> QED BY <1>1, <3>2, <4>1, <4>2, <4>3 DEF Trailed
    <3> QED BY <3>4, <3>5
  <2> QED BY <1>1, <1>3, <2>3 DEF TrailInv
<1>5. CASE fate' = [fate EXCEPT ![n] = "failed"] /\ events' = events
  <2>1. fate'[n] # "answered" /\ fate[n] # "answered"
    BY <1>1, <1>2, <1>5
  <2>2. ASSUME NEW i \in DOMAIN events, events[i].type = "TOOL_CALL"
        PROVE  Trailed(i)'
    <3>1. Trailed(i)
      BY <2>2 DEF TrailInv
    <3> QED BY <1>1, <1>2, <1>5, <2>1, <3>1 DEF Trailed
  <2> QED BY <1>1, <1>3, <1>5, <2>2 DEF TrailInv
<1> QED BY <1>1, <1>4, <1>5

\* The agent ends when its calls are answered, or the last one threw.
LEMMA EndsTrail ==
  ASSUME TypeInv, TrailInv, agent = "reference", stage # 5, NEW how, Ends(how), how # "none",
         InFlight = {}, how # "error" => \A k \in DOMAIN made : fate[k] = "answered"
  PROVE  TrailInv'
<1>1. /\ outcome' = how /\ stage' = 5 /\ agent' = agent /\ made' = made /\ fate' = fate
      /\ events' = events /\ trajectory' = trajectory
  BY DEF Ends, guardVars, recorderVars
<1>2. AwaitsInv'
  BY <1>1 DEF TrailInv, AwaitsInv, InFlight
<1> QED BY <1>1, <1>2 DEF TrailInv, Trailed

\* The end is recorded behind the last result, and the trajectory is what was recorded.
LEMMA FinalizeTrail ==
  ASSUME TypeInv, TrailInv, agent = "reference", Finalize
  PROVE  TrailInv' /\ AuditTrail'
<1> DEFINE log == <<Event("TASK_END", 0)>>
<1>1. /\ outcome # "none" /\ trajectory = NoTrajectory /\ Recorded(log)
      /\ trajectory' = [events |-> events', totalToolCalls |-> toolCallCount']
      /\ UNCHANGED <<agent, stage, outcome, made, fate>>
  BY DEF Finalize, agentVars, guardVars
<1>2. log \in Seq(Logged) /\ Len(log) = 1 /\ log[1] = Event("TASK_END", 0)
  <2>1. Event("TASK_END", 0) \in Logged
    BY DEF Event, Logged
  <2> QED BY <2>1
<1> HIDE DEF log
<1>3. /\ DOMAIN events' = 1 .. Len(events') /\ DOMAIN events = 1 .. Len(events)
      /\ Len(events) \in Nat /\ Len(events') = Len(events) + 1
      /\ \A m \in 1 .. Len(events) : events'[m] = events[m]
      /\ events'[Len(events) + 1] = Event("TASK_END", 0)
  <2>1. /\ DOMAIN events' = 1 .. Len(events') /\ DOMAIN events = 1 .. Len(events)
        /\ Len(events) \in Nat /\ Len(events') = Len(events) + 1
        /\ \A m \in 1 .. Len(events) : events'[m] = events[m]
        /\ \A m \in 1 .. Len(events') : m > Len(events) => events'[m] = log[m - Len(events)]
    BY <1>1, <1>2, Appended
  <2>2. Len(events) + 1 \in 1 .. Len(events') /\ Len(events) + 1 > Len(events)
        /\ Len(events) + 1 - Len(events) = 1
    BY <2>1
  <2> QED BY <1>2, <2>1, <2>2
<1>4. trajectory' # NoTrajectory
  <2>1. trajectory'.events = events' /\ NoTrajectory.events = <<>>
    BY <1>1 DEF NoTrajectory
  <2>2. events' # <<>>
    BY <1>3
  <2> QED BY <2>1, <2>2
<1>5. AwaitsInv /\ stage = 5
  BY <1>1 DEF TrailInv, AwaitsInv
<1>6. AwaitsInv'
  BY <1>1, <1>5 DEF AwaitsInv, InFlight
<1>7. ASSUME NEW i \in DOMAIN events', events'[i].type = "TOOL_CALL"
      PROVE  /\ Trailed(i)'
             /\ \/ events'[i + 1] = Event("TOOL_RESULT", events'[i].call)
                \/ outcome = "error" /\ i + 1 = Len(events')
  <2>1. i # Len(events) + 1
    BY <1>3, <1>7 DEF Event
  <2>2. i \in DOMAIN events /\ events'[i] = events[i] /\ i < Len(events')
    BY <1>3, <2>1
  <2>3. Trailed(i)
    BY <1>7, <2>2 DEF TrailInv
  <2>4. CASE fate[events[i].call] = "answered"
    <3>1. i + 1 \in 1 .. Len(events) /\ events[i + 1] = Event("TOOL_RESULT", events[i].call)
      BY <1>3, <2>2, <2>3, <2>4 DEF Trailed
    <3>2. events'[i + 1] = events[i + 1]
      BY <1>3, <3>1
    <3> QED BY <1>1, <2>2, <2>3, <2>4, <3>1, <3>2 DEF Trailed
  <2>5. CASE fate[events[i].call] # "answered"
    <3>1. i = Len(events) /\ events[i].call \in DOMAIN made
      BY <1>1, <2>3, <2>5 DEF Trailed
    <3>2. outcome = "error"
      BY <1>5, <2>5, <3>1 DEF AwaitsInv
    <3>3. i + 1 = Len(events')
      BY <1>3, <3>1
    <3> QED BY <1>1, <1>4, <2>2, <2>5, <3>1, <3>2, <3>3 DEF Trailed
  <2> QED BY <2>4, <2>5
<1>8. TrailInv'
  BY <1>6, <1>7 DEF TrailInv
<1>9. AuditTrail'
  <2>1. trajectory'.events = events'
    BY <1>1
  <2> QED BY <1>1, <1>7, <2>1 DEF AuditTrail
<1> QED BY <1>8, <1>9

LEMMA TrailKept ==
  ASSUME TypeInv, TrailInv, AuditTrail, SessionStep \/ Finalize
  PROVE  TrailInv' /\ AuditTrail'
<1>1. agent' = agent
  BY DEF SessionStep, Finalize, Starts, RejectsAtOnce, Continues, Catches, Succeeds, HttpPosts,
         HttpResponds, HttpCatches, HttpReturns, HttpMoves, CustomEnds, CustomCall, Ends, GoesOn,
         ToolAnswers, ToolThrows, agentVars
<1>2. CASE agent # "reference"
  BY <1>1, <1>2 DEF TrailInv, AuditTrail
<1>3. CASE agent = "reference"
  <2>1. CASE Finalize
    BY <1>3, <2>1, FinalizeTrail
  <2>2. ASSUME NEW n, ToolAnswers(n) \/ ToolThrows(n)
        PROVE  TrailInv' /\ AuditTrail'
    BY <1>1, <1>3, <2>2, AnswerTrail DEF AuditTrail
  <2>3. AwaitsInv
    BY <1>3 DEF TrailInv
  \* What else it does it does before its end, and the trajectory is not there yet.
  <2>4. ASSUME stage # 5
        PROVE  outcome = "none" /\ trajectory = NoTrajectory
    BY <2>3, <2>4 DEF AwaitsInv
  <2>5. ASSUME TrailInv', stage # 5, trajectory' = trajectory
        PROVE  TrailInv' /\ AuditTrail'
    BY <2>4, <2>5 DEF AuditTrail
  <2>6. CASE Starts
    <3>1. \A k \in DOMAIN made : fate[k] = "answered"
      BY <2>3, <2>6, EmptySeq DEF Starts, AwaitsInv
    <3>2. stage # 5 /\ GoesOn(1, 0) /\ trajectory' = trajectory
      BY <2>6 DEF Starts, GoesOn
    <3> QED BY <1>3, <2>4, <2>5, <3>1, <3>2, GoesOnTrail
  <2>7. CASE Continues
    <3>1. stage \in 1 .. 3 /\ fate[Len(made)] = "answered" /\ GoesOn(stage + 1, 1)
          /\ trajectory' = trajectory
      BY <2>7 DEF Continues, Waits, GoesOn
    <3>2. \A k \in DOMAIN made : k < Len(made) \/ k = Len(made)
      BY FatesAre
    <3>3. \A k \in DOMAIN made : fate[k] = "answered"
      BY <2>3, <3>1, <3>2 DEF AwaitsInv
    <3>4. stage # 5 /\ stage + 1 \in 1 .. 4
      BY <3>1
    <3> QED BY <1>3, <2>4, <2>5, <3>1, <3>3, <3>4, GoesOnTrail
  <2>8. CASE Catches
    <3>1. Ends("error") /\ stage # 5 /\ trajectory' = trajectory
      BY <2>8 DEF Catches, Waits, Ends, recorderVars
    <3>2. InFlight = {}
      <4>1. CASE stage = 4
        BY <2>3, <4>1 DEF AwaitsInv
      <4>2. CASE fate[Len(made)] \in {"limit", "failed"}
        <5>1. \A k \in DOMAIN made : k < Len(made) \/ k = Len(made)
          BY FatesAre
        <5>2. \A k \in DOMAIN made : fate[k] \notin {"running", "loop"}
          BY <2>3, <4>2, <5>1 DEF AwaitsInv
        <5> QED BY <5>2 DEF InFlight
      <4> QED BY <2>8, <4>1, <4>2 DEF Catches
    <3> QED BY <1>3, <2>5, <3>1, <3>2, EndsTrail
  <2>9. CASE Succeeds
    <3>1. Ends("success") /\ stage = 4 /\ trajectory' = trajectory
      BY <2>9 DEF Succeeds, Ends, recorderVars
    <3>2. InFlight = {} /\ \A k \in DOMAIN made : fate[k] = "answered"
      BY <2>3, <3>1 DEF AwaitsInv
    <3> QED BY <1>3, <2>5, <3>1, <3>2, EndsTrail
  <2>10. CASE RejectsAtOnce
    <3>1. Ends("rejected") /\ stage = 0 /\ trajectory' = trajectory
      BY <2>10 DEF RejectsAtOnce, Ends, recorderVars
    <3>2. InFlight = {} /\ \A k \in DOMAIN made : fate[k] = "answered"
      BY <2>3, <3>1, EmptySeq DEF AwaitsInv
    <3> QED BY <1>3, <2>5, <3>1, <3>2, EndsTrail
  <2>11. CASE HttpPosts \/ HttpResponds \/ HttpCatches \/ HttpReturns \/ CustomEnds
              \/ \E c \in CustomCalls : CustomCall(c)
    BY <1>3, <2>11
       DEF HttpPosts, HttpResponds, HttpCatches, HttpReturns, HttpMoves, CustomEnds, CustomCall
  <2> QED BY <2>1, <2>2, <2>6, <2>7, <2>8, <2>9, <2>10, <2>11 DEF SessionStep
<1> QED BY <1>2, <1>3

LEMMA TrailInitially == SessionInit => TrailInv /\ AuditTrail
<1> SUFFICES ASSUME SessionInit PROVE TrailInv /\ AuditTrail
  OBVIOUS
<1>1. /\ made = <<>> /\ stage = 0 /\ outcome = "none" /\ trajectory = NoTrajectory
      /\ events = <<Event("TASK_START", 0)>>
  BY DEF SessionInit
<1>2. AwaitsInv
  BY <1>1, EmptySeq DEF AwaitsInv, InFlight
<1>3. DOMAIN events = {1} /\ events[1].type = "TASK_START"
  BY <1>1 DEF Event
<1> QED BY <1>1, <1>2, <1>3 DEF TrailInv, AuditTrail

-------------------------------------------------------------------------------
(***************************************************************************)
(* Replays.  What InOrder puts together, by induction.                     *)
(***************************************************************************)
\* Every set of naturals that is not empty has a least element.
LEMMA LeastOf ==
  ASSUME NEW T, T \subseteq Nat, T # {}
  PROVE  \E m \in T : \A k \in T : m <= k
<1> DEFINE R == {p \in Nat \X Nat : p[1] < p[2]}
<1>1. IsWellFoundedOn(R, Nat)
  BY NatLessThanWellFounded, Zenon DEF OpToRel
<1>2. PICK m \in T : \A k \in T : ~(<<k, m>> \in R)
  BY <1>1, WFMin
<1>3. ASSUME NEW k \in T PROVE m <= k
  <2>1. k \in Nat /\ m \in Nat
    OBVIOUS
  <2>2. ~(<<k, m>> \in R)
    BY <1>2
  <2>3. ~(k < m)
    BY <2>1, <2>2
  <2> QED BY <2>1, <2>3
<1> QED BY <1>3

\* A set with 0 and all successors has all naturals.
LEMMA SetInduction ==
  ASSUME NEW S, 0 \in S, \A n \in Nat : n \in S => n + 1 \in S
  PROVE  Nat \subseteq S
<1> SUFFICES ASSUME Nat \ S # {} PROVE FALSE
  OBVIOUS
<1>1. PICK m \in Nat \ S : \A k \in Nat \ S : m <= k
  BY LeastOf
<1>2. m # 0 /\ m - 1 \in Nat /\ m - 1 \notin Nat \ S
  BY <1>1
<1> QED BY <1>1, <1>2

\* The equation of InOrder.
LEMMA InOrderDef ==
  ASSUME NEW f
  PROVE  /\ InOrder(f)[0] = <<>>
         /\ \A n \in Nat \ {0} :
              InOrder(f)[n] = IF n \in DOMAIN f THEN Append(InOrder(f)[n - 1], f[n])
                              ELSE InOrder(f)[n - 1]
<1> DEFINE With(x, n) == IF n \in DOMAIN f THEN Append(x, f[n]) ELSE x
<1> HIDE DEF With
<1> DEFINE Is(g, m) == \A n \in 0 .. m : g[n] = IF n = 0 THEN <<>> ELSE With(g[n - 1], n)
           S == {m \in Nat : \E g : Is(g, m)}
<1>1. Nat \subseteq S
  <2>1. 0 \in S
    <3>1. Is([n \in Nat |-> <<>>], 0)
      OBVIOUS
    <3> QED BY <3>1
  <2>2. ASSUME NEW m \in Nat, m \in S PROVE m + 1 \in S
    <3>1. PICK g : Is(g, m)
      BY <2>2
    <3> DEFINE h == [n \in Nat |-> IF n = m + 1 THEN With(g[m], m + 1) ELSE g[n]]
    <3>2. \A n \in 0 .. m : h[n] = g[n]
      OBVIOUS
    <3>3. h[m + 1] = With(g[m], m + 1)
      OBVIOUS
    <3> HIDE DEF h
    <3>4. ASSUME NEW n \in 0 .. (m + 1) PROVE h[n] = IF n = 0 THEN <<>> ELSE With(h[n - 1], n)
      <4>1. CASE n = m + 1
        BY <4>1, <3>2, <3>3
      <4>2. CASE n # m + 1
        <5>1. n \in 0 .. m /\ (n # 0 => n - 1 \in 0 .. m)
          BY <4>2
        <5> QED BY <5>1, <3>1, <3>2
      <4> QED BY <4>1, <4>2
    <3>5. Is(h, m + 1)
      BY <3>4
    <3> QED BY <3>5
  <2> QED BY <2>1, <2>2, SetInduction
<1> DEFINE G(m) == CHOOSE g : Is(g, m)
           r == [n \in Nat |-> G(n)[n]]
<1>2. \A m \in Nat : Is(G(m), m)
  BY <1>1
<1> HIDE DEF G
<1>3. ASSUME NEW m \in Nat PROVE \A n \in 0 .. m : G(m)[n] = G(n)[n]
  <2> DEFINE A == {n \in Nat : n <= m => \A k \in n .. m : G(n)[n] = G(k)[n]}
  <2>1. 0 \in A
    <3>1. \A k \in Nat : G(k)[0] = <<>>
      BY <1>2
    <3> QED BY <3>1
  <2>2. ASSUME NEW n \in Nat, n \in A PROVE n + 1 \in A
    <3> SUFFICES ASSUME n + 1 <= m, NEW k \in (n + 1) .. m
                 PROVE  G(n + 1)[n + 1] = G(k)[n + 1]
      OBVIOUS
    <3>1. G(k)[n] = G(n)[n] /\ G(n + 1)[n] = G(n)[n]
      <4>1. \A j \in n .. m : G(n)[n] = G(j)[n]
        BY <2>2
      <4> QED BY <4>1
    <3>2. G(k)[n + 1] = With(G(k)[n], n + 1)
      <4>1. Is(G(k), k) /\ n + 1 \in 0 .. k
        BY <1>2
      <4> QED BY <4>1
    <3>3. G(n + 1)[n + 1] = With(G(n + 1)[n], n + 1)
      <4>1. Is(G(n + 1), n + 1) /\ n + 1 \in 0 .. (n + 1)
        BY <1>2
      <4> QED BY <4>1
    <3> QED BY <3>1, <3>2, <3>3
  <2> HIDE DEF A
  <2>3. Nat \subseteq A
    BY <2>1, <2>2, SetInduction
  <2> QED BY <2>3 DEF A
<1>4. \A n \in Nat : r[n] = IF n = 0 THEN <<>> ELSE With(r[n - 1], n)
  <2> SUFFICES ASSUME NEW n \in Nat PROVE r[n] = IF n = 0 THEN <<>> ELSE With(r[n - 1], n)
    OBVIOUS
  <2>1. r[n] = G(n)[n] /\ (n # 0 => r[n - 1] = G(n - 1)[n - 1])
    OBVIOUS
  <2>2. Is(G(n), n) /\ n \in 0 .. n /\ (n # 0 => n - 1 \in 0 .. n)
    BY <1>2
  <2>3. n # 0 => G(n)[n - 1] = G(n - 1)[n - 1]
    BY <1>3, <2>2
  <2> QED BY <2>1, <2>2, <2>3
<1>5. r = [n \in Nat |-> IF n = 0 THEN <<>> ELSE With(r[n - 1], n)]
  <2> DEFINE h == [n \in Nat |-> IF n = 0 THEN <<>> ELSE With(r[n - 1], n)]
  <2>1. \A n \in Nat : r[n] = h[n]
    BY <1>4
  <2> QED BY <2>1
<1> HIDE DEF r
<1>6. \E g : g = [n \in Nat |-> IF n = 0 THEN <<>>
                               ELSE IF n \in DOMAIN f THEN Append(g[n - 1], f[n]) ELSE g[n - 1]]
  BY <1>5, Zenon DEF With
<1>7. InOrder(f) = [n \in Nat |-> IF n = 0 THEN <<>>
                                 ELSE IF n \in DOMAIN f THEN Append(InOrder(f)[n - 1], f[n])
                                 ELSE InOrder(f)[n - 1]]
  BY <1>6, Zenon DEF InOrder
<1> QED BY <1>7

\* Functions that agree up to N give the same up to N.
LEMMA InOrderAgrees ==
  ASSUME NEW N \in Nat, NEW f, NEW g,
         \A n \in 1 .. N : n \in DOMAIN f <=> n \in DOMAIN g,
         \A n \in 1 .. N : n \in DOMAIN f => f[n] = g[n]
  PROVE  InOrder(f)[N] = InOrder(g)[N]
<1> DEFINE A == {n \in Nat : n <= N => InOrder(f)[n] = InOrder(g)[n]}
<1>1. 0 \in A
  BY InOrderDef
<1>2. ASSUME NEW n \in Nat, n \in A PROVE n + 1 \in A
  <2> SUFFICES ASSUME n + 1 <= N PROVE InOrder(f)[n + 1] = InOrder(g)[n + 1]
    OBVIOUS
  <2>1. n + 1 \in Nat \ {0} /\ (n + 1) - 1 = n /\ n + 1 \in 1 .. N
    OBVIOUS
  <2>2. InOrder(f)[n] = InOrder(g)[n]
    BY <1>2
  <2> DEFINE m == n + 1
  <2>3. InOrder(f)[m] = IF m \in DOMAIN f THEN Append(InOrder(f)[n], f[m]) ELSE InOrder(f)[n]
    BY <2>1, InOrderDef
  <2>4. InOrder(g)[m] = IF m \in DOMAIN g THEN Append(InOrder(g)[n], g[m]) ELSE InOrder(g)[n]
    BY <2>1, InOrderDef
  <2> HIDE DEF m
  <2>5. (m \in DOMAIN f <=> m \in DOMAIN g) /\ (m \in DOMAIN f => f[m] = g[m])
    BY <2>1 DEF m
  <2> QED BY <2>2, <2>3, <2>4, <2>5 DEF m
<1> HIDE DEF A
<1>3. Nat \subseteq A
  BY <1>1, <1>2, SetInduction
<1> QED BY <1>3 DEF A

\* Where f has no argument nothing is added.
LEMMA InOrderSkips ==
  ASSUME NEW N \in Nat, NEW k \in Nat, NEW f, \A n \in (N + 1) .. (N + k) : n \notin DOMAIN f
  PROVE  InOrder(f)[N + k] = InOrder(f)[N]
<1> DEFINE A == {n \in Nat : n <= k => InOrder(f)[N + n] = InOrder(f)[N]}
<1>1. 0 \in A
  OBVIOUS
<1>2. ASSUME NEW n \in Nat, n \in A PROVE n + 1 \in A
  <2> SUFFICES ASSUME n + 1 <= k PROVE InOrder(f)[N + (n + 1)] = InOrder(f)[N]
    OBVIOUS
  <2>1. /\ N + (n + 1) \in Nat \ {0} /\ N + (n + 1) - 1 = N + n
        /\ N + (n + 1) \in (N + 1) .. (N + k)
    OBVIOUS
  <2>2. InOrder(f)[N + (n + 1)] = InOrder(f)[N + n]
    BY <2>1, InOrderDef
  <2>3. InOrder(f)[N + n] = InOrder(f)[N]
    BY <1>2
  <2> QED BY <2>2, <2>3
<1> HIDE DEF A
<1>3. Nat \subseteq A
  BY <1>1, <1>2, SetInduction
<1> QED BY <1>3 DEF A

\* What a replay of a log runs, and what was given, as functions of the calls.
PlayedBy(log, calls) ==
  [i \in {j \in DOMAIN log : log[j].type = "TOOL_CALL" /\ OfTerminal(calls[log[j].call])} |->
     calls[log[i].call]]

OrderedIn(calls) == [n \in {k \in DOMAIN calls : OfTerminal(calls[k])} |-> calls[n]]

\* A log has the calls in their order.
Plays(log, calls) ==
  /\ \A i \in DOMAIN log : log[i].type = "TOOL_CALL" => log[i].call \in DOMAIN calls
  /\ InOrder(PlayedBy(log, calls))[Len(log)] = InOrder(OrderedIn(calls))[Len(calls)]

\* It still has them when something else than calls is added.
LEMMA PlaysOn ==
  ASSUME NEW calls \in Seq(AllCalls), NEW log \in Seq(Logged), NEW quiet \in Seq(Logged),
         Plays(log, calls), \A i \in DOMAIN quiet : quiet[i].type # "TOOL_CALL"
  PROVE  Plays(log \o quiet, calls)
<1> DEFINE N == Len(log)
           k == Len(quiet)
           both == log \o quiet
           f == PlayedBy(log, calls)
           g == PlayedBy(both, calls)
<1>1. /\ N \in Nat /\ DOMAIN log = 1 .. N /\ k \in Nat /\ DOMAIN quiet = 1 .. k
      /\ Len(both) = N + k /\ DOMAIN both = 1 .. (N + k)
      /\ \A i \in 1 .. N : both[i] = log[i]
      /\ \A i \in 1 .. k : both[N + i] = quiet[i]
  BY ConcatIs
<1>2. \A i \in (N + 1) .. (N + k) : both[i].type # "TOOL_CALL"
  <2> SUFFICES ASSUME NEW i \in (N + 1) .. (N + k) PROVE both[i].type # "TOOL_CALL"
    OBVIOUS
  <2>1. i - N \in 1 .. k /\ N + (i - N) = i
    BY <1>1
  <2> QED BY <1>1, <2>1
<1> HIDE DEF N, k, both
<1>3. \A i \in DOMAIN both : both[i].type = "TOOL_CALL" => both[i].call \in DOMAIN calls
  BY <1>1, <1>2 DEF Plays
<1>4. \A n \in (N + 1) .. (N + k) : n \notin DOMAIN g
  BY <1>1, <1>2 DEF PlayedBy
<1>5. \A n \in 1 .. N : (n \in DOMAIN f <=> n \in DOMAIN g) /\ (n \in DOMAIN f => f[n] = g[n])
  BY <1>1 DEF PlayedBy
<1> HIDE DEF f, g
<1>6. InOrder(g)[N + k] = InOrder(g)[N]
  BY <1>1, <1>4, InOrderSkips
<1>7. InOrder(f)[N] = InOrder(g)[N]
  BY <1>1, <1>5, InOrderAgrees
<1>8. InOrder(f)[N] = InOrder(OrderedIn(calls))[Len(calls)]
  BY DEF Plays, f, N
<1> QED BY <1>1, <1>3, <1>6, <1>7, <1>8 DEF Plays, g, both

\* And it has a new one that is recorded.
LEMMA PlaysCall ==
  ASSUME NEW calls \in Seq(AllCalls), NEW c \in AllCalls, NEW log \in Seq(Logged),
         Plays(log, calls)
  PROVE  Plays(log \o <<Event("TOOL_CALL", Len(calls) + 1)>>, Append(calls, c))
<1> DEFINE N == Len(log)
           K == Len(calls)
           e == Event("TOOL_CALL", K + 1)
           both == log \o <<e>>
           more == Append(calls, c)
           f == PlayedBy(log, calls)
           g == PlayedBy(both, more)
           p == OrderedIn(calls)
           q == OrderedIn(more)
<1>1. /\ K \in Nat /\ DOMAIN calls = 1 .. K /\ DOMAIN more = 1 .. (K + 1) /\ Len(more) = K + 1
      /\ \A n \in 1 .. K : more[n] = calls[n]
      /\ more[K + 1] = c
  OBVIOUS
<1>2. e \in Logged /\ e.type = "TOOL_CALL" /\ e.call = K + 1
  BY <1>1 DEF Event, Logged
<1> HIDE DEF e, K
<1>3. <<e>> \in Seq(Logged) /\ Len(<<e>>) = 1 /\ <<e>>[1] = e
  BY <1>2
<1>4. /\ N \in Nat /\ DOMAIN log = 1 .. N
      /\ Len(both) = N + 1 /\ DOMAIN both = 1 .. (N + 1)
      /\ \A i \in 1 .. N : both[i] = log[i]
      /\ both[N + 1] = e
  <2>1. /\ N \in Nat /\ DOMAIN log = 1 .. N
        /\ Len(both) = N + Len(<<e>>) /\ DOMAIN both = 1 .. (N + Len(<<e>>))
        /\ \A i \in 1 .. N : both[i] = log[i]
        /\ \A i \in 1 .. Len(<<e>>) : both[N + i] = <<e>>[i]
    BY <1>3, ConcatIs
  <2>2. 1 \in 1 .. Len(<<e>>)
    BY <1>3
  <2> QED BY <1>3, <2>1, <2>2
<1> HIDE DEF N, both, more
<1>5. \A i \in 1 .. N : log[i].type = "TOOL_CALL" =>
        log[i].call \in 1 .. K /\ more[log[i].call] = calls[log[i].call]
  BY <1>1, <1>4 DEF Plays
<1>6. \A i \in DOMAIN both : both[i].type = "TOOL_CALL" => both[i].call \in DOMAIN more
  BY <1>1, <1>2, <1>4, <1>5
<1>7. \A n \in 1 .. N : (n \in DOMAIN f <=> n \in DOMAIN g) /\ (n \in DOMAIN f => f[n] = g[n])
  BY <1>4, <1>5 DEF PlayedBy
<1>8. \A n \in 1 .. K : (n \in DOMAIN p <=> n \in DOMAIN q) /\ (n \in DOMAIN p => p[n] = q[n])
  BY <1>1 DEF OrderedIn
<1>9. /\ N + 1 \in DOMAIN g <=> OfTerminal(c)
      /\ OfTerminal(c) => g[N + 1] = c
      /\ K + 1 \in DOMAIN q <=> OfTerminal(c)
      /\ OfTerminal(c) => q[K + 1] = c
  BY <1>1, <1>2, <1>4 DEF PlayedBy, OrderedIn
<1> HIDE DEF f, g, p, q
<1>10. InOrder(f)[N] = InOrder(g)[N] /\ InOrder(p)[K] = InOrder(q)[K]
  BY <1>1, <1>4, <1>7, <1>8, InOrderAgrees
<1>11. InOrder(f)[N] = InOrder(p)[K]
  BY DEF Plays, f, p, N, K
<1>12. InOrder(g)[N + 1] = IF N + 1 \in DOMAIN g THEN Append(InOrder(g)[N], g[N + 1]) ELSE InOrder(g)[N]
  <2>1. N + 1 \in Nat \ {0} /\ (N + 1) - 1 = N
    BY <1>4
  <2> QED BY <2>1, InOrderDef
<1>13. InOrder(q)[K + 1] = IF K + 1 \in DOMAIN q THEN Append(InOrder(q)[K], q[K + 1]) ELSE InOrder(q)[K]
  <2>1. K + 1 \in Nat \ {0} /\ (K + 1) - 1 = K
    BY <1>1
  <2> QED BY <2>1, InOrderDef
<1>14. InOrder(g)[N + 1] = InOrder(q)[K + 1]
  BY <1>9, <1>10, <1>11, <1>12, <1>13
<1> QED BY <1>1, <1>4, <1>6, <1>14 DEF Plays, g, q, both, more, e, K

(***************************************************************************)
(* The log has the calls in their order at all times, since each is        *)
(* recorded in the turn in which it is made; and nothing is called after   *)
(* the agent's end, so that the trajectory stays true of the session.      *)
(***************************************************************************)
ReplayInv ==
  /\ Plays(events, made)
  /\ outcome # "none" <=> stage = 5
  /\ trajectory # NoTrajectory => stage = 5
  /\ ReplayKeepsOrder

LEMMA ReplayIs == \A log : Replayed(log) = InOrder(PlayedBy(log, made))[Len(log)]
  BY DEF Replayed, PlayedBy

LEMMA GivenIs == Given = InOrder(OrderedIn(made))[Len(made)]
  BY DEF Given, OrderedIn

\* Recording something else, and recording a call that is made.
LEMMA QuietPlays ==
  ASSUME TypeInv, Plays(events, made), NEW log \in Seq(Logged), Recorded(log), made' = made,
         \A i \in DOMAIN log : log[i].type # "TOOL_CALL"
  PROVE  Plays(events', made')
<1>1. events' = events \o log /\ events \in Seq(Logged) /\ made \in Seq(AllCalls)
  BY FatesAre DEF Recorded, TypeInv
<1>2. Plays(events \o log, made)
  BY <1>1, PlaysOn
<1> QED BY <1>1, <1>2

LEMMA CallPlays ==
  ASSUME TypeInv, Plays(events, made), NEW quiet \in Seq(Logged), NEW c \in AllCalls,
         \A i \in DOMAIN quiet : quiet[i].type # "TOOL_CALL",
         Recorded(quiet \o CallEvents(c)) \/ (quiet = <<>> /\ Recorded(CallEvents(c))),
         Guarded(c)
  PROVE  Plays(events', made')
<1> DEFINE log == CallEvents(c)
<1>1. events \in Seq(Logged) /\ made \in Seq(AllCalls) /\ log \in Seq(Logged) /\ made' = Append(made, c)
  BY FatesAre, GuardedTypes DEF Guarded, TypeInv
<1>2. Plays(events \o quiet, made) /\ events \o quiet \in Seq(Logged)
  BY <1>1, PlaysOn, ConcatIs
<1>3. Plays((events \o quiet) \o log, Append(made, c))
  BY <1>1, <1>2, PlaysCall DEF CallEvents
<1> HIDE DEF log
<1>4. events' = (events \o quiet) \o log
  <2>1. CASE Recorded(quiet \o log)
    <3>1. events' = events \o (quiet \o log)
      BY <2>1 DEF Recorded
    <3>2. events \in Seq(Logged) /\ quiet \in Seq(Logged) /\ log \in Seq(Logged)
      BY <1>1
    <3>3. (events \o quiet) \o log = events \o (quiet \o log)
      BY <3>2
    <3> QED BY <3>1, <3>3
  <2>2. CASE quiet = <<>> /\ Recorded(log)
    <3>1. events' = events \o log /\ quiet = <<>>
      BY <2>2 DEF Recorded
    <3>2. events \o quiet = events
      BY <1>1, <3>1, ConcatEmptySeq
    <3> QED BY <3>1, <3>2
  <2> QED BY <2>1, <2>2 DEF log
<1> QED BY <1>1, <1>3, <1>4

LEMMA ReplayKept ==
  ASSUME TypeInv, ReplayInv, SessionStep \/ Finalize
  PROVE  ReplayInv'
\* While the agent is at work there is no trajectory.
<1>1. ASSUME stage # 5, Plays(events', made'), outcome' # "none" <=> stage' = 5,
             trajectory' = trajectory
      PROVE  ReplayInv'
  BY <1>1 DEF ReplayInv, ReplayKeepsOrder
<1>2. ASSUME Plays(events', made'), UNCHANGED <<outcome, stage, made, trajectory>>
      PROVE  ReplayInv'
  <2>1. ReplayKeepsOrder'
    BY <1>2 DEF ReplayInv, ReplayKeepsOrder, Replayed, Given
  <2> QED BY <1>2, <2>1 DEF ReplayInv
<1>3. ASSUME NEW i \in 1 .. 4, NEW answered \in 0 .. 1, GoesOn(i, answered), stage # 5
      PROVE  ReplayInv'
  <2>1. UNCHANGED <<outcome, trajectory>>
    BY <1>3 DEF GoesOn
  <2>2. PICK n \in Nat :
          /\ StepEvents(n) \in Seq(Logged)
          /\ stepCount' = stepCount + n
          /\ \/ /\ stage' = 4 /\ UNCHANGED <<guardVars, toolCalls>>
                /\ Recorded(StepEvents(n))
             \/ \E c \in AllCalls :
                  /\ stage' \in 1 .. 3 /\ toolCalls' = toolCalls + 1
                  /\ Guarded(c) /\ CallEvents(c) \in Seq(Logged)
                  /\ Recorded(StepEvents(n) \o CallEvents(c))
    BY <1>3, GoesOnIs
  <2>3. \A k \in DOMAIN StepEvents(n) : StepEvents(n)[k].type # "TOOL_CALL"
    BY DEF StepEvents, Event
  <2>4. Plays(events, made)
    BY DEF ReplayInv
  <2>5. Plays(events', made')
    <3>1. CASE UNCHANGED guardVars /\ Recorded(StepEvents(n))
      BY <2>2, <2>3, <2>4, <3>1, QuietPlays DEF guardVars
    <3>2. ASSUME NEW c \in AllCalls, Guarded(c), Recorded(StepEvents(n) \o CallEvents(c))
          PROVE  Plays(events', made')
      BY <2>2, <2>3, <2>4, <3>2, CallPlays
    <3> QED BY <2>2, <3>1, <3>2
  <2>6. outcome' = "none" /\ stage' # 5
    BY <1>3, <2>1, <2>2 DEF ReplayInv
  <2> QED BY <1>1, <1>3, <2>1, <2>5, <2>6
<1>4. CASE Starts
  BY <1>3, <1>4 DEF Starts
<1>5. CASE Continues
  <2>1. stage \in 1 .. 3 /\ GoesOn(stage + 1, 1)
    BY <1>5 DEF Continues, Waits
  <2>2. stage + 1 \in 1 .. 4 /\ stage # 5
    BY <2>1
  <2> QED BY <1>3, <2>1, <2>2
<1>6. ASSUME NEW how \in {"success", "error", "rejected"}, Ends(how), stage # 5
      PROVE  ReplayInv'
  <2>1. /\ outcome' = how /\ stage' = 5 /\ UNCHANGED <<events, made, trajectory>>
    BY <1>6 DEF Ends, guardVars, recorderVars
  <2> QED BY <1>1, <1>6, <2>1 DEF ReplayInv
<1>7. CASE RejectsAtOnce \/ Catches \/ Succeeds \/ HttpCatches \/ HttpReturns \/ CustomEnds
  <2>1. stage # 5 /\ \E how \in {"success", "error", "rejected"} : Ends(how)
    BY <1>7 DEF RejectsAtOnce, Catches, Waits, Succeeds, HttpCatches, HttpReturns, CustomEnds
  <2> QED BY <1>6, <2>1
<1>8. CASE HttpPosts \/ HttpResponds
  <2>1. stage # 5 /\ stage' # 5 /\ UNCHANGED <<outcome, events, made, trajectory>>
    BY <1>8 DEF HttpPosts, HttpResponds, HttpMoves, guardVars, recorderVars
  <2> QED BY <1>1, <2>1 DEF ReplayInv
<1>9. ASSUME NEW c \in CustomCalls, CustomCall(c)
      PROVE  ReplayInv'
  <2>1. /\ c \in AllCalls /\ stage # 5 /\ Recorded(CallEvents(c)) /\ Guarded(c)
        /\ UNCHANGED <<stage, outcome, trajectory>>
    BY <1>9 DEF CustomCall, AllCalls, agentVars
  <2>2. <<>> \in Seq(Logged) /\ DOMAIN <<>> = {}
    OBVIOUS
  <2>3. Plays(events', made')
    BY <2>1, <2>2, CallPlays DEF ReplayInv
  <2> QED BY <1>1, <2>1, <2>3 DEF ReplayInv
<1>10. ASSUME NEW n, ToolAnswers(n)
       PROVE  ReplayInv'
  <2> DEFINE log == <<Event("TOOL_RESULT", n)>>
  <2>1. Recorded(log) /\ UNCHANGED <<outcome, stage, made, trajectory>> /\ n \in DOMAIN made
    BY <1>10 DEF ToolAnswers, InFlight, agentVars
  <2>2. log \in Seq(Logged) /\ \A i \in DOMAIN log : log[i].type # "TOOL_CALL"
    <3>1. n \in Nat
      BY <2>1, FatesAre
    <3>2. Event("TOOL_RESULT", n) \in Logged /\ Event("TOOL_RESULT", n).type = "TOOL_RESULT"
      BY <3>1 DEF Event, Logged
    <3> QED BY <3>2
  <2> HIDE DEF log
  <2>3. Plays(events', made')
    BY <2>1, <2>2, QuietPlays DEF ReplayInv
  <2> QED BY <1>2, <2>1, <2>3
<1>11. ASSUME NEW n, ToolThrows(n)
       PROVE  ReplayInv'
  <2>1. UNCHANGED <<outcome, stage, made, trajectory, events>>
    BY <1>11 DEF ToolThrows, agentVars, recorderVars
  <2> QED BY <1>2, <2>1 DEF ReplayInv
<1>12. CASE Finalize
  <2> DEFINE log == <<Event("TASK_END", 0)>>
  <2>1. /\ Recorded(log) /\ UNCHANGED <<outcome, stage, made>> /\ outcome # "none"
        /\ trajectory' = [events |-> events', totalToolCalls |-> toolCallCount']
    BY <1>12 DEF Finalize, agentVars, guardVars
  <2>2. log \in Seq(Logged) /\ \A i \in DOMAIN log : log[i].type # "TOOL_CALL"
    <3>1. Event("TASK_END", 0) \in Logged /\ Event("TASK_END", 0).type = "TASK_END"
      BY DEF Event, Logged
    <3> QED BY <3>1
  <2> HIDE DEF log
  <2>3. Plays(events', made')
    BY <2>1, <2>2, QuietPlays DEF ReplayInv
  <2>4. trajectory'.events = events'
    BY <2>1
  <2>5. Replayed(events)' = Given'
    BY <2>3 DEF Plays, Replayed, Given, PlayedBy, OrderedIn
  <2>6. ReplayKeepsOrder'
    BY <2>4, <2>5 DEF ReplayKeepsOrder, Replayed
  <2> QED BY <2>1, <2>3, <2>6 DEF ReplayInv
<1> QED BY <1>4, <1>5, <1>7, <1>8, <1>9, <1>10, <1>11, <1>12 DEF SessionStep

LEMMA ReplayInitially == SessionInit => ReplayInv
<1> SUFFICES ASSUME SessionInit PROVE ReplayInv
  OBVIOUS
<1>1. /\ made = <<>> /\ stage = 0 /\ outcome = "none" /\ trajectory = NoTrajectory
      /\ events = <<Event("TASK_START", 0)>>
  BY DEF SessionInit
<1>2. DOMAIN events = {1} /\ Len(events) = 1 /\ events[1].type = "TASK_START"
  BY <1>1 DEF Event
<1>3. InOrder(PlayedBy(events, made))[1] = <<>>
  <2>1. 1 \notin DOMAIN PlayedBy(events, made)
    BY <1>2 DEF PlayedBy
  <2> QED BY <2>1, InOrderDef
<1>4. InOrder(OrderedIn(made))[Len(made)] = <<>>
  <2>1. Len(made) = 0
    BY <1>1
  <2> QED BY <2>1, InOrderDef
<1>5. Plays(events, made)
  BY <1>2, <1>3, <1>4 DEF Plays
<1> QED BY <1>1, <1>5 DEF ReplayInv, ReplayKeepsOrder

-------------------------------------------------------------------------------
SessionInv == TypeInv /\ CountersAgree /\ TrailInv /\ AuditTrail /\ ReplayInv

\* The inductive invariant of the session: its counters, the trail of calls and
\* results, and what a replay will run (reference-agent.ts, run.ts:63-102, recorder.ts).
THEOREM SessionInvariant == Spec => []SessionInv
<1>1. Init => SessionInv
  BY SessionInitially, TrailInitially, ReplayInitially DEF Init, SessionInv
<1>2. SessionInv /\ [Next]_vars => SessionInv'
  <2> SUFFICES ASSUME SessionInv, [Next]_vars PROVE SessionInv'
    OBVIOUS
  <2>1. CASE SessionStep \/ Finalize
    BY <2>1, CountsKept, TrailKept, ReplayKept DEF SessionInv
  <2>2. CASE UNCHANGED sessionVars
    <3>1. UNCHANGED <<agent, tools, handed, stage, outcome, toolCalls, stepCount, maxCalls,
                      callCount, lastCall, repeats, made, fate, executed, events, toolCallCount,
                      trajectory>>
      BY <2>2 DEF sessionVars, agentVars, guardVars, recorderVars
    <3>2. TypeInv' /\ CountersAgree'
      BY <3>1 DEF SessionInv, TypeInv, SessionTypeOK, CountersAgree
    <3>3. TrailInv' /\ AuditTrail'
      BY <3>1 DEF SessionInv, TrailInv, AwaitsInv, InFlight, Trailed, AuditTrail
    <3>4. ReplayInv'
      BY <3>1 DEF SessionInv, ReplayInv, ReplayKeepsOrder, Replayed, Given
    <3> QED BY <3>2, <3>3, <3>4 DEF SessionInv
  <2>3. SessionStep \/ Finalize \/ UNCHANGED sessionVars
    BY DEF Next, vars, Session, EngineReturns, FinalizeRun, WriteFile, Killed, ExportStep,
           ExportLists, ExportWrites, ExportReads
  <2> QED BY <2>1, <2>2, <2>3
<1> QED BY <1>1, <1>2, PTL DEF Spec

\* The types of the session, for any agent (run.ts:63-102).
THEOREM SessionTypes == Spec => []SessionTypeOK
<1>1. SessionInv => SessionTypeOK
  BY DEF SessionInv, TypeInv
<1> QED BY <1>1, SessionInvariant, PTL

\* Agent, guardrail, recorder and trajectory count the same calls and steps, for any
\* agent and however its calls overlap (reference-agent.ts:26, guardrails.ts:27,
\* recorder.ts:47, base-adapter.ts:61).
THEOREM CountersAlwaysAgree == Spec => []CountersAgree
<1>1. SessionInv => CountersAgree
  BY DEF SessionInv
<1> QED BY <1>1, SessionInvariant, PTL

\* In a ReferenceAgent's trajectory only the last call of a run that failed is without
\* its result (run.ts:69-82, reference-agent.ts:124-138).
THEOREM TrailsAreComplete == Spec => []AuditTrail
<1>1. SessionInv => AuditTrail
  BY DEF SessionInv
<1> QED BY <1>1, SessionInvariant, PTL

\* A replay runs every command in the order in which the agent gave them, for any agent
\* and however its calls overlap (replay.ts:30-35).
THEOREM ReplaysKeepOrder == Spec => []ReplayKeepsOrder
<1>1. SessionInv => ReplayKeepsOrder
  BY DEF SessionInv, ReplayInv
<1> QED BY <1>1, SessionInvariant, PTL

-------------------------------------------------------------------------------
(***************************************************************************)
(* The scores of a run without a verdict.                                  *)
(***************************************************************************)
LEMMA QuotientIsNatural ==
  ASSUME NEW a \in Nat, NEW b \in Nat, b > 0
  PROVE  a \div b \in Nat
  OBVIOUS

\* What efficiency and cost can make up for at most.
EfficiencyRange == 200 .. 1000
CostRange       == 0 .. 1000

LEMMA EfficiencyBounds ==
  ASSUME NEW steps \in Nat, NEW maxSteps \in Int
  PROVE  efficiency(steps, maxSteps) \in EfficiencyRange
<1> DEFINE b == Greatest(1, maxSteps)
           x == (1000 * steps) \div b
           y == Least(1000, x)
<1>1. b \in Nat /\ b > 0
  BY DEF Greatest
<1>2. 1000 * steps \in Nat
  OBVIOUS
<1>3. x \in Nat
  <2> HIDE DEF b
  <2> QED BY <1>1, <1>2, QuotientIsNatural
<1> HIDE DEF x
<1>4. y \in 0 .. 1000
  BY <1>3 DEF Least
<1> HIDE DEF y
<1>5. y \div 2 \in 0 .. 500
  BY <1>4
<1>6. efficiency(steps, maxSteps) = Greatest(200, 1000 - y \div 2)
  BY DEF efficiency, y, x
<1> QED BY <1>5, <1>6 DEF Greatest, EfficiencyRange

LEMMA CostBounds ==
  ASSUME NEW cost \in Int
  PROVE  costScore(cost) \in CostRange
  BY DEF costScore, Greatest, Least, CostRange

LEMMA FullReliability ==
  ASSUME NEW calls \in Nat
  PROVE  reliability(calls, 0) = 1000
<1>1. 0 \div calls = 0 \/ calls = 0
  OBVIOUS
<1> QED BY <1>1 DEF reliability, Greatest

\* The composite score, but for what each result gets in full.
LEMMA CompositeIs ==
  ASSUME NEW r \in Results
  PROVE  compositeScore(r, MaxSteps, DefaultWeights)
           = correctness(r.score) * 400 + 1000 * 200 + 1000 * 150
               + efficiency(r.steps, MaxSteps) * 100 + 1000 * 100 + costScore(r.cost) * 50
<1> DEFINE rec == recoveryScore(FALSE, r.passed, 0)
<1>1. rec = 1000
  BY DEF recoveryScore
<1>2. reliability(r.toolCalls, 0) = 1000 /\ safety(0) = 1000
  <2>1. r.toolCalls \in Nat
    BY DEF Results
  <2> QED BY <2>1, FullReliability DEF safety, Greatest
<1>3. /\ DefaultWeights.correctness = 400 /\ DefaultWeights.reliability = 200
      /\ DefaultWeights.safety = 150 /\ DefaultWeights.efficiency = 100
      /\ DefaultWeights.recovery = 100 /\ DefaultWeights.cost = 50
  BY DEF DefaultWeights
<1>4. compositeScore(r, MaxSteps, DefaultWeights)
        = correctness(r.score) * DefaultWeights.correctness
            + reliability(r.toolCalls, 0) * DefaultWeights.reliability
            + safety(0) * DefaultWeights.safety
            + efficiency(r.steps, MaxSteps) * DefaultWeights.efficiency
            + rec * DefaultWeights.recovery
            + costScore(r.cost) * DefaultWeights.cost
  BY DEF compositeScore
<1> HIDE DEF rec
<1> QED BY <1>1, <1>2, <1>3, <1>4

\* What a result can gain by its steps and its cost.
LEMMA GainsAre ==
  ASSUME NEW r \in Results
  PROVE  efficiency(r.steps, MaxSteps) \in EfficiencyRange /\ costScore(r.cost) \in CostRange
<1>1. r.steps \in Nat /\ r.cost \in Int
  BY DEF Results
<1>2. MaxSteps \in Int
  BY ResultsAssumption
<1>3. efficiency(r.steps, MaxSteps) \in EfficiencyRange
  BY <1>1, <1>2, EfficiencyBounds, Zenon
<1>4. costScore(r.cost) \in CostRange
  BY <1>1, CostBounds, Zenon
<1> QED BY <1>3, <1>4

\* A score above 0.325 outweighs what a result of score 0 can have gained.
LEMMA ScoreOutweighs ==
  ASSUME NEW p \in Results, NEW q \in Results, p.score > 325, q.score = 0
  PROVE  /\ ~taskSuccess(q.score, 0)
         /\ compositeScore(q, MaxSteps, DefaultWeights) < compositeScore(p, MaxSteps, DefaultWeights)
         /\ Regressions(p, q) # {}
<1>1. /\ p.steps \in Nat /\ p.cost \in Int /\ p.score \in Int
      /\ q.steps \in Nat /\ q.cost \in Int
      /\ MaxSteps \in Int
  BY ResultsAssumption DEF Results
<1>2. correctness(q.score) = 0 /\ correctness(p.score) > 325 /\ correctness(p.score) \in Int
  BY <1>1 DEF correctness, Greatest, Least
<1>3. ~taskSuccess(q.score, 0)
  BY <1>2 DEF taskSuccess
<1>4. compositeScore(q, MaxSteps, DefaultWeights) < compositeScore(p, MaxSteps, DefaultWeights)
  <2> DEFINE e1 == efficiency(q.steps, MaxSteps)
             c1 == costScore(q.cost)
             e2 == efficiency(p.steps, MaxSteps)
             c2 == costScore(p.cost)
             s2 == correctness(p.score)
  <2>1. e1 \in EfficiencyRange /\ e2 \in EfficiencyRange /\ c1 \in CostRange /\ c2 \in CostRange
    BY GainsAre, Zenon
  <2>2. s2 > 325 /\ s2 \in Int
    BY <1>2
  <2>3. compositeScore(q, MaxSteps, DefaultWeights)
          = 0 * 400 + 1000 * 200 + 1000 * 150 + e1 * 100 + 1000 * 100 + c1 * 50
    BY <1>2, CompositeIs
  <2>4. compositeScore(p, MaxSteps, DefaultWeights)
          = s2 * 400 + 1000 * 200 + 1000 * 150 + e2 * 100 + 1000 * 100 + c2 * 50
    BY CompositeIs
  <2> HIDE DEF e1, c1, e2, c2, s2
  <2> QED BY <2>1, <2>2, <2>3, <2>4 DEF EfficiencyRange, CostRange
<1>5. "Score" \in Regressions(p, q)
  <2>1. q.score - p.score < -50
    BY <1>1
  <2> QED BY <2>1 DEF Regressions
<1> QED BY <1>3, <1>4, <1>5

\* A result that passed outweighs one without a verdict.
LEMMA PassedOutweighs ==
  ASSUME MinScore > 325, NEW p \in Results, NEW q \in Results,
         Fits(p), Fits(q), p.passed, ~q.verified
  PROVE  /\ ~taskSuccess(q.score, 0)
         /\ compositeScore(q, MaxSteps, DefaultWeights) < compositeScore(p, MaxSteps, DefaultWeights)
         /\ Regressions(p, q) # {}
<1>1. q.score = 0 /\ p.score >= MinScore /\ p.score \in Int /\ MinScore \in Int
  BY ResultsAssumption DEF Fits, Results
<1>2. p.score > 325
  BY <1>1
<1> QED BY <1>1, <1>2, ScoreOutweighs

ResultInv == result \in [Runs -> Results] /\ \A r \in Runs : Fits(result[r])

LEMMA ResultsInitially == Init => ResultInv
<1> SUFFICES ASSUME Init PROVE ResultInv
  OBVIOUS
<1>1. PICK earlier \in EarlierResults \union {NoResult} :
        result = [r \in Runs |-> IF r = "earlier" THEN earlier ELSE NoResult]
  BY DEF Init
<1>2. NoResult \in Results /\ Fits(NoResult)
  BY DEF NoResult, Results, Fits
<1>3. earlier \in Results /\ Fits(earlier)
  BY <1>2, ResultsAssumption
<1> QED BY <1>1, <1>2, <1>3 DEF ResultInv

\* What the engine returns fits, whatever a server claims.
LEMMA EngineReturnsKeeps ==
  ASSUME ResultInv, TypeInv, EngineReturns
  PROVE  ResultInv'
<1>1. PICK verified \in BOOLEAN, passed \in BOOLEAN, score \in Scores, cost \in Costs,
           duration \in Durations, reported \in Reported :
        /\ outcome = "rejected" => ~verified /\ cost = 0
        /\ ~verified => ~passed /\ score = 0
        /\ passed => score >= MinScore
        /\ result' = [result EXCEPT !["this"] =
             [verified |-> verified, passed |-> passed, score |-> score,
              steps |-> reported[1], toolCalls |-> reported[2], cost |-> cost, duration |-> duration]]
  BY DEF EngineReturns
<1>2. reported \in Nat \X Nat
  <2>1. stepCount \in Nat /\ toolCalls \in Nat
    BY DEF TypeInv, SessionTypeOK
  <2>2. <<1, 0>> \in Nat \X Nat /\ <<stepCount, toolCalls>> \in Nat \X Nat
    BY <2>1
  <2>3. Claims \subseteq Nat \X Nat
    BY ResultsAssumption
  <2>4. Reported \in {Claims, {<<1, 0>>}, {<<stepCount, toolCalls>>}}
    BY DEF Reported
  <2> QED BY <2>2, <2>3, <2>4
<1> DEFINE new == [verified |-> verified, passed |-> passed, score |-> score,
                   steps |-> reported[1], toolCalls |-> reported[2], cost |-> cost,
                   duration |-> duration]
<1>3. new \in Results /\ Fits(new)
  <2>1. new \in Results
    BY <1>2, ResultsAssumption DEF Results
  <2>2. new.verified = verified /\ new.passed = passed /\ new.score = score
    OBVIOUS
  <2> QED BY <1>1, <2>1, <2>2 DEF Fits
<1>4. result' = [result EXCEPT !["this"] = new]
  BY <1>1
<1> HIDE DEF new
<1> QED BY <1>3, <1>4 DEF ResultInv, Runs

\* For any task that asks for more than 0.325 a run without a verdict scores less than
\* one that passed, however the server of its agent counts its steps and whatever the
\* other has spent: efficiency and cost can make up for 0.13, which is what 0.325 of
\* the score weigh (run.ts:107-118, scoring.ts:36-71, comparator.ts:37-40).
THEOREM NoVerdictNeverWins == MinScore > 325 => (Spec => []NoVerdictLoses)
<1> SUFFICES ASSUME MinScore > 325 PROVE Spec => []NoVerdictLoses
  OBVIOUS
<1>1. ResultInv /\ SessionInv /\ [Next]_vars => ResultInv'
  <2> SUFFICES ASSUME ResultInv, SessionInv, [Next]_vars PROVE ResultInv'
    OBVIOUS
  <2>1. CASE EngineReturns
    BY <2>1, EngineReturnsKeeps DEF SessionInv
  <2>2. CASE UNCHANGED result
    BY <2>2 DEF ResultInv
  <2>3. EngineReturns \/ UNCHANGED result
    BY DEF Next, vars, runVars, Session, FinalizeRun, WriteFile, Killed, ExportStep, ExportLists,
           ExportWrites, ExportReads
  <2> QED BY <2>1, <2>2, <2>3
<1>2. ResultInv => NoVerdictLoses
  BY PassedOutweighs DEF ResultInv, NoVerdictLoses, regressionDetected
<1> QED BY <1>1, <1>2, ResultsInitially, SessionInvariant, PTL DEF Spec

===============================================================================
