------------------------------ MODULE ToolSession ------------------------------
(***************************************************************************)
(* An agent at work with its tools: the wrappers that the CLI puts around  *)
(* every tool (apps/cli/src/commands/run.ts), the ToolGuardrail inside     *)
(* them (agent-sdk/src/guardrails.ts), the recorder of the trajectory      *)
(* (tracing/src/recorder.ts), the ReferenceAgent                           *)
(* (agent-sdk/src/reference-agent.ts), and the HttpAgentAdapter            *)
(* (agent-sdk/src/http-adapter.ts), which leaves the work to a server.     *)
(*                                                                         *)
(* A call of a tool runs through wrapper and guardrail up to the start of  *)
(* the tool in one turn; its answer comes in a later one.  The engine does *)
(* not hand the wrapped tools over today (engine.ts:121-125), and the      *)
(* agent rejects: handed tells both cases apart.                           *)
(***************************************************************************)
EXTENDS Integers, Sequences, FiniteSets

CONSTANTS
  CustomCalls,   \* what a custom agent may call: a tool with its arguments
  MaxToolCalls,  \* the values options.maxToolCalls may have
  MaxIdentical,  \* options.maxConsecutiveIdenticalCalls
  MaxMade,       \* bound of the model: calls that a custom agent makes
  MaxInFlight    \* bound of the model: calls it has not awaited

ASSUME LimitsAssumption == MaxToolCalls \subseteq Nat /\ MaxIdentical \in Nat

\* "none" stands for no call.
ASSUME CallsAssumption == "none" \notin CustomCalls

\* An option that is missing or 0 gives way to the default.
OrDefault(option, default) == IF option = 0 THEN default ELSE option

maxConsecutive == OrDefault(MaxIdentical, 5)

\* The ReferenceAgent's calls, by what they are for: the two that list the workspace
\* use the tools filesystem and terminal, the others terminal.
ReferenceCalls == {"list", "ls", "check", "fix"}

AllCalls == ReferenceCalls \union CustomCalls

\* The tools that the registry finds for the names in a task, as far as they are used.
ToolSets == SUBSET {"filesystem", "terminal"}

VARIABLES
  agent,       \* "reference", "http" or "custom"
  tools,       \* the tools of its context that it uses, a set of names
  handed,      \* whether the engine's context has tools at all
  stage,       \* where the agent is: 0 new, 5 done; 1..4 the ReferenceAgent's steps; of
               \* the HTTP agent, 1 its request is under way, 2 the response is read
  outcome,     \* of execute: "none", "success", "error", or "rejected"
  toolCalls,   \* the ReferenceAgent's counter
  stepCount    \* the adapter's counter of recorded steps

agentVars == <<agent, tools, handed, stage, outcome, toolCalls, stepCount>>

VARIABLES
  maxCalls,    \* the guardrail's limit
  callCount,   \* its counter
  lastCall,    \* its lastCallSignature, "none" before the first call
  repeats,     \* its consecutiveIdenticalCalls
  made,        \* history: the calls made, in order
  fate,        \* of each call made: "running", "loop", "limit", "answered", "failed"
  executed     \* history: the calls whose tool was started, in order

guardVars == <<maxCalls, callCount, lastCall, repeats, made, fate, executed>>

VARIABLES
  events,         \* the recorder's events: a type and the number of the call
  toolCallCount,  \* the recorder's counter
  trajectory      \* what finalize returned: events and totals, or none yet

recorderVars == <<events, toolCallCount, trajectory>>

sessionVars == <<agentVars, guardVars, recorderVars>>

Event(type, n) == [type |-> type, call |-> n]

Count(type, log) == Cardinality({i \in DOMAIN log : log[i].type = type})

InFlight == {n \in DOMAIN made : fate[n] \in {"running", "loop"}}

NoTrajectory == [events |-> <<>>, totalToolCalls |-> 0]

-------------------------------------------------------------------------------
SessionInit ==
  /\ agent \in {"reference", "http", "custom"}
  /\ tools \in ToolSets
  /\ handed \in BOOLEAN
  /\ agent = "http" => tools = {}
  /\ agent = "custom" => handed /\ tools = {"terminal"}
  /\ stage = 0
  /\ outcome = "none"
  /\ toolCalls = 0
  /\ stepCount = 0
  /\ maxCalls \in {OrDefault(option, 200) : option \in MaxToolCalls}
  /\ callCount = 0
  /\ lastCall = "none"
  /\ repeats = 0
  /\ made = <<>>
  /\ fate = <<>>
  /\ executed = <<>>
  /\ events = <<Event("TASK_START", 0)>>
  /\ toolCallCount = 0
  /\ trajectory = NoTrajectory

\* Mutant of Verdict: tests the counter before the call is counted, one late.
Verdict_OffByOne(c) ==
  IF callCount > maxCalls THEN "limit"
  ELSE IF c = lastCall /\ repeats + 1 >= maxConsecutive THEN "loop" ELSE "running"

\* Mutant of Verdict: a loop is reported only beyond the allowed number.
Verdict_Lenient(c) ==
  IF callCount + 1 > maxCalls THEN "limit"
  ELSE IF c = lastCall /\ repeats + 1 > maxConsecutive THEN "loop" ELSE "running"

\* The guardrail throws, refuses, or starts the tool.
Verdict(c) ==
  IF callCount + 1 > maxCalls THEN "limit"
  ELSE IF c = lastCall /\ repeats + 1 >= maxConsecutive THEN "loop" ELSE "running"

\* A call up to the start of its tool.  Every call is counted; one over the limit
\* leaves the loop detection alone.
Guarded(c) ==
  /\ callCount' = callCount + 1
  /\ made' = Append(made, c)
  /\ fate' = Append(fate, Verdict(c))
  /\ executed' = IF Verdict(c) = "running" THEN Append(executed, c) ELSE executed
  /\ IF Verdict(c) = "limit"
       THEN UNCHANGED <<lastCall, repeats>>
       ELSE /\ lastCall' = c
            /\ repeats' = IF c = lastCall THEN repeats + 1 ELSE 1
  /\ UNCHANGED maxCalls

\* Mutant of CallEvents: the call is recorded only when the guardrail let it pass.
CallEvents_Passed(c) ==
  IF Verdict(c) = "limit" THEN <<>> ELSE <<Event("TOOL_CALL", Len(made) + 1)>>

\* What the wrapper records before the guardrail sees the call.
CallEvents(c) == <<Event("TOOL_CALL", Len(made) + 1)>>

Recorded(log) ==
  /\ events' = events \o log
  /\ toolCallCount' = toolCallCount + Count("TOOL_CALL", log)

-------------------------------------------------------------------------------
(***************************************************************************)
(* The ReferenceAgent: four steps, each beginning with a thought; the      *)
(* first three call a tool if the agent has one for it.                    *)
(***************************************************************************)
CallOf(i) ==
  CASE i = 1 /\ "filesystem" \in tools -> "list"
    [] i = 1 /\ tools = {"terminal"}   -> "ls"
    [] i = 2 /\ "terminal" \in tools   -> "check"
    [] i = 3 /\ "terminal" \in tools   -> "fix"
    [] OTHER                           -> "none"

\* The next step from i on that calls a tool, or the last.
NextStage(i) ==
  CHOOSE j \in i .. 4 :
    /\ j = 4 \/ CallOf(j) # "none"
    /\ \A k \in i .. (j - 1) : CallOf(k) = "none"

\* recordStep, n times: the adapter counts the step, and context.recordStep hands it
\* to the recorder.
recordStep(n) == stepCount' = stepCount + n
StepEvents(n) == [k \in 1 .. n |-> Event("AGENT_ACTION", 0)]

\* The agent goes on from step i in one turn: after as many steps as were recorded
\* for the call just answered, it records its thoughts, and makes its next call.
GoesOn(i, answered) ==
  LET j == NextStage(i)
      n == answered + j - i + 1
  IN /\ stage' = j
     /\ recordStep(n)
     /\ IF j = 4
          THEN Recorded(StepEvents(n)) /\ UNCHANGED <<guardVars, toolCalls>>
          ELSE /\ toolCalls' = toolCalls + 1
               /\ Recorded(StepEvents(n) \o CallEvents(CallOf(j)))
               /\ Guarded(CallOf(j))
     /\ UNCHANGED <<agent, tools, handed, outcome, trajectory>>

Starts == agent = "reference" /\ handed /\ stage = 0 /\ GoesOn(1, 0)

Ends(how) ==
  /\ outcome' = how
  /\ stage' = 5
  /\ UNCHANGED <<agent, tools, handed, toolCalls, stepCount, guardVars, recorderVars>>

\* Without tools in its context the agent throws before its try block.
RejectsAtOnce ==
  agent \in {"reference", "http"} /\ ~handed /\ stage = 0 /\ Ends("rejected")

Waits == agent = "reference" /\ stage \in 1 .. 3

\* Mutant of Continues: a call that threw is passed over.
Continues_Ignoring ==
  /\ Waits
  /\ fate[Len(made)] \in {"answered", "failed", "limit"}
  /\ GoesOn(stage + 1, 1)

\* Its call has an answer; an error reported by the tool is one, too, and so is the
\* guardrail's warning.
Continues ==
  /\ Waits
  /\ fate[Len(made)] = "answered"
  /\ GoesOn(stage + 1, 1)

\* Its call threw, or the artifacts could not be collected: the catch block.
Catches ==
  /\ \/ Waits /\ fate[Len(made)] \in {"limit", "failed"}
     \/ agent = "reference" /\ stage = 4
  /\ Ends("error")

\* After the last thought it collects the artifacts and returns.
Succeeds == agent = "reference" /\ stage = 4 /\ Ends("success")

(***************************************************************************)
(* The HTTP agent: one request to a server that does the work.  It calls   *)
(* no tool and records no step.                                            *)
(***************************************************************************)
HttpMoves(from, to) ==
  /\ agent = "http" /\ stage = from
  /\ stage' = to
  /\ UNCHANGED <<agent, tools, handed, outcome, toolCalls, stepCount, guardVars, recorderVars>>

\* The request is sent, and its timer set.
HttpPosts == handed /\ HttpMoves(0, 1)

\* The head of the response is there, and the timer is cleared: nothing limits the
\* reading of the body.
HttpResponds == HttpMoves(1, 2)

\* The timer aborts the request, or it fails; the status is not ok, the body is no
\* JSON, or the artifacts cannot be collected: the catch block.
HttpCatches == agent = "http" /\ stage \in 1 .. 2 /\ Ends("error")

\* The server's data become the agent's result, whatever status they claim.
HttpReturns == agent = "http" /\ stage = 2 /\ Ends("success")

(***************************************************************************)
(* A custom agent makes any calls, awaits them or not, and ends as it      *)
(* likes.                                                                  *)
(***************************************************************************)
CustomCall(c) ==
  /\ agent = "custom" /\ stage = 0
  /\ Len(made) < MaxMade /\ Cardinality(InFlight) < MaxInFlight
  /\ Recorded(CallEvents(c))
  /\ Guarded(c)
  /\ UNCHANGED <<agentVars, trajectory>>

CustomEnds == agent = "custom" /\ stage = 0 /\ \E how \in {"success", "error"} : Ends(how)

-------------------------------------------------------------------------------
(***************************************************************************)
(* Answers of the tools, and the end of the recording.                     *)
(***************************************************************************)
\* A tool returns, or the guardrail has refused: the wrapper records the result.
ToolAnswers(n) ==
  /\ n \in InFlight
  /\ fate' = [fate EXCEPT ![n] = "answered"]
  /\ Recorded(<<Event("TOOL_RESULT", n)>>)
  /\ UNCHANGED <<agentVars, maxCalls, callCount, lastCall, repeats, made, executed, trajectory>>

\* A tool throws, as when the environment is destroyed: the wrapper records nothing.
ToolThrows(n) ==
  /\ n \in InFlight
  /\ fate[n] = "running"
  /\ fate' = [fate EXCEPT ![n] = "failed"]
  /\ UNCHANGED <<agentVars, maxCalls, callCount, lastCall, repeats, made, executed, recorderVars>>

\* The engine has returned: the end is recorded, and finalize copies the events.
Finalize ==
  /\ outcome # "none"
  /\ trajectory = NoTrajectory
  /\ Recorded(<<Event("TASK_END", 0)>>)
  /\ trajectory' = [events |-> events', totalToolCalls |-> toolCallCount']
  /\ UNCHANGED <<agentVars, guardVars>>

SessionStep ==
  \/ Starts \/ RejectsAtOnce \/ Continues \/ Catches \/ Succeeds
  \/ HttpPosts \/ HttpResponds \/ HttpCatches \/ HttpReturns
  \/ CustomEnds \/ \E c \in CustomCalls : CustomCall(c)
  \/ \E n \in 1 .. Len(made) : ToolAnswers(n) \/ ToolThrows(n)

-------------------------------------------------------------------------------
(***************************************************************************)
(* Replay (tracing/src/replay.ts): the commands of the recorded calls of   *)
(* the terminal, in their order.                                           *)
(***************************************************************************)
OfTerminal(c) == c # "list"

\* The values of f, a function on some of the naturals from 1 on, in the order of its
\* arguments: those up to n.
InOrder(f) ==
  LET upTo[n \in Nat] ==
        IF n = 0 THEN <<>>
        ELSE IF n \in DOMAIN f THEN Append(upTo[n - 1], f[n]) ELSE upTo[n - 1]
  IN upTo

\* Mutant of Replayed: replays what was answered, as it was answered.
Replayed_Results(log) ==
  LET commands == {i \in DOMAIN log : log[i].type = "TOOL_RESULT" /\ OfTerminal(made[log[i].call])}
  IN InOrder([i \in commands |-> made[log[i].call]])[Len(log)]

Replayed(log) ==
  LET commands == {i \in DOMAIN log : log[i].type = "TOOL_CALL" /\ OfTerminal(made[log[i].call])}
  IN InOrder([i \in commands |-> made[log[i].call]])[Len(log)]

\* The commands in the order in which the agent gave them.
Given == InOrder([n \in {k \in DOMAIN made : OfTerminal(made[k])} |-> made[n]])[Len(made)]

-------------------------------------------------------------------------------
(***************************************************************************)
(* Properties.                                                             *)
(***************************************************************************)
SessionTypeOK ==
  /\ agent \in {"reference", "http", "custom"}
  /\ tools \subseteq {"filesystem", "terminal"}
  /\ handed \in BOOLEAN
  /\ stage \in 0 .. 5
  /\ outcome \in {"none", "success", "error", "rejected"}
  /\ maxCalls \in Nat /\ toolCalls \in Nat /\ stepCount \in Nat /\ callCount \in Nat /\ repeats \in Nat
  /\ lastCall \in AllCalls \union {"none"}
  /\ made \in Seq(AllCalls) /\ executed \in Seq(AllCalls)
  /\ fate \in Seq({"running", "loop", "limit", "answered", "failed"})
  /\ Len(fate) = Len(made)
  /\ toolCallCount \in Nat

\* However calls overlap, no more tools are started than the limit allows
\* (guardrails.ts:27-30); calls that are refused use it up as well.
CallLimit == Len(executed) <= maxCalls

\* No tool is started with the same arguments again and again: a refused call does
\* not break the series (guardrails.ts:33-47).
LoopIsBroken ==
  \A i, j \in DOMAIN executed :
    (i <= j /\ \A k \in i .. j : executed[k] = executed[i])
      => j - i < 1 \/ j - i + 1 < maxConsecutive

\* The agent, the guardrail, the recorder and the trajectory count the same calls,
\* and agent and recorder the same steps, though each counts for itself and some
\* calls are refused or throw (reference-agent.ts:26, guardrails.ts:27,
\* recorder.ts:47, base-adapter.ts:61, run.ts:70, 99).
CountersAgree ==
  /\ callCount = toolCallCount
  /\ callCount = Count("TOOL_CALL", events)
  /\ agent = "reference" => toolCalls = callCount /\ stepCount = Count("AGENT_ACTION", events)
  /\ trajectory # NoTrajectory =>
       trajectory.totalToolCalls = Count("TOOL_CALL", trajectory.events)

\* In the trajectory of a run whose ReferenceAgent reports success every call has its
\* result, right after it; only of one that reports an error is a call without a
\* result, the last one (run.ts:69-82, reference-agent.ts:124-138).
AuditTrail ==
  (trajectory # NoTrajectory /\ agent = "reference") =>
    LET log == trajectory.events IN
    \A i \in DOMAIN log :
      log[i].type = "TOOL_CALL" =>
        \/ log[i + 1] = Event("TOOL_RESULT", log[i].call)
        \/ outcome = "error" /\ i + 1 = Len(log)

\* A replay runs every command of the session, in the order in which the agent gave
\* them, whether or not the guardrail let them through (replay.ts:30-35).
ReplayKeepsOrder ==
  trajectory # NoTrajectory => Replayed(trajectory.events) = Given

===============================================================================
