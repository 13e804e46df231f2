-------------------------------- MODULE ApiStore --------------------------------
(***************************************************************************)
(* The API server's store of runs (apps/api/src): runs that are posted one *)
(* by one, submission packages whose trials become runs, and the           *)
(* leaderboard that is computed from the store whenever it is asked for.   *)
(*                                                                         *)
(* A handler is one turn of the event loop, after its preHandler has       *)
(* checked the key.  A client that had no answer may send its request      *)
(* again, so every request may come any number of times.                   *)
(*                                                                         *)
(* A name is a sequence of symbols.  The colon is one of them, because the *)
(* leaderboard joins names to keys with two colons and splits keys there;  *)
(* what the others are does not matter.                                    *)
(***************************************************************************)
EXTENDS Naturals, Sequences, FiniteSets

CONSTANTS
  Tasks,       \* the tasks loaded when the server started
  Names,       \* names of agents and models of posted runs
  Packages,    \* the packages clients submit: see Package
  MinTrials,   \* MINIMUM_TRIALS_PER_TASK
  MaxPosted    \* bound of the model: how many runs are posted

ASSUME MaxPostedAssumption == MaxPosted \in Nat

\* No schema lets a name be empty, and a posted run without one gets a default.
IsName(name) == name # <<>> /\ name \in Seq({name[i] : i \in DOMAIN name})

ASSUME NamesAssumption ==
  /\ \A name \in Names : IsName(name)
  /\ \A p \in Packages : IsName(p.agent) /\ IsName(p.model)

VARIABLES
  runs,      \* the map runs
  posted,    \* how many runs have been posted
  latest     \* history: the last accepted package of each submission id

vars == <<runs, posted, latest>>

-------------------------------------------------------------------------------
(***************************************************************************)
(* Packages: a submission id, names, and for each task a sequence of       *)
(* trials, each with its number and whether it was passed.                 *)
(***************************************************************************)
\* What the schema asks of a package.  The numbers of its trials need not differ, and
\* a task may come twice or be unknown.
Valid(p) ==
  /\ Len(p.results) >= 1
  /\ \A i \in DOMAIN p.results : Len(p.results[i].trials) >= MinTrials

\* The trials in the order in which the handler goes through them.
Positions(p) == UNION {{<<i, j>> : j \in DOMAIN p.results[i].trials} : i \in DOMAIN p.results}

Before(a, b) == a[1] < b[1] \/ (a[1] = b[1] /\ a[2] < b[2])

TrialAt(p, pos) == p.results[pos[1]].trials[pos[2]]

(***************************************************************************)
(* Runs.                                                                   *)
(***************************************************************************)
\* The id of a posted run; generated ids do not repeat.
RunId(n) == <<"run", n>>

\* Mutant of TrialId: a generated id.
TrialId_Generated(p, number) == <<"sub", p.id, number, posted>>

TrialId(p, number) == <<"sub", p.id, number>>

NewRun(task, agent, model) ==
  [task |-> task, agent |-> agent, model |-> model, status |-> "QUEUED", success |-> FALSE]

TrialRun(p, pos) ==
  [task |-> p.results[pos[1]].task, agent |-> p.agent, model |-> p.model,
   status |-> "COMPLETED", success |-> TrialAt(p, pos).passed]

TrialIds(p) == {TrialId(p, TrialAt(p, pos).number) : pos \in Positions(p)}

\* Of the trials that are stored under one id the last one stays.
LastWith(p, id) ==
  CHOOSE pos \in Positions(p) :
    /\ TrialId(p, TrialAt(p, pos).number) = id
    /\ \A other \in Positions(p) :
         TrialId(p, TrialAt(p, other).number) = id => ~Before(pos, other)

\* What a package leaves in the store.
Ingested(p) == [id \in TrialIds(p) |-> TrialRun(p, LastWith(p, id))]

-------------------------------------------------------------------------------
\* The map after the entries of another one were set.
With(map, new) ==
  [k \in (DOMAIN map) \union (DOMAIN new) |-> IF k \in DOMAIN new THEN new[k] ELSE map[k]]

Init ==
  /\ runs = <<>>
  /\ posted = 0
  /\ latest = <<>>

Roles == {"admin", "user", "read-only", "unknown"}

\* The preHandler of both requests.
Authorized(role) == role \in {"admin", "user"}

\* POST /api/v1/runs.
PostRun(task, agent, model) ==
  /\ posted < MaxPosted
  /\ task \in Tasks
  /\ posted' = posted + 1
  /\ runs' = With(runs, [id \in {RunId(posted + 1)} |-> NewRun(task, agent, model)])
  /\ UNCHANGED latest

\* Mutant of Submit: a run that is in the store stays as it is.
Submit_KeepsOld(p) ==
  /\ Valid(p)
  /\ runs' = With(Ingested(p), runs)
  /\ latest' = With(latest, [s \in {p.id} |-> p])
  /\ UNCHANGED posted

\* POST /api/v1/submissions.  An invalid package changes nothing.
Submit(p) ==
  /\ Valid(p)
  /\ runs' = With(runs, Ingested(p))
  /\ latest' = With(latest, [s \in {p.id} |-> p])
  /\ UNCHANGED posted

Next ==
  \E role \in Roles :
    /\ Authorized(role)
    /\ \/ \E task \in Tasks, agent, model \in Names : PostRun(task, agent, model)
       \/ \E p \in Packages : Submit(p)

Spec == Init /\ [][Next]_vars

-------------------------------------------------------------------------------
(***************************************************************************)
(* GET /api/v1/leaderboard.                                                *)
(***************************************************************************)
Ranked == {id \in DOMAIN runs : runs[id].status \in {"COMPLETED", "FAILED"}}

\* Mutant of Key: one colon between the names.
Key_OneColon(agent, model) == agent \o <<":">> \o model

\* The key under which the runs of an agent and a model are grouped.
Key(agent, model) == agent \o <<":", ":">> \o model

Group(key) == {id \in Ranked : Key(runs[id].agent, runs[id].model) = key}

\* Where two colons stand in s, and where the first two do.
Separators(s) == {i \in 1..(Len(s) - 1) : s[i] = ":" /\ s[i + 1] = ":"}

FirstSeparator(s) == CHOOSE i \in Separators(s) : \A j \in Separators(s) : i <= j

\* The first part of a split, and what is left behind the separator.
FirstPart(s) == IF Separators(s) = {} THEN s ELSE SubSeq(s, 1, FirstSeparator(s) - 1)

Rest(s) == IF Separators(s) = {} THEN <<>> ELSE SubSeq(s, FirstSeparator(s) + 2, Len(s))

Shown(part) == IF part = <<>> THEN <<"unknown">> ELSE part

\* An entry is named by the first two parts of its key.
Entry(key) ==
  [agentId |-> Shown(FirstPart(key)), modelId |-> Shown(FirstPart(Rest(key))),
   totalRuns |-> Cardinality(Group(key)),
   successfulRuns |-> Cardinality({id \in Group(key) : runs[id].success})]

getLeaderboard ==
  [key \in {Key(runs[id].agent, runs[id].model) : id \in Ranked} |-> Entry(key)]

-------------------------------------------------------------------------------
(***************************************************************************)
(* Properties.                                                             *)
(***************************************************************************)

\* The store holds the posted runs, which stay QUEUED (nothing in the server executes
\* one), and completed runs of submissions.
TypeOK ==
  /\ posted \in 0..MaxPosted
  /\ \A s \in DOMAIN latest : latest[s] \in Packages /\ latest[s].id = s
  /\ \A n \in 1..posted : RunId(n) \in DOMAIN runs /\ runs[RunId(n)].status = "QUEUED"
  /\ \A id \in DOMAIN runs :
       \/ \E n \in 1..posted : id = RunId(n)
       \/ id[1] = "sub" /\ id[2] \in DOMAIN latest /\ runs[id].status = "COMPLETED"

\* An accepted package is in the store as submitted: its runs are those of its own last
\* trial of each number, not those of an older package with the same submission id
\* (routes/submissions.ts:20-45, store.ts:69-72).
LatestPackageWins ==
  \A s \in DOMAIN latest : \A id \in TrialIds(latest[s]) :
    id \in DOMAIN runs /\ runs[id] = Ingested(latest[s])[id]

\* A client that repeats a submission for want of an answer does not change the store,
\* hence neither the leaderboard, whatever was posted or submitted in between under other
\* ids (routes/submissions.ts:24).
RetryIsHarmless ==
  [][\A p \in Packages :
       p.id \in DOMAIN latest /\ latest[p.id] = p /\ Submit(p) => runs' = runs]_vars

\* Names that can be told apart in a key: no two colons in a row, in them or where they
\* are joined.
Plain(agent, model) ==
  /\ Separators(agent) = {} /\ Separators(model) = {}
  /\ agent[Len(agent)] # ":" /\ model[1] # ":"

\* A contestant with plain names is ranked under them, by its own runs, all of them and no
\* others, whatever other names are in the store (store.ts:93-114).  Of names that are not
\* plain this is not so: two colons in a name, or one at the joint, as in "xa:" with "bb"
\* and "xa" with ":bb", make two contestants share a key and an entry.
PlainEntriesAreExact ==
  \A id \in Ranked :
    Plain(runs[id].agent, runs[id].model) =>
      LET own == {r \in Ranked : runs[r].agent = runs[id].agent /\ runs[r].model = runs[id].model}
      IN  getLeaderboard[Key(runs[id].agent, runs[id].model)] =
            [agentId |-> runs[id].agent, modelId |-> runs[id].model,
             totalRuns |-> Cardinality(own),
             successfulRuns |-> Cardinality({r \in own : runs[r].success})]

\* routes/submissions.ts:20, "Ingest each verified task trial into the store": after a
\* package was accepted, the store has a run for each of its tasks.
EveryTaskIngested ==
  \A s \in DOMAIN latest : \A i \in DOMAIN latest[s].results :
    \E id \in DOMAIN runs :
      id[1] = "sub" /\ id[2] = s /\ runs[id].task = latest[s].results[i].task
===============================================================================
