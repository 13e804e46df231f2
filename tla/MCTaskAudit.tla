------------------------------ MODULE MCTaskAudit ------------------------------
(***************************************************************************)
(* Tasks for model checking TaskAudit.                                     *)
(***************************************************************************)
EXTENDS TaskAudit, Functions

MCCheck(kind, weight, needs) ==
  [kind |-> kind, weight |-> weight, needs |-> needs, leaks |-> {}, file |-> "file",
   exists |-> "any", content |-> {}, path |-> "none", throws |-> FALSE, expects |-> 0,
   adds |-> {}, removes |-> {}]

Solved == MCCheck("command", 1000, {"solved"})
Tested == MCCheck("test", 500, {"tests"})
Builds == [MCCheck("custom", 500, {"solved"}) EXCEPT !.adds = {"file"}]
Cleans == [MCCheck("command", 200, {"file"}) EXCEPT !.removes = {"file"}]
Fails  == [MCCheck("command", 500, {"tests"}) EXCEPT !.expects = 1]
Broken == [MCCheck("regex", 1000, {"solved"}) EXCEPT !.throws = TRUE]
File   == [MCCheck("filesystem", 100, {}) EXCEPT !.exists = "yes", !.path = "relative"]
Folder == [File EXCEPT !.throws = TRUE]
NoFile == [MCCheck("git", 1000, {}) EXCEPT !.exists = "no"]
Match  == [MCCheck("filesystem", 1000, {}) EXCEPT !.content = {"solved"}]
Host   == [File EXCEPT !.file = "host", !.path = "absolute"]
Rows   == [MCCheck("database", 500, {"solved"}) EXCEPT !.path = "relative"]
Table  == [Rows EXCEPT !.path = "none", !.adds = {"file"}]
Site   == MCCheck("http", 0, {"solved"})
Judge  == MCCheck("llm_judge", 500, {})
Safe   == [MCCheck("security", 1000, {}) EXCEPT !.leaks = {"tests"}]
Both   == MCCheck("test", 1000, {"tests", "solved"})
Wipes  == [MCCheck("command", 100, {}) EXCEPT !.removes = {"solved"}]
Quiet  == [MCCheck("security", 500, {}) EXCEPT !.leaks = {"file"}]
Suite  == MCCheck("test", 1000, {"suite", "solved"})
Hangs  == [MCCheck("security", 1000, {"tests"}) EXCEPT !.expects = 124]

\* One check as in the bundled benchmarks; several of all kinds, weights that make a
\* failed check cheap, of a tenth and of just more than a tenth, a minimum that the
\* judge's 0.95 keeps out of reach or that rounding reaches, no weight; checks that
\* leave or take away what others look for, or what a later vector would need; a check
\* that a vector's file fails.
MCTasks ==
  UNION {{Task(<<Solved>>, stop, 900),
          Task(<<Tested, Solved, File>>, stop, 800),
          Task(<<Folder, Tested, Rows>>, stop, 900),
          Task(<<Solved, Judge>>, stop, 980),
          Task(<<Judge, Solved>>, stop, 990),
          Task(<<Safe, NoFile, Judge>>, stop, 800),
          Task(<<Match, Tested>>, stop, 800),
          Task(<<Solved, Broken>>, stop, 800),
          Task(<<Host, [Solved EXCEPT !.weight = 900]>>, stop, 800),
          Task(<<[Host EXCEPT !.weight = 100], [Solved EXCEPT !.weight = 899]>>, stop, 800),
          Task(<<Builds, File>>, stop, 900),
          Task(<<Cleans, Table, File>>, stop, 700),
          Task(<<Hangs, Fails>>, stop, 800),
          Task(<<Both, Wipes>>, stop, 800),
          Task(<<Tested, Quiet>>, stop, 800),
          Task(<<[Tested EXCEPT !.weight = 600], File, Solved>>, stop, 800),
          Task(<<Suite>>, stop, 800),
          Task(<<Site>>, stop, 800)} : stop \in BOOLEAN}

\* One leaves a file, one puts a test that always passes in the place of the fixture's
\* test, the others do nothing.
MCEffects ==
  [v \in Range(STANDARD_CHEAT_VECTORS) |->
     CASE v = "CHEAT-TOUCH"     -> [adds |-> {"file"}, removes |-> {}]
       [] v = "CHEAT-MOCK-TEST" -> [adds |-> {"tests"}, removes |-> {"suite"}]
       [] OTHER                 -> [adds |-> {}, removes |-> {}]]

MCFailing == {{}, {"CANARY-01"}, {"CANARY-01", "STAT-04"}}

===============================================================================
