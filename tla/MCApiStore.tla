------------------------------ MODULE MCApiStore ------------------------------
(***************************************************************************)
(* Packages for model checking ApiStore: one that is plain, one of another *)
(* contestant with the same submission id and fewer trials, one with two   *)
(* tasks and a colon in a name, two whose names meet at a colon and share  *)
(* a key, one of them with a trial number twice, one with the separator in *)
(* a name, and an invalid one.                                             *)
(***************************************************************************)
EXTENDS ApiStore

Trial(number, passed) == [number |-> number, passed |-> passed]

Result(task, trials) == [task |-> task, trials |-> trials]

Package(id, agent, model, results) ==
  [id |-> id, agent |-> agent, model |-> model, results |-> results]

MCNames == {<<"a">>, <<"b", ":">>}

MCPackages ==
  { Package("s1", <<"a">>, <<"m">>,
      <<Result("t1", <<Trial(1, TRUE), Trial(2, FALSE), Trial(3, TRUE)>>)>>),
    Package("s1", <<"b">>, <<"m">>,
      <<Result("t1", <<Trial(1, FALSE), Trial(2, FALSE)>>)>>),
    Package("s2", <<"a", ":", "m">>, <<"n">>,
      <<Result("t1", <<Trial(1, TRUE), Trial(2, TRUE)>>),
        Result("t2", <<Trial(1, FALSE), Trial(2, TRUE)>>)>>),
    Package("s3", <<"b", ":">>, <<"m">>,
      <<Result("t1", <<Trial(1, TRUE), Trial(1, FALSE)>>)>>),
    Package("s4", <<"b">>, <<":", "m">>,
      <<Result("t2", <<Trial(1, TRUE), Trial(2, FALSE)>>)>>),
    Package("s4", <<"b">>, <<"m">>, <<Result("t1", <<Trial(1, TRUE)>>)>>),
    Package("s5", <<"a">>, <<"m", ":", ":", "n">>,
      <<Result("t1", <<Trial(1, TRUE), Trial(2, FALSE)>>)>>) }
===============================================================================
