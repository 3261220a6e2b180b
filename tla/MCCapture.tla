------------------------------ MODULE MCCapture ------------------------------
(* Instances of Capture for TLC.                                              *)
EXTENDS Capture

\* One manifest's content for every version, and contents that take turns.
Always(deps, n) == [v \in 0..n |-> deps]
Turns(even, odd, n) == [v \in 0..n |-> IF v % 2 = 0 THEN even ELSE odd]

\* The root has a normal dependency with a build dependency; an edit makes the
\* normal dependency test-only.  A root alone with a test-only dependency is the
\* case of method verification; an edit makes it a normal one.  A graph with a
\* package from elsewhere is refused.  No edit changes the packages of the lock file.
MCScenarios ==
  [graph |-> [packages |-> {"root", "dep", "gen"},
              declares |-> [root |-> Turns({<<"dep", "normal">>}, {<<"dep", "dev">>}, 1),
                            dep |-> Always({<<"gen", "build">>}, 1), gen |-> Always({}, 1)],
              foreign |-> {}, pids |-> 1..4, maxEdits |-> 1, maxRuns |-> 2],
   alone |-> [packages |-> {"root", "test"},
              declares |-> [root |-> Turns({<<"test", "dev">>}, {<<"test", "normal">>}, 2),
                            test |-> Always({}, 2)],
              foreign |-> {}, pids |-> 1..3, maxEdits |-> 2, maxRuns |-> 1],
   stray |-> [packages |-> {"root", "dep"},
              declares |-> [root |-> Always({<<"dep", "normal">>}, 0), dep |-> Always({}, 0)],
              foreign |-> {"dep"}, pids |-> 1..2, maxEdits |-> 0, maxRuns |-> 1]]
=============================================================================
