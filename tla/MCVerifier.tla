----------------------------- MODULE MCVerifier -----------------------------
(* Instances of Verifier for TLC.                                           *)
EXTENDS Verifier

(* One project under every backend: edited twice while it is verified,      *)
(* verified twice; a suite of two; two suites whose threads share the Lean   *)
(* lock.                                                                    *)
MCScenarios ==
  [edited  |-> [suite |-> [t1 |-> {"p"}], kinds |-> Backends, maxEdits |-> 2, maxRuns |-> 1],
   again   |-> [suite |-> [t1 |-> {"p"}], kinds |-> Backends, maxEdits |-> 1, maxRuns |-> 2],
   suite   |-> [suite |-> [t1 |-> {"p", "q"}], kinds |-> {"specification"}, maxEdits |-> 1, maxRuns |-> 2],
   threads |-> [suite |-> [t1 |-> {"p"}, t2 |-> {"q"}], kinds |-> {"specification"},
                maxEdits |-> 0, maxRuns |-> 2]]
=============================================================================
