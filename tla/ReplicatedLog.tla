---------------------------- MODULE ReplicatedLog ----------------------------
(***************************************************************************)
(* What the cluster promises its applications, without nodes, terms or     *)
(* messages: one log that only ever grows at its end, and replicas that    *)
(* each know a prefix of it which they never lose or revise.               *)
(***************************************************************************)
EXTENDS Common, SequencesExt

CONSTANT Replica

VARIABLES
  chosen,   \* the entries decided so far
  learned   \* the prefix every replica has made durable and may apply

vars == <<chosen, learned>>

(* A cluster may start from replicas that already agree on a prefix.       *)
Init == /\ DOMAIN learned = Replica
        /\ \A r \in Replica : IsPrefix(learned[r], chosen)

(* One replica learns more, deciding new entries on the way or not.        *)
Publish(r) ==
  /\ IsPrefix(chosen, chosen')
  /\ IsPrefix(learned[r], learned'[r])
  /\ IsPrefix(learned'[r], chosen')
  /\ learned' = [learned EXCEPT ![r] = learned'[r]]

Next == \E r \in Replica : Publish(r)

Spec == Init /\ [][Next]_vars
=============================================================================
