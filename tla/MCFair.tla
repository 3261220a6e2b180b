------------------------------- MODULE MCFair -------------------------------
(* Pairs of nodes for the liveness of FairRaft.                            *)
EXTENDS FairRaft, MCRaft

Pair == [hooks |-> TRUE, genesis |-> Voters2, disk |-> Fresh(4), campaigns |-> {}, beating |-> {a},
         carried |-> AllTypes, crashable |-> {}, compactors |-> {}, growth |-> {}, clients |-> {},
         batches |-> {}, learnerSets |-> {}, targets |-> {}, maxLoss |-> 2, talks |-> TRUE]

Progressing == [Pair EXCEPT !.campaigns = UNION {At(t, {a}) : t \in 1..3}]
CuttingOff == [Pair EXCEPT !.campaigns = At(1, {a}), !.maxLoss = 0, !.talks = FALSE]

(* a and b agreed on two entries in term 1; a compacted them, b did not    *)
(* and has no room left.                                                   *)
FullDisk == [i \in Id |->
  LET full == [Saved(2, 1, a, <<1, 1>>) EXCEPT !.commit = 2]
  IN  IF i = b THEN full
      ELSE Install(full, [last |-> LogId(2, 1), app |-> full.entries, membership |-> Voters2])]
FullFollower == [Pair EXCEPT !.hooks = FALSE, !.disk = FullDisk, !.campaigns = At(2, {a}),
                             !.compactors = {b}]

Pairs == [progress |-> Progressing, cut_off |-> CuttingOff, full |-> FullFollower]
=============================================================================
