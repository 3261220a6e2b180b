-------------------------- MODULE MembershipChanges --------------------------
(***************************************************************************)
(* The life of a configuration: how Cluster (jarl/src/cluster.rs) takes    *)
(* the value of jarl/src/membership.rs through its changes, one node and   *)
(* no log.  A step stands for an admitted call; the arguments of the calls *)
(* are arbitrary short lists, repetitions and clashes included.            *)
(***************************************************************************)
EXTENDS Membership

CONSTANTS
  Lists,      \* bound: lists of identities a caller may pass
  Positions   \* bound: log positions a peer may have acknowledged

ASSUME ListsAssumption == Lists \subseteq Seq(Id)
ASSUME PositionsAssumption == Positions \subseteq Nat /\ 0 \in Positions

VARIABLE m    \* the configuration in force

(* Membership::new, the genesis of a Cluster.                              *)
ChangesInit == m \in {NewMembership(vs, ls) : vs, ls \in Lists} \ {None}

(* set_learners, from a stable configuration.                              *)
ChangeLearners(learners) ==
  /\ ~IsJoint(m)
  /\ Cardinality(m.voters) + Len(learners) <= MAX
  /\ WithLearners(m, learners) # None
  /\ m' = WithLearners(m, learners)

(* reconfigure: new voters must be learners.                               *)
Begin(target) ==
  /\ target # None /\ ~IsJoint(m)
  /\ target.voters \ m.voters \subseteq m.learners
  /\ Joint(m, target) # None
  /\ m' = Joint(m, target)

(* finish_reconfiguration.                                                 *)
Finish == IsJoint(m) /\ m' = Finalized(m)

ChangesNext ==
  \/ \E learners \in Lists : ChangeLearners(learners)
  \/ \E vs, ls \in Lists : Begin(NewMembership(vs, ls))
  \/ Finish

ChangesSpec == ChangesInit /\ [][ChangesNext]_m

-----------------------------------------------------------------------------
(* Every member has exactly one slot and every slot a member with a part   *)
(* to play, no learner votes and somebody always does (include,            *)
(* with_learners, finalized).                                              *)
WellFormed ==
  /\ Ids(m.slots) = m.voters \cup m.old \cup m.learners
  /\ \A s, t \in Slot : m.slots[s] = m.slots[t] /\ s # t => m.slots[s] = None
  /\ m.voters # {} /\ m.voters \cap m.learners = {}

(* A configuration that a host stores as its three lists is restored with  *)
(* the same members and the same quorums: restore never refuses what the   *)
(* changes have produced.                                                  *)
RestoresToItself ==
  LET back == Restore(InOrder(m, m.voters), InOrder(m, m.old), InOrder(m, m.learners))
  IN  /\ back # None
      /\ <<back.voters, back.old, back.learners>> = <<m.voters, m.old, m.learners>>
      /\ Ids(back.slots) = Ids(m.slots)

(* Whatever changes cluster.rs makes, a configuration stays well formed    *)
(* and survives being stored.                                              *)
Consistent == WellFormed /\ RestoresToItself

(* quorum_index, which sorts positions, agrees with quorum, which counts   *)
(* members: it is the greatest position that a quorum has reached.         *)
CommitIndexIsQuorum ==
  \A matched \in [Id -> Positions] :
    LET reached(p) == Quorum(m, {id \in Id : matched[id] >= p})
        index      == QuorumIndex(m, matched)
    IN  reached(index) /\ \A p \in Positions : p > index => ~reached(p)

(* A change never lets decisions of the old and the new configuration be   *)
(* taken by disjoint groups, and is one of the adjacent ones for which     *)
(* that is proved.                                                         *)
ChangesOverlap ==
  [][/\ Adjacent(m, m')
     /\ \A A, B \in SUBSET Id : Quorum(m, A) /\ Quorum(m', B) => A \cap B # {}]_m
=============================================================================
