----------------------------- MODULE Membership -----------------------------
(***************************************************************************)
(* jarl/src/membership.rs: a configuration of voters, old voters and       *)
(* learners in at most MAX slots.  The Rust array of optional members is   *)
(* kept as the array of its identities ("slots", None for a hole) and one  *)
(* set of identities per flag: identities are unique within an array, so   *)
(* the two representations determine each other.                           *)
(***************************************************************************)
EXTENDS Common, SequencesExt

CONSTANTS
  Id,     \* identities a peer may have
  MAX     \* compile-time bound on simultaneous peers

ASSUME MaxAssumption == MAX \in Nat \ {0}
ASSUME IdAssumption == IsFiniteSet(Id) /\ None \notin Id

Slot == 1..MAX

Memberships == [slots : [Slot -> Id \cup {None}], voters : SUBSET Id,
                old : SUBSET Id, learners : SUBSET Id]

ASSUME NoneAssumption == None \notin Memberships
Empty == [slots |-> [s \in Slot |-> None], voters |-> {}, old |-> {}, learners |-> {}]

(* The identities of a slot array. *)
Ids(slots) == {slots[s] : s \in DOMAIN slots} \ {None}

(* What every constructor leaves: a slot for each member and no other, one *)
(* slot each, and somebody who votes.                                      *)
Configs == {m \in Memberships :
              /\ Ids(m.slots) = m.voters \cup m.old \cup m.learners
              /\ \A s, t \in Slot : m.slots[s] = m.slots[t] /\ s # t => m.slots[s] = None
              /\ m.voters # {}}

IsJoint(m) == m.old # {}
IsVoter(m, id) == id \in m.voters \cup m.old
Includes(m, id) == id \in Ids(m.slots)

(* The lowest slot satisfying a test: Rust's iter().position. *)
First(S) == CHOOSE s \in S : \A t \in S : s <= t

(* include: reuse the identity's slot, else the first hole; no hole is an  *)
(* error, None here.                                                       *)
Include(m, id, kind) ==
  LET same  == {s \in Slot : m.slots[s] = id}
      holes == {s \in Slot : m.slots[s] = None}
  IN  IF same \cup holes = {} THEN None
      ELSE LET slot == First(IF same # {} THEN same ELSE holes)
           IN  [m EXCEPT !.slots[slot] = id, ![kind] = @ \cup {id}]

(* A sequence of includes, failing at the first failure. *)
IncludeAll(m, ids, kind) ==
  LET after[n \in 0..Len(ids)] ==
        IF n = 0 THEN m
        ELSE LET before == after[n - 1]
             IN  IF before = None THEN None ELSE Include(before, ids[n], kind)
  IN  after[Len(ids)]

NoRepeat(ids) == \A i, j \in DOMAIN ids : ids[i] = ids[j] => i = j

(* restore(voters, old_voters, learners); every failure is Error::Config.  *)
Restore(voters, old, learners) ==
  LET accepted == /\ voters # <<>>
                  /\ NoRepeat(voters) /\ NoRepeat(learners) /\ NoRepeat(old)
                  /\ ToSet(learners) \cap ToSet(voters) = {}
      m1 == IncludeAll(Empty, voters, "voters")
      m2 == IF m1 = None THEN None ELSE IncludeAll(m1, learners, "learners")
  IN  IF ~accepted \/ m2 = None THEN None ELSE IncludeAll(m2, old, "old")

NewMembership(voters, learners) == Restore(voters, <<>>, learners)

(* The members carrying a flag, in slot order: Rust's voters(), learners(). *)
InOrder(m, ids) ==
  LET upTo[s \in 0..MAX] ==
        IF s = 0 THEN <<>>
        ELSE IF m.slots[s] \in ids THEN Append(upTo[s - 1], m.slots[s]) ELSE upTo[s - 1]
  IN  upTo[MAX]

(* with_learners: voters kept, learners replaced, old voters dropped.      *)
WithLearners(m, learners) ==
  LET kept == IncludeAll(Empty, InOrder(m, m.voters), "voters")
  IN  IF \/ ~NoRepeat(learners)
         \/ \E id \in ToSet(learners) : IsVoter(m, id)
      THEN None
      ELSE IncludeAll(kept, learners, "learners")

(* Mutant: the change takes effect at once.                                *)
JointAtOnce(m, target) == IF IsJoint(m) \/ IsJoint(target) THEN None ELSE target

(* joint: the target plus this configuration's voters as old voters.       *)
(* Reconfiguring and Full are both None.                                   *)
Joint(m, target) ==
  IF IsJoint(m) \/ IsJoint(target) THEN None
  ELSE IncludeAll(target, InOrder(m, m.voters), "old")

(* Mutant: the members left without a flag keep their slots.               *)
FinalizedInPlace(m) == [m EXCEPT !.old = {}]

(* finalized: old flags cleared, members left without a flag removed, which *)
(* leaves holes.                                                            *)
Finalized(m) ==
  [m EXCEPT !.old = {},
            !.slots = [s \in Slot |-> IF m.slots[s] \in m.voters \cup m.learners
                                      THEN m.slots[s] ELSE None]]

(* quorum: a strict majority of the voters, and of the old voters while    *)
(* joint.                                                                  *)
Majority(S, acks) == Cardinality(S \cap acks) > Cardinality(S) \div 2

(* Mutant: the old voters have no say in a joint configuration.            *)
QuorumOfNew(m, acks) == Majority(m.voters, acks)

Quorum(m, acks) == /\ Majority(m.voters, acks)
                   /\ IsJoint(m) => Majority(m.old, acks)

(* What set_learners, reconfigure and finish_reconfiguration may follow a  *)
(* configuration by: the same voters, a joint one, the target of a joint.  *)
Adjacent(m, next) ==
  \/ ~IsJoint(m) /\ ~IsJoint(next) /\ next.voters = m.voters
  \/ ~IsJoint(m) /\ IsJoint(next) /\ next.old = m.voters
  \/ IsJoint(m) /\ ~IsJoint(next) /\ next.voters = m.voters

(* The element with 0-based rank k of the positions of S in sorted order.  *)
RankOf(S, matched, k) ==
  CHOOSE p \in {matched[id] : id \in S} :
    /\ Cardinality({id \in S : matched[id] < p}) <= k
    /\ k < Cardinality({id \in S : matched[id] <= p})

(* Mutant: the middle of the sorted positions, one too high when even.     *)
MajorityIndexHigh(S, matched) == RankOf(S, matched, Cardinality(S) \div 2)

(* positions[count - (count / 2 + 1)] after the sort. *)
MajorityIndex(S, matched) ==
  RankOf(S, matched, Cardinality(S) - (Cardinality(S) \div 2 + 1))

(* Mutant: the old voters have no say in what commits.                     *)
QuorumIndexOfNew(m, matched) == MajorityIndex(m.voters, matched)

QuorumIndex(m, matched) ==
  IF IsJoint(m) THEN Min2(MajorityIndex(m.voters, matched), MajorityIndex(m.old, matched))
  ELSE MajorityIndex(m.voters, matched)
=============================================================================
