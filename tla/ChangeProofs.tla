---------------------------- MODULE ChangeProofs ----------------------------
(***************************************************************************)
(* The life of a configuration, for every set of identities, number of     *)
(* slots and lists that callers pass: it stays well formed, survives being *)
(* stored as its three lists, changes only to an adjacent one, and its     *)
(* quorum index is the greatest position that a quorum has reached.        *)
(*                                                                         *)
(* Membership builds configurations in loops.  Each loop is taken as the   *)
(* values it goes through, and what holds after every round is shown round *)
(* by round (Iterates and Upward of Facts).                                *)
(***************************************************************************)
EXTENDS MembershipChanges, MembershipProofs

(* The invariant: what WellFormed says, of a configuration.                *)
MInv == Fit(m) /\ m.voters # {} /\ m.voters \cap m.learners = {}

-----------------------------------------------------------------------------
(* A genesis satisfies the invariant.                                      *)
LEMMA GenesisFits ==
  ASSUME NEW vs \in Lists, NEW ls \in Lists, NEW y, y = NewMembership(vs, ls), y # None
  PROVE  Fit(y) /\ y.voters # {} /\ y.voters \cap y.learners = {} /\ ~IsJoint(y)
<1>1. vs \in Seq(Id) /\ ls \in Seq(Id) /\ <<>> \in Seq(Id) /\ y = Restore(vs, <<>>, ls)
  BY ListsAssumption DEF NewMembership
<1>2. /\ Fit(y) /\ y.voters = ToSet(vs) /\ y.old = ToSet(<<>>) /\ y.learners = ToSet(ls)
      /\ vs # <<>> /\ ToSet(ls) \cap ToSet(vs) = {}
  <2>1. ASSUME NEW olds \in Seq(Id), y = Restore(vs, olds, ls)
        PROVE  /\ Fit(y) /\ y.voters = ToSet(vs) /\ y.old = ToSet(olds) /\ y.learners = ToSet(ls)
               /\ vs # <<>> /\ ToSet(ls) \cap ToSet(vs) = {}
    BY <1>1, <2>1, Restored
  <2> QED BY <1>1, <2>1
<1>3. ToSet(vs) # {}
  BY <1>1, <1>2, HeadAndTail
<1> QED BY <1>2, <1>3, NoElements DEF IsJoint

(* Admitted changes keep the configuration well formed and lead to an      *)
(* adjacent one.                                                           *)
LEMMA ChangeSteps ==
  ASSUME MInv, ChangesNext
  PROVE  MInv' /\ Adjacent(m, m')
<1>0. Fit(m) /\ m.voters \in SUBSET Id /\ m.voters # {} /\ m.voters \subseteq Ids(m.slots)
      /\ m.voters \cap m.learners = {}
  BY DEF MInv, Fit, Memberships
<1> DEFINE vs == InOrder(m, m.voters)
<1>v. vs \in Seq(Id) /\ ToSet(vs) = m.voters /\ NoRepeat(vs)
  <2>1. vs \in Seq(Id) /\ ToSet(vs) = m.voters \cap Ids(m.slots) /\ NoRepeat(vs)
    BY <1>0, Listed
  <2> QED BY <1>0, <2>1
<1> HIDE DEF vs
<1>1. ASSUME NEW learners \in Lists, ChangeLearners(learners) PROVE MInv' /\ Adjacent(m, m')
  <2> DEFINE kept == IncludeAll(Empty, vs, "voters")
             y == IncludeAll(kept, learners, "learners")
  <2>1. /\ ~IsJoint(m) /\ m' # None /\ m' = WithLearners(m, learners) /\ learners \in Seq(Id)
    BY <1>1, ListsAssumption DEF ChangeLearners
  <2>2. m' = y /\ \A id \in ToSet(learners) : id \notin m.voters
    BY <2>1 DEF WithLearners, IsVoter, vs
  <2>3. kept # None
    <3>1. IsFiniteSet(Ids(m.slots)) /\ Cardinality(Ids(m.slots)) <= MAX
      BY <1>0, MembersFit
    <3>2. \A W : IsFiniteSet(W) /\ Cardinality(W) <= MAX /\ Ids(Empty.slots) \cup ToSet(vs) \subseteq W
                   => kept # None
      BY <1>v, EmptyFits, AllIncluded DEF Kinds
    <3> HIDE DEF kept
    <3> QED BY <1>0, <1>v, <3>1, <3>2, EmptyFits
  <2>4. Fit(kept) /\ kept.voters = m.voters /\ kept.old = {} /\ kept.learners = {}
    <3>1. /\ Fit(kept) /\ kept["voters"] = Empty["voters"] \cup ToSet(vs)
          /\ \A k \in Kinds \ {"voters"} : kept[k] = Empty[k]
      BY <1>v, <2>3, EmptyFits, AllIncluded DEF Kinds
    <3> HIDE DEF kept
    <3> QED BY <1>v, <3>1, EmptyFits DEF Kinds
  <2> HIDE DEF kept
  <2>5. Fit(y) /\ y.voters = m.voters /\ y.old = {} /\ y.learners = ToSet(learners)
    <3>1. /\ Fit(y) /\ y["learners"] = kept["learners"] \cup ToSet(learners)
          /\ \A k \in Kinds \ {"learners"} : y[k] = kept[k]
      BY <2>1, <2>2, <2>4, AllIncluded DEF Kinds
    <3> HIDE DEF y
    <3> QED BY <2>4, <3>1 DEF Kinds
  <2> HIDE DEF y
  <2>6. Fit(m)'
    BY <2>2, <2>5 DEF Fit
  <2> QED BY <1>0, <2>1, <2>2, <2>5, <2>6 DEF MInv, Adjacent, IsJoint
<1>2. ASSUME NEW ns \in Lists, NEW ls \in Lists, Begin(NewMembership(ns, ls)) PROVE MInv' /\ Adjacent(m, m')
  <2> DEFINE target == NewMembership(ns, ls)
             y == IncludeAll(target, vs, "old")
  <2>1. target # None /\ ~IsJoint(m) /\ m' # None /\ m' = Joint(m, target)
    BY <1>2 DEF Begin
  <2>2. Fit(target) /\ target.voters # {} /\ target.voters \cap target.learners = {} /\ ~IsJoint(target)
    BY <2>1, GenesisFits
  <2> HIDE DEF target
  <2>3. m' = y
    BY <2>1, <2>2 DEF Joint, vs
  <2>4. Fit(y) /\ y.voters = target.voters /\ y.old = m.voters /\ y.learners = target.learners
    <3>1. /\ Fit(y) /\ y["old"] = target["old"] \cup ToSet(vs)
          /\ \A k \in Kinds \ {"old"} : y[k] = target[k]
      BY <1>v, <2>1, <2>2, <2>3, AllIncluded DEF Kinds
    <3> HIDE DEF y
    <3> QED BY <1>v, <2>2, <3>1 DEF Kinds, IsJoint
  <2> HIDE DEF y
  <2>5. Fit(m)'
    BY <2>3, <2>4 DEF Fit
  <2> QED BY <1>0, <2>1, <2>2, <2>3, <2>4, <2>5 DEF MInv, Adjacent, IsJoint
<1>3. ASSUME Finish PROVE MInv' /\ Adjacent(m, m')
  <2>1. IsJoint(m) /\ m' = Finalized(m)
    BY <1>3 DEF Finish
  <2>2. /\ DOMAIN m = Fields /\ m.slots \in [Slot -> Id \cup {None}]
        /\ m.learners \in SUBSET Id /\ m = [slots |-> m.slots, voters |-> m.voters, old |-> m.old, learners |-> m.learners]
    BY <1>0 DEF Fit, Memberships, Fields, Kinds
  <2>3. /\ m'.old = {} /\ m'.voters = m.voters /\ m'.learners = m.learners
        /\ m'.slots = [s \in Slot |-> IF m.slots[s] \in m.voters \cup m.learners THEN m.slots[s] ELSE None]
        /\ m' \in Memberships
    BY <1>0, <2>1, <2>2 DEF Finalized, Memberships
  <2>4. Ids(m'.slots) = m'.voters \cup m'.old \cup m'.learners
    <3>1. \A id \in m.voters \cup m.learners : id # None /\ \E s \in Slot : m.slots[s] = id
      BY <1>0, <2>2, IdAssumption DEF Fit, Ids
    <3> QED BY <2>2, <2>3, <3>1 DEF Ids
  <2>5. \A s, t \in Slot : m'.slots[s] = m'.slots[t] /\ s # t => m'.slots[s] = None
    BY <1>0, <2>3 DEF Fit
  <2>6. Fit(m)'
    BY <2>3, <2>4, <2>5 DEF Fit
  <2> QED BY <1>0, <2>1, <2>3, <2>6 DEF MInv, Adjacent, IsJoint
<1> QED BY <1>1, <1>2, <1>3 DEF ChangesNext

(* The invariant says what WellFormed does, and a well-formed              *)
(* configuration is restored from its three lists: they have no repetition *)
(* and no clash, and their members fit into the slots they come from.      *)
LEMMA FitIsConsistent ==
  ASSUME MInv
  PROVE  Consistent
<1>0. /\ Fit(m) /\ m.voters # {} /\ m.voters \cap m.learners = {}
      /\ m.voters \in SUBSET Id /\ m.old \in SUBSET Id /\ m.learners \in SUBSET Id
      /\ Ids(m.slots) = m.voters \cup m.old \cup m.learners
  BY DEF MInv, Fit, Memberships
<1>1. WellFormed
  BY <1>0 DEF WellFormed, Fit
<1>2. ASSUME NEW J \in SUBSET Id, J \subseteq Ids(m.slots)
      PROVE  InOrder(m, J) \in Seq(Id) /\ ToSet(InOrder(m, J)) = J /\ NoRepeat(InOrder(m, J))
  <2>1. /\ InOrder(m, J) \in Seq(Id) /\ ToSet(InOrder(m, J)) = J \cap Ids(m.slots)
        /\ NoRepeat(InOrder(m, J))
    BY <1>0, Listed
  <2> QED BY <1>2, <2>1
<1> DEFINE vs == InOrder(m, m.voters)
           os == InOrder(m, m.old)
           ls == InOrder(m, m.learners)
           back == Restore(vs, os, ls)
<1>3. /\ vs \in Seq(Id) /\ ToSet(vs) = m.voters /\ NoRepeat(vs)
      /\ os \in Seq(Id) /\ ToSet(os) = m.old /\ NoRepeat(os)
      /\ ls \in Seq(Id) /\ ToSet(ls) = m.learners /\ NoRepeat(ls)
  BY <1>0, <1>2
<1> HIDE DEF vs, os, ls
<1>4. vs # <<>>
  BY <1>0, <1>3, NoElements
<1>5. IsFiniteSet(Ids(m.slots)) /\ Cardinality(Ids(m.slots)) <= MAX
  BY <1>0, MembersFit
<1>6. back # None
  <2>1. /\ vs # <<>> /\ NoRepeat(vs) /\ NoRepeat(ls) /\ NoRepeat(os)
        /\ ToSet(ls) \cap ToSet(vs) = {}
        /\ ToSet(vs) \cup ToSet(os) \cup ToSet(ls) \subseteq Ids(m.slots)
    BY <1>0, <1>3, <1>4
  <2> QED BY <1>3, <1>5, <2>1, Restored
<1>7. /\ Ids(back.slots) = ToSet(vs) \cup ToSet(os) \cup ToSet(ls)
      /\ back.voters = ToSet(vs) /\ back.old = ToSet(os) /\ back.learners = ToSet(ls)
  BY <1>3, <1>6, Restored
<1>8. RestoresToItself
  <2> HIDE DEF back
  <2>1. /\ back # None /\ Ids(back.slots) = Ids(m.slots)
        /\ <<back.voters, back.old, back.learners>> = <<m.voters, m.old, m.learners>>
    BY <1>0, <1>3, <1>6, <1>7
  <2> QED BY <2>1 DEF RestoresToItself, back, vs, os, ls
<1> QED BY <1>1, <1>8 DEF Consistent

(* A genesis is well formed.                                               *)
LEMMA Genesis == ChangesInit => MInv
<1> SUFFICES ASSUME ChangesInit PROVE MInv
  OBVIOUS
<1>1. PICK vs \in Lists, ls \in Lists : m = NewMembership(vs, ls) /\ m # None
  BY DEF ChangesInit
<1>2. Fit(m) /\ m.voters # {} /\ m.voters \cap m.learners = {}
  BY <1>1, GenesisFits
<1> QED BY <1>2 DEF MInv

(* Whatever changes cluster.rs makes, a configuration stays well formed:   *)
(* one slot for each member, a part for each slot, some voter, no voting   *)
(* learner; and restore takes back what the host stored of it.             *)
THEOREM ConfigurationsAreConsistent == ChangesSpec => []Consistent
<1>1. MInv /\ UNCHANGED m => MInv'
  BY DEF MInv, Fit
<1>2. MInv /\ [ChangesNext]_m => MInv'
  BY <1>1, ChangeSteps
<1>3. MInv => Consistent
  BY FitIsConsistent
<1> QED BY <1>2, <1>3, Genesis, PTL DEF ChangesSpec

(* A change of the configuration is one of the adjacent ones, and no       *)
(* quorum of the old configuration misses one of the new (reconfigure,     *)
(* finish_reconfiguration, set_learners).                                  *)
THEOREM ChangesAlwaysOverlap == ChangesSpec => ChangesOverlap
<1>1. MInv /\ UNCHANGED m => MInv'
  BY DEF MInv, Fit
<1>2. MInv /\ [ChangesNext]_m => MInv'
  BY <1>1, ChangeSteps
<1>3. ASSUME MInv, MInv', ChangesNext
      PROVE  /\ Adjacent(m, m')
             /\ \A A, B \in SUBSET Id : Quorum(m, A) /\ Quorum(m', B) => A \cap B # {}
  <2>1. Adjacent(m, m') /\ m \in Memberships /\ m' \in Memberships
    BY <1>3, ChangeSteps DEF MInv, Fit
  <2> QED BY <2>1, AdjacentQuorumsIntersect
<1>4. MInv /\ MInv' /\ [ChangesNext]_m =>
        [/\ Adjacent(m, m')
         /\ \A A, B \in SUBSET Id : Quorum(m, A) /\ Quorum(m', B) => A \cap B # {}]_m
  BY <1>3
<1> QED BY <1>2, <1>4, Genesis, PTL DEF ChangesSpec, ChangesOverlap

-----------------------------------------------------------------------------
(* The index that advance_commit uses is the greatest position that a      *)
(* quorum of the configuration has acknowledged, joint or not: sorting the *)
(* positions agrees with counting the members.                             *)
THEOREM CommitIndexIsAQuorum == ChangesSpec => []CommitIndexIsQuorum
<1>1. MInv /\ UNCHANGED m => MInv'
  BY DEF MInv, Fit
<1>2. MInv /\ [ChangesNext]_m => MInv'
  BY <1>1, ChangeSteps
<1>3. ASSUME MInv PROVE CommitIndexIsQuorum
  <2> SUFFICES ASSUME NEW f \in [Id -> Positions]
               PROVE  LET reached(p) == Quorum(m, {id \in Id : f[id] >= p})
                          index == QuorumIndex(m, f)
                      IN  reached(index) /\ \A p \in Positions : p > index => ~reached(p)
    BY DEF CommitIndexIsQuorum
  <2> DEFINE Reached(p) == {id \in Id : f[id] >= p}
             new == MajorityIndex(m.voters, f)
             old == MajorityIndex(m.old, f)
             index == QuorumIndex(m, f)
  <2>0. f \in [Id -> Nat] /\ m.voters \in SUBSET Id /\ m.voters # {} /\ m.old \in SUBSET Id
    BY <1>3, PositionsAssumption DEF MInv, Fit, Memberships
  <2>1. /\ new \in Nat
        /\ \A q \in Nat : q <= new => Majority(m.voters, Reached(q))
        /\ \A q \in Nat : q > new => ~Majority(m.voters, Reached(q))
    BY <2>0, MajorityIndexIsGreatest
  <2>2. ASSUME IsJoint(m)
        PROVE  /\ old \in Nat
               /\ \A q \in Nat : q <= old => Majority(m.old, Reached(q))
               /\ \A q \in Nat : q > old => ~Majority(m.old, Reached(q))
    BY <2>0, <2>2, MajorityIndexIsGreatest DEF IsJoint
  <2>3. index = IF IsJoint(m) THEN Min2(new, old) ELSE new
    BY DEF QuorumIndex
  <2> HIDE DEF new, old, index, Reached
  <2>4. index \in Nat /\ Quorum(m, Reached(index))
    BY <2>1, <2>2, <2>3 DEF Quorum, Min2
  <2>5. ASSUME NEW q \in Positions, q > index PROVE ~Quorum(m, Reached(q))
    BY <2>1, <2>2, <2>3, <2>5, PositionsAssumption DEF Quorum, Min2
  <2> QED BY <2>4, <2>5 DEF index, Reached
<1> QED BY <1>2, <1>3, Genesis, PTL DEF ChangesSpec
=============================================================================
