--------------------------- MODULE ElectionProofs ---------------------------
(***************************************************************************)
(* Election safety for every set of nodes, configuration and set of terms. *)
(* The inductive invariant is TypeOK with VotesBind, OneVote and           *)
(* QuorumBacked: a save cannot contradict a published vote because the     *)
(* durable term and vote still remember it, so votes are unique, and two   *)
(* leaders of a term would share a voter of their quorums.                 *)
(***************************************************************************)
EXTENDS Election, MembershipProofs

IInv == TypeOK /\ VotesBind /\ OneVote /\ QuorumBacked

(* Before any vote is cast the invariant holds: no vote, no leader.        *)
LEMMA InitIInv == Init => IInv
BY DEF Init, IInv, TypeOK, VotesBind, OneVote, QuorumBacked

(* Writing a hard state (persist) binds the voter: its term only grows, and
   within a term the vote it wrote first is the vote it keeps.             *)
LEMMA SaveIInv ==
  ASSUME IInv, NEW i \in Id, NEW t \in Term, NEW v \in Id \cup {None}, Save(i, t, v)
  PROVE  IInv'
<1> DEFINE new == [voter |-> i, term |-> t, for |-> v]
<1> USE DEF IInv
<1>t. Term \subseteq Nat
  BY TermAssumption
<1>0. cast \subseteq cast' /\ cast' \subseteq cast \cup {new}
      /\ (v = None => cast' = cast)
  BY DEF Save
<1>1. TypeOK'
  BY <1>0 DEF Save, TypeOK, Ballots
<1>2. VotesBind'
  <2> SUFFICES ASSUME NEW x \in cast'
               PROVE  x.term < term'[x.voter]
                      \/ (x.term = term'[x.voter] /\ vote'[x.voter] = x.for)
    BY DEF VotesBind
  <2>1. CASE x = new
    BY <2>1 DEF Save, TypeOK
  <2>2. CASE x \in cast
    <3>1. x.voter \in Id /\ x.term \in Nat /\ term[x.voter] \in Nat /\ term[i] \in Nat /\ t \in Nat
          /\ x.for \in Id /\ None \notin Id
      BY <2>2, <1>t, IdAssumption DEF TypeOK, Ballots
    <3>2. x.term < term[x.voter] \/ (x.term = term[x.voter] /\ vote[x.voter] = x.for)
      BY <2>2 DEF VotesBind
    <3>3. CASE x.voter # i
      BY <3>1, <3>2, <3>3 DEF Save, TypeOK
    <3>4. CASE x.voter = i
      BY <3>1, <3>2, <3>4 DEF Save, TypeOK
    <3> QED BY <3>3, <3>4
  <2> QED BY <1>0, <2>1, <2>2
<1>3. OneVote'
  <2>1. ASSUME NEW x \in cast, x.voter = i, x.term = t PROVE x.for = v
    <3>1. x.term \in Nat /\ term[i] \in Nat /\ x.for \in Id /\ None \notin Id
      BY <1>t, IdAssumption DEF TypeOK, Ballots
    <3> QED BY <2>1, <3>1 DEF VotesBind, Save
  <2>2. new.voter = i /\ new.term = t /\ new.for = v
    OBVIOUS
  <2> QED BY <1>0, <2>1, <2>2 DEF OneVote
<1>4. QuorumBacked'
  <2> SUFFICES ASSUME NEW e \in elected'
               PROVE  Quorum(Config, Voters(e.term, e.id)')
    BY DEF QuorumBacked
  <2>1. e \in elected
    BY DEF Save
  <2>2. Voters(e.term, e.id) \subseteq Voters(e.term, e.id)'
    BY <1>0 DEF Voters
  <2> QED BY <2>1, <2>2, QuorumGrows, ConfigAssumption DEF QuorumBacked
<1> QED BY <1>1, <1>2, <1>3, <1>4

(* A candidate that becomes leader has a quorum of written votes behind it.*)
LEMMA ElectIInv ==
  ASSUME IInv, NEW i \in Id, NEW t \in Term, Elect(i, t)
  PROVE  IInv'
<1> USE DEF IInv
<1>1. TypeOK'
  BY DEF Elect, TypeOK
<1>2. VotesBind' /\ OneVote'
  BY DEF Elect, VotesBind, OneVote
<1>3. QuorumBacked'
  BY DEF Elect, QuorumBacked, Voters
<1> QED BY <1>1, <1>2, <1>3

(* Every step of the election preserves the invariant.                     *)
LEMMA NextIInv == IInv /\ [Next]_vars => IInv'
<1> SUFFICES ASSUME IInv, [Next]_vars PROVE IInv'
  OBVIOUS
<1>1. CASE UNCHANGED vars
  BY <1>1 DEF IInv, TypeOK, VotesBind, OneVote, QuorumBacked, Voters, vars
<1>2. ASSUME NEW i \in Id, NEW t \in Term, NEW v \in Id \cup {None}, Save(i, t, v) PROVE IInv'
  BY <1>2, SaveIInv
<1>3. ASSUME NEW i \in Id, NEW t \in Term, Elect(i, t) PROVE IInv'
  BY <1>3, ElectIInv
<1> QED BY <1>1, <1>2, <1>3 DEF Next

(* Two leaders of one term would share a voter, who voted only once.       *)
LEMMA IInvSafe == IInv => AtMostOneLeader
<1> SUFFICES ASSUME IInv, NEW x \in elected, NEW y \in elected, x.term = y.term
             PROVE  x.id = y.id
  BY DEF AtMostOneLeader
<1>1. Voters(x.term, x.id) \cap Voters(y.term, y.id) # {}
  BY QuorumsIntersect, ConfigAssumption DEF IInv, QuorumBacked
<1>2. PICK q : q \in Voters(x.term, x.id) /\ q \in Voters(y.term, y.id)
  BY <1>1
<1>3. PICK f \in cast : f.term = x.term /\ f.for = x.id /\ f.voter = q
  BY <1>2 DEF Voters
<1>4. PICK g \in cast : g.term = y.term /\ g.for = y.id /\ g.voter = q
  BY <1>2 DEF Voters
<1> QED BY <1>3, <1>4 DEF IInv, OneVote

(* The state of the abstract election is always well typed.                *)
THEOREM ElectionTypeCorrect == Spec => []TypeOK
<1>1. IInv => TypeOK
  BY DEF IInv
<1> QED BY <1>1, InitIInv, NextIInv, PTL DEF Spec

(* At most one leader per term, in every behaviour and for every           *)
(* configuration, because a vote is durable before it counts.              *)
THEOREM ElectionIsSafe == Spec => []AtMostOneLeader
BY InitIInv, NextIInv, IInvSafe, PTL DEF Spec
=============================================================================
