------------------------------ MODULE Election ------------------------------
(***************************************************************************)
(* What leader election promises under one configuration, without logs or  *)
(* messages.  A vote counts once it is durable, because only then does the *)
(* node publish it: the request of a candidate carries its vote for        *)
(* itself, a granted reply the vote for another (jarl/src/node.rs,         *)
(* campaign, step, next_message; refined by Raft).                         *)
(***************************************************************************)
EXTENDS Membership

CONSTANTS
  Config,   \* the configuration in force
  Term      \* the terms there are, 0 the first

ASSUME ConfigAssumption == Config \in Memberships
ASSUME TermAssumption == Term \subseteq Nat /\ 0 \in Term

VARIABLES
  term,     \* the durable term of every node
  vote,     \* its durable vote in that term
  cast,     \* every vote published, [voter, term, for]
  elected   \* every leader, [term, id]

vars == <<term, vote, cast, elected>>

Ballots == [voter : Id, term : Term, for : Id]

Init ==
  /\ term \in [Id -> Term]
  /\ vote \in [Id -> Id \cup {None}]
  /\ cast = {}
  /\ elected = {}

(* Mutants: a vote is changed within its term; a vote for nobody counts.   *)
SaveAnyVote(i, t, v) ==
  /\ t >= term[i]
  /\ term' = [term EXCEPT ![i] = t]
  /\ vote' = [vote EXCEPT ![i] = v]
  /\ cast' \in {cast, cast \cup {[voter |-> i, term |-> t, for |-> v]}}
  /\ v = None => cast' = cast
  /\ UNCHANGED elected
SaveNobody(i, t, v) ==
  /\ t >= term[i]
  /\ t = term[i] /\ vote[i] # None => v = vote[i]
  /\ term' = [term EXCEPT ![i] = t]
  /\ vote' = [vote EXCEPT ![i] = v]
  /\ cast' \in {cast, cast \cup {[voter |-> i, term |-> t, for |-> v]}}
  /\ UNCHANGED elected

(* A save: the term may rise, a vote in the same term stays.  The vote is  *)
(* published with the save or by a later reply that repeats it.            *)
Save(i, t, v) ==
  /\ t >= term[i]
  /\ t = term[i] /\ vote[i] # None => v = vote[i]
  /\ term' = [term EXCEPT ![i] = t]
  /\ vote' = [vote EXCEPT ![i] = v]
  /\ cast' \in {cast, cast \cup {[voter |-> i, term |-> t, for |-> v]}}
  /\ v = None => cast' = cast
  /\ UNCHANGED elected

Voters(t, i) == {b.voter : b \in {x \in cast : x.term = t /\ x.for = i}}

Elect(i, t) ==
  /\ Quorum(Config, Voters(t, i))
  /\ elected' = elected \cup {[term |-> t, id |-> i]}
  /\ UNCHANGED <<term, vote, cast>>

Next ==
  \/ \E i \in Id, t \in Term, v \in Id \cup {None} : Save(i, t, v)
  \/ \E i \in Id, t \in Term : Elect(i, t)

Spec == Init /\ [][Next]_vars

-----------------------------------------------------------------------------
TypeOK ==
  /\ term \in [Id -> Term]
  /\ vote \in [Id -> Id \cup {None}]
  /\ cast \subseteq Ballots
  /\ elected \subseteq [term : Term, id : Id]

(* A published vote binds its voter: the durable term has passed it, or is *)
(* still the same and so is the durable vote.                              *)
VotesBind ==
  \A x \in cast : \/ x.term < term[x.voter]
                  \/ x.term = term[x.voter] /\ vote[x.voter] = x.for

(* Nobody publishes two different votes in a term.                         *)
OneVote == \A x, y \in cast : x.voter = y.voter /\ x.term = y.term => x.for = y.for

(* Every leader has had a quorum of published votes.                       *)
QuorumBacked == \A e \in elected : Quorum(Config, Voters(e.term, e.id))

(* At most one node is ever leader in a term: election_quorum over the     *)
(* durable votes of step and campaign.                                     *)
AtMostOneLeader == \A x, y \in elected : x.term = y.term => x.id = y.id
=============================================================================
