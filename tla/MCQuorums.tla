----------------------------- MODULE MCQuorums ------------------------------
(* What quorums are for, each part on its own: a behaviour is the life of a  *)
(* configuration, or an election among three voters in two terms.           *)
EXTENDS MembershipChanges, Election, TLC
CONSTANTS a, b, c, d

(* Four identities competing for three slots: every list of up to two, and *)
(* of three without repetition.                                            *)
ShortLists == UNION {[1..k -> Id] : k \in 0..2} \cup {l \in [1..3 -> Id] : NoRepeat(l)}

ThreeVoters == NewMembership(<<a, b, c>>, <<>>)

(* Of Config an election sees only who votes, so the three may be exchanged. *)
(* The fourth neither votes nor stands.                                     *)
Exchanges == Permutations({a, b, c})

VARIABLE part   \* which of the two

MCInit ==
  \/ /\ part = "changes"
     /\ ChangesInit
     /\ term = [i \in Id |-> 0] /\ vote = [i \in Id |-> None] /\ cast = {} /\ elected = {}
  \/ /\ part = "votes"
     /\ Init
     /\ m = NewMembership(<<d>>, <<>>)
     /\ \A i \in Id : vote[i] # d
     /\ term[d] = 0 /\ vote[d] = None

MCNext ==
  \/ part = "changes" /\ ChangesNext /\ UNCHANGED <<vars, part>>
  \/ /\ part = "votes"
     /\ Next
     /\ \A i \in Id : vote'[i] # d
     /\ UNCHANGED <<term[d], vote[d], m, part>>

MCSpec == MCInit /\ [][MCNext]_<<vars, m, part>>
=============================================================================
