------------------------------- MODULE MCRaft -------------------------------
(* Small clusters for TLC: the scenarios, and the view under which states  *)
(* that cannot behave differently are one.                                 *)
EXTENDS Raft

CONSTANTS a, b, c, d, v

At(term, ids) == {[term |-> term, id |-> i] : i \in ids}

VoteTypes == {"Vote", "Voted"}
ElectionTypes == VoteTypes \cup {"PreVote", "PreVoted"}
AllTypes == ElectionTypes \cup {"Append", "AppendBatch", "Install", "Replicated"}

Voters2 == NewMembership(<<a, b>>, <<>>)
Voters3 == NewMembership(<<a, b, c>>, <<>>)
OnlyA == NewMembership(<<a>>, <<>>)
LearnerC == NewMembership(<<a, b>>, <<c>>)

Fresh(cap) == [i \in Id |-> NewState(cap)]
Saved(cap, term, vote, terms) ==
  [NewState(cap) EXCEPT !.term = term, !.vote = vote, !.commit = 1,
                        !.entries = [k \in 1..Len(terms) |-> Entry(k, terms[k], None)]]

(* Nothing happens to three fresh voters.                                  *)
Idle == [hooks |-> FALSE, genesis |-> Voters3, disk |-> Fresh(3), campaigns |-> {},
         beating |-> {}, carried |-> AllTypes, crashable |-> {}, compactors |-> {},
         growth |-> {}, clients |-> {}, batches |-> {}, learnerSets |-> {}, targets |-> {}]
IdleCluster == [Idle EXCEPT !.hooks = TRUE, !.disk = Fresh(4)]

-----------------------------------------------------------------------------
(* A fixed group.                                                          *)

Elections == [Idle EXCEPT !.campaigns = At(1, Id) \cup At(2, Id), !.carried = VoteTypes,
                          !.crashable = Id]

(* Fresh Clusters, which probe before they campaign.                       *)
Probing == [IdleCluster EXCEPT !.campaigns = At(1, {a, b}) \cup At(2, {a}), !.beating = {a},
                               !.carried = ElectionTypes, !.crashable = {a}]

Replication == [Idle EXCEPT !.campaigns = At(1, {a}), !.clients = {a}, !.batches = {<<v>>},
                            !.crashable = {a, b}]

(* Two terms in: a led term 1, committed an entry and crashed with a       *)
(* second that never left it, and refused its vote to c, which led term 2  *)
(* with b's vote and crashed likewise.  Entries 2 of a and c conflict,     *)
(* neither is committed.                                                   *)
OldTermDisk(cap) == [i \in Id |-> CASE i = a -> Saved(cap, 2, None, <<1, 1>>)
                                    [] i = b -> Saved(cap, 2, c, <<1>>)
                                    [] i = c -> Saved(cap, 2, c, <<1, 2>>)]

(* Cut off, c has since campaigned in vain in terms 3 and 4.               *)
OldTerm == [Idle EXCEPT !.disk = [OldTermDisk(3) EXCEPT ![c].term = 4],
                        !.campaigns = At(3, {a}) \cup At(5, {c}), !.crashable = {a, b}]

(* These disks with no room at a and c; a's log may be grown.              *)
FullLogs == [Idle EXCEPT !.disk = [OldTermDisk(2) EXCEPT ![b].cap = 3],
                         !.campaigns = At(3, {a}), !.beating = {a},
                         !.growth = {[id |-> a, cap |-> 3]}]

(* c led term 2 and kept two entries of its own, while a led term 3 and    *)
(* committed two entries with b.                                           *)
LaggardDisk(cap) == [i \in Id |-> CASE i = a -> [Saved(cap, 3, a, <<1, 3>>) EXCEPT !.commit = 2]
                                    [] i = b -> Saved(cap, 3, a, <<1, 3>>)
                                    [] i = c -> Saved(cap, 2, c, <<1, 2, 2>>)]
Compaction == [Idle EXCEPT !.disk = LaggardDisk(3), !.campaigns = At(4, {a}), !.beating = {a},
                           !.crashable = {c}, !.compactors = {a, c}]

(* The disk of a node that has committed and compacted all its log.        *)
Compacted(st) ==
  Install([st EXCEPT !.commit = LastId(st).index],
          [last |-> LastId(st), app |-> st.entries, membership |-> Voters3])

(* a and b have agreed on three entries and compacted them, c has missed   *)
(* all but the first: a's next barrier takes the last index there is, in   *)
(* the last term.                                                          *)
ExhaustedDisk == [i \in Id |-> IF i = c THEN Saved(4, 2, c, <<1>>)
                               ELSE Compacted(Saved(4, 3, a, <<1, 3, 3>>))]
Exhausted == [Idle EXCEPT !.disk = ExhaustedDisk, !.campaigns = At(4, {a}) \cup At(5, {a}),
                          !.compactors = {a}]

-----------------------------------------------------------------------------
(* A group that changes.                                                   *)

(* Voters a and b have agreed on one entry; c is a fresh joiner.  a makes  *)
(* it a learner, and then a voter in its own place.                        *)
Replacing == [IdleCluster EXCEPT
                !.genesis = Voters2,
                !.disk = [i \in Id |-> IF i \in {a, b} THEN Saved(6, 1, a, <<1>>) ELSE NewState(6)],
                !.campaigns = At(2, {a}), !.clients = {a},
                !.learnerSets = {<<c>>}, !.targets = {NewMembership(<<b, c>>, <<>>)}]

(* a, leading term 1, began to shrink the cluster to itself; nobody has    *)
(* received the joint configuration from it.                               *)
ShrinkDisk == [i \in Id |-> CASE i = a -> [Saved(6, 1, a, <<1>>) EXCEPT
                                             !.entries = Append(@, Entry(2, 1, Joint(Voters3, OnlyA)))]
                              [] i \in {b, c} -> Saved(6, 1, a, <<1>>)
                              [] OTHER -> NewState(6)]
Splitting == [IdleCluster EXCEPT !.disk = ShrinkDisk, !.campaigns = At(2, {a, b}), !.clients = {a}]
(* c has campaigned in vain in term 2.                                     *)
Shrinking == [Splitting EXCEPT !.disk = [ShrinkDisk EXCEPT ![c].term = 2, ![c].vote = c],
                               !.campaigns = At(2, {a}) \cup At(3, {b})]

(* Voters a and b and the learner c have agreed on one entry; d is a fresh *)
(* joiner for whom only c's slot is left.                                  *)
Evicting == [IdleCluster EXCEPT
               !.genesis = LearnerC,
               !.disk = [i \in Id |-> IF i = d THEN NewState(6)
                                      ELSE Saved(6, 1, IF i = c THEN None ELSE a, <<1>>)],
               !.campaigns = At(2, {a}), !.clients = {a},
               !.learnerSets = {<<d>>}, !.targets = {NewMembership(<<a, d>>, <<>>)}]

-----------------------------------------------------------------------------
FixedLogs == [election |-> Elections, probe |-> Probing, replication |-> Replication,
              old_term |-> OldTerm]
FixedStorage == [election |-> Elections, compaction |-> Compaction, full |-> FullLogs,
                 exhausted |-> Exhausted]
Changes == [replace |-> Replacing, split |-> Splitting, shrink |-> Shrinking,
            evict |-> Evicting]

-----------------------------------------------------------------------------
(* The view.  A reply is spent once its receiver has durably reached the   *)
(* reply's term and is not in the role that reads it: the role is entered  *)
(* only by campaigning from a lower term, so the reply changes nothing     *)
(* ever after.  An answered probe is spent once its term is reached, and a *)
(* refusal as soon as there is no term to learn from it.                   *)
Reader == [Voted |-> "Candidate", Replicated |-> "Leader"]
Spent(env) ==
  /\ env.msg.type \in {"PreVoted", "Voted", "Replicated"}
  /\ env.msg.term <= disk[env.to].term
  /\ \/ env.msg.type # "Replicated" /\ ~env.msg.granted
     \/ env.msg.type = "PreVoted" /\ env.msg.campaign <= disk[env.to].term
     \/ /\ env.msg.type \in DOMAIN Reader
        /\ LET n == nodes[env.to]
           IN  ~(n.role = Reader[env.msg.type] /\ n.st.term = env.msg.term)

(* Arrays that become_leader or campaign overwrites before anything reads  *)
(* them again.                                                             *)
Relevant(n) ==
  LET leads == n.role = "Leader" \/ n.dirty
      polls == n.role = "Candidate" \/ n.prevoting # None
  IN  [n EXCEPT !.next    = IF leads THEN @ ELSE Ones,
                !.matched = IF leads THEN @ ELSE Zeros,
                !.active  = IF leads THEN @ ELSE {},
                !.votes   = IF polls THEN @ ELSE {}]

View == <<scenario, [i \in Id |-> Relevant(nodes[i])], disk, {env \in net : ~Spent(env)}, elected, chosen>>
=============================================================================
