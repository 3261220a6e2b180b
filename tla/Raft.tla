-------------------------------- MODULE Raft --------------------------------
(***************************************************************************)
(* Nodes of jarl/src/node.rs, each with a host that saves and drains, over *)
(* a network that loses, duplicates, delays and reorders.                  *)
(*                                                                         *)
(* The network is the set of every envelope ever sent: an envelope may be  *)
(* delivered at any later time, any number of times, or never.             *)
(*                                                                         *)
(* An operation that leaves nothing to save is drained in its own step.    *)
(* Until a host has drained its node no other operation of it is admitted, *)
(* so a crash before the drain differs from this only in envelopes that    *)
(* are never delivered.                                                    *)
(***************************************************************************)
EXTENDS Node

(* A scenario is a cluster with the disks it starts from and the bounds of *)
(* what happens to it; Scenarios maps names to records of                  *)
(*   hooks        whether the nodes serve Clusters or have a fixed group   *)
(*   genesis      the membership everyone was created with                 *)
(*   disk         the checkpoint of every identity                         *)
(*   campaigns    the [term, id] that may start, by deadline or probe      *)
(*   beating      nodes whose heartbeat and quorum check may come due      *)
(*   carried      message types the network carries; it loses the others   *)
(*   crashable    nodes that may crash                                     *)
(*   compactors   nodes that may compact                                   *)
(*   growth       the [id, cap] a host may grow its node to                *)
(*   clients      nodes that are sent commands and membership changes      *)
(*   batches      command sequences a client may propose                   *)
(*   learnerSets  arguments of set_learners                                *)
(*   targets      arguments of reconfigure                                 *)
CONSTANT Scenarios

(* What logs, checkpoints and callers' arguments are made of.              *)
LogIds == [index : 0..U64Max, term : 0..U64Max]
Entries == [id : LogIds, value : Value \cup {None} \cup Configs]
Snapshots == [last : LogIds, app : Seq(Entries), membership : Configs]
Checkpoints == [term : 0..U64Max, vote : Id \cup {None}, commit : 0..U64Max,
                snapshot : Snapshots \cup {None}, entries : Seq(Entries), cap : Nat]

ASSUME ValueAssumption == Value \cap Memberships = {}
Rejections == [kind : {"Conflict"}, next : Nat] \cup {Full}
ASSUME NothingAssumption ==
  None \notin Nat \cup LogIds \cup Entries \cup Snapshots \cup Rejections

ASSUME GenesisAssumption ==
  \A s \in DOMAIN Scenarios :
    LET g == Scenarios[s].genesis
    IN  Scenarios[s].hooks \in BOOLEAN /\ g \in Configs /\ ~IsJoint(g)

ASSUME DisksAssumption ==
  \A s \in DOMAIN Scenarios : \A i \in Id :
    Scenarios[s].disk[i] \in Checkpoints /\ Restorable(Scenarios[s].disk[i])

ASSUME CallersAssumption ==
  \A s \in DOMAIN Scenarios :
    /\ Scenarios[s].growth \subseteq [id : Id, cap : Nat]
    /\ Scenarios[s].batches \subseteq Seq(Value)
    /\ Scenarios[s].learnerSets \subseteq Seq(Id)
    /\ Scenarios[s].targets \subseteq Configs

VARIABLES
  scenario, \* the name of the scenario, chosen at the start
  nodes,    \* the node of every identity
  disk,     \* the checkpoint of every identity that survives a crash
  net,      \* every envelope ever sent
  elected,  \* history: every [term, id] that was a leader
  chosen    \* history: the longest log any node has published as committed

vars == <<scenario, nodes, disk, net, elected, chosen>>

Bounds == Scenarios[scenario]

(* committed() and snapshot(): what a host may apply, None while dirty.    *)
Committed(st) == AppliedThrough(st, st.commit)

Leading(n) == IF n.role = "Leader" THEN {[term |-> n.st.term, id |-> n.id]} ELSE {}
Longest(a, b) == IF Len(a) > Len(b) THEN a ELSE b
Sent(n) == {env \in Outgoing(n) : env.msg # None /\ env.msg.type \in Bounds.carried}

(* A system that starts, or restarts everywhere.                           *)
Init ==
  /\ scenario \in DOMAIN Scenarios
  /\ disk = [i \in Id |-> Bounds.disk[i]]
  /\ nodes = [i \in Id |-> Build(i, disk[i], Bounds.genesis, Bounds.hooks)]
  /\ net = {}
  /\ elected = {}
  /\ \E i \in Id : /\ \A j \in Id : disk[j].commit <= disk[i].commit
                   /\ chosen = Committed(disk[i])

(* Mutant: messages leave before what they report is saved.                *)
ActEagerly(i, n) ==
  /\ nodes' = [nodes EXCEPT ![i] = Drained(n)]
  /\ net' = net \cup Sent(n)
  /\ elected' = elected \cup Leading(n)
  /\ UNCHANGED <<scenario, disk, chosen>>

(* One operation of node i with result n.                                  *)
Act(i, n) ==
  /\ nodes' = [nodes EXCEPT ![i] = IF n.dirty THEN n ELSE Drained(n)]
  /\ net' = IF n.dirty THEN net ELSE net \cup Sent(n)
  /\ elected' = elected \cup Leading(n)
  /\ UNCHANGED <<scenario, disk, chosen>>

(* tick: leader_age is read only by probes, which only a Cluster sends.    *)
CanTick(i, check, due, ages) ==
  /\ Available(nodes[i])
  /\ check => nodes[i].hooks /\ nodes[i].role = "Leader"
  /\ (check \/ due) /\ nodes[i].role = "Leader" => i \in Bounds.beating
  /\ due /\ nodes[i].role # "Leader" =>
       /\ [term |-> nodes[i].st.term + 1, id |-> i] \in Bounds.campaigns
       /\ ages \/ nodes[i].aged
  /\ ages => ~nodes[i].aged /\ (nodes[i].hooks \/ due)
  /\ check \/ due \/ ages

Timer(i) ==
  \E check, due, ages \in BOOLEAN :
    CanTick(i, check, due, ages) /\ Act(i, Tick(nodes[i], check, due, ages))

Deliver(i) ==
  /\ Available(nodes[i])
  /\ \E env \in net : Accepts(nodes[i], env) /\ Act(i, Step(nodes[i], env))

Propose(i) ==
  /\ i \in Bounds.clients
  /\ \E values \in Bounds.batches : /\ CanAdmit(nodes[i], Len(values))
                             /\ Act(i, ProposeMany(nodes[i], values))

Compact(i) ==
  /\ i \in Bounds.compactors
  /\ \E index \in 1..U64Max : CanCompact(nodes[i], index) /\ Act(i, CompactWith(nodes[i], index))

(* grow: the program goes on, and restarts, with the larger capacity.      *)
GrowLog(i) ==
  \E g \in Bounds.growth :
    /\ g.id = i /\ g.cap > nodes[i].st.cap
    /\ nodes' = [nodes EXCEPT ![i] = GrowNode(@, g.cap)]
    /\ disk' = [disk EXCEPT ![i] = Grow(@, g.cap)]
    /\ UNCHANGED <<scenario, net, elected, chosen>>

ChangeLearners(i) ==
  /\ Bounds.hooks /\ i \in Bounds.clients
  /\ \E learners \in Bounds.learnerSets : /\ CanSetLearners(nodes[i], learners)
                                   /\ Act(i, SetLearners(nodes[i], learners))

BeginJoint(i) ==
  /\ Bounds.hooks /\ i \in Bounds.clients
  /\ \E target \in Bounds.targets : /\ CanReconfigure(nodes[i], target)
                             /\ Act(i, Reconfigure(nodes[i], target))

FinishJoint(i) ==
  /\ Bounds.hooks /\ i \in Bounds.clients
  /\ CanFinish(nodes[i])
  /\ Act(i, FinishReconfiguration(nodes[i]))

(* The host saves the pending write, acknowledges it and drains the node.  *)
Save(i) ==
  LET n == Persisted(nodes[i])
  IN  /\ nodes[i].dirty
      /\ disk' = [disk EXCEPT ![i] = ApplyWrite(@, Pending(nodes[i]))]
      /\ nodes' = [nodes EXCEPT ![i] = Drained(n)]
      /\ net' = net \cup Sent(n)
      /\ chosen' = Longest(chosen, Committed(n.st))
      /\ UNCHANGED <<scenario, elected>>

(* A crash loses everything but the disk, an unsaved operation included.   *)
Crash(i) ==
  /\ i \in Bounds.crashable
  /\ nodes' = [nodes EXCEPT ![i] = Build(i, disk[i], @.bootstrap, @.hooks)]
  /\ UNCHANGED <<scenario, disk, net, elected, chosen>>

(* While a node waits for its save nothing it has done is visible to the   *)
(* others and nothing they do is visible to it, so their steps can always  *)
(* be moved before its operation: one node at a time is enough.            *)
Turn(i) == \A j \in Id \ {i} : ~nodes[j].dirty

Next ==
  \E i \in Id : /\ Turn(i)
                /\ \/ Timer(i) \/ Deliver(i) \/ Propose(i) \/ Compact(i) \/ GrowLog(i)
                   \/ ChangeLearners(i) \/ BeginJoint(i) \/ FinishJoint(i)
                   \/ Save(i) \/ Crash(i)

Spec == Init /\ [][Next]_vars

-----------------------------------------------------------------------------
(* Properties.                                                             *)

(* The slots of a node: distinct identities, and only slots that exist are *)
(* counted, queued for or kept a position of (NodeInner's arrays).         *)
SlotsOK(n) ==
  /\ n.peers \in [Slot -> Id \cup {None}]
  /\ \A s, t \in Slot : n.peers[s] = n.peers[t] /\ s # t => n.peers[s] = None
  /\ n.votes \subseteq Slot /\ n.active \subseteq Slot
  /\ n.next \in [Slot -> 1..U64Max] /\ n.matched \in [Slot -> 0..U64Max]
  /\ \A s \in Slot : n.outbox[s] # None => n.peers[s] \in Id \ {n.id}

(* Every part of the state keeps its type.                                 *)
TypeOK ==
  /\ DOMAIN nodes = Id /\ DOMAIN disk = Id
  /\ \A i \in Id : LET n == nodes[i] IN
       /\ n.id = i /\ n.role \in {"Follower", "Candidate", "Leader"}
       /\ n.leader \in Id \cup {None} /\ n.membership \in Memberships
       /\ n.prevoting \in 1..U64Max \cup {None} /\ n.logFrom \in 1..U64Max \cup {None}
       /\ {n.dirty, n.snapChanged, n.aged} \subseteq BOOLEAN
       /\ SlotsOK(n)
  /\ \A st \in {nodes[i].st : i \in Id} \cup {disk[i] : i \in Id} :
       /\ st.term \in 0..U64Max /\ st.vote \in Id \cup {None} /\ st.commit \in 0..U64Max
       /\ {Base(st)} \cup {st.entries[k].id : k \in DOMAIN st.entries} \subseteq LogIds
  /\ \A env \in net : {env.from, env.to} \subseteq Id /\ env.msg.type \in Bounds.carried
  /\ elected \subseteq [term : 1..U64Max, id : Id]

(* The whole log of a checkpoint, the compacted prefix included.           *)
FullLog(st) == AppliedThrough(st, LastId(st).index)

(* At most one node is ever leader in a term, over the whole history       *)
(* (become_leader, the durable vote of step and campaign).                 *)
ElectionSafety == \A x, y \in elected : x.term = y.term => x.id = y.id

(* Two logs that hold the same entry identity at some index are equal up   *)
(* to it (append's predecessor check, truncate, install).                  *)
LogMatching ==
  \A i, j \in Id :
    LET A == FullLog(nodes[i].st)
        B == FullLog(nodes[j].st)
    IN  \A k \in DOMAIN A \cap DOMAIN B : A[k].id = B[k].id => SubSeq(A, 1, k) = SubSeq(B, 1, k)

(* The newest leader's log holds everything any node has published (the    *)
(* up-to-date check of step, the current-term rule of advance_commit).     *)
LeaderCompleteness ==
  \A i \in Id :
    nodes[i].role = "Leader" /\ (\A x \in elected : x.term <= nodes[i].st.term)
      => IsPrefix(chosen, FullLog(nodes[i].st))

(* Voters of the latest configuration among the published entries.         *)
ChosenVoters ==
  LET records == {k \in DOMAIN chosen : Bounds.hooks /\ chosen[k].value \in Memberships}
  IN  IF records = {} THEN Bounds.genesis.voters
      ELSE chosen[CHOOSE k \in records : \A j \in records : j <= k].value.voters

(* Whatever a node publishes as committed is on the disks of a majority,   *)
(* although a leader counts its own log before it is saved (barrier,       *)
(* propose_many) and followers acknowledge through the dirty gate of       *)
(* next_message.                                                           *)
PublishedIsDurable ==
  Majority(ChosenVoters, {i \in Id : IsPrefix(chosen, FullLog(disk[i]))})

(* A leader's matched position never overstates what the peer has on disk  *)
(* while the peer is still in the leader's term (replicated, append).      *)
MatchedIsDurable ==
  \A i \in Id : LET n == nodes[i] IN
    n.role = "Leader" =>
      \A s \in Slot : LET j == n.peers[s] IN
        j \in Id \ {i} /\ disk[j].term = n.st.term
          => IsPrefix(SubSeq(FullLog(n.st), 1, n.matched[s]), FullLog(disk[j]))

(* An acknowledgement goes to the node that led its term and asked for it, *)
(* although slots change hands while a request is handled (reply,          *)
(* extra_reply, refresh_membership).                                       *)
AcksReachTheirLeader ==
  \A env \in net : env.msg.type = "Replicated" /\ env.msg.rejection = None =>
    [term |-> env.msg.term, id |-> env.to] \in elected

(* A leader hint always names a node that was elected in the hinting       *)
(* node's own term (follow, campaign, become_leader).                      *)
LeaderHint ==
  \A i \in Id : nodes[i].leader # None =>
    [term |-> nodes[i].st.term, id |-> nodes[i].leader] \in elected

(* What a group that elects and replicates must never lose, whatever the   *)
(* network does: leaders are unique and known truly, logs match, and a new *)
(* leader has everything published (step, append, advance_commit).         *)
RaftSafety == ElectionSafety /\ LeaderHint /\ LogMatching /\ LeaderCompleteness

(* The incremental write of ready() brings the disk exactly to the state   *)
(* in memory, and nothing is unsaved when none is pending.                 *)
SaveIsExact ==
  \A i \in Id : nodes[i].st = IF nodes[i].dirty THEN ApplyWrite(disk[i], Pending(nodes[i]))
                               ELSE disk[i]

(* Every checkpoint that may be left on disk passes State::restore.        *)
DiskRestores == \A i \in Id : Restorable(disk[i])

(* What anybody counts on after a crash is on the disks: each holds what   *)
(* its node believes saved and can be restored, peers hold what a leader   *)
(* counts, a majority what was published (ready, persisted, next_message). *)
Durability == SaveIsExact /\ DiskRestores /\ MatchedIsDurable /\ PublishedIsDurable

(* Each queued descriptor becomes a message that its receiver finds valid: *)
(* the drain loop of next_message never stops early on a None.             *)
DrainIsTotal ==
  \A i \in Id : \A env \in Outgoing(nodes[i]) : env.to \in Id /\ env.msg # None /\ Valid(env.msg)

(* A leader probes from a position that exists, after what the peer has    *)
(* acknowledged: the range replicated clamps to is never empty.            *)
ProgressInRange ==
  \A i \in Id : LET n == nodes[i] IN
    n.role = "Leader" => \A s \in Slot : n.peers[s] \notin {None, i} =>
      n.next[s] \in SaturatingSucc(n.matched[s])..SaturatingSucc(LastId(n.st).index)

(* A leader's progress always yields messages: positions exist and every   *)
(* descriptor queued for them drains (replicated, next_message).           *)
Drainable == ProgressInRange /\ DrainIsTotal

(* The cached membership is the one the log defines, and every member has  *)
(* a slot (the refresh_membership calls of propose_many, append, commit_to *)
(* and Install).                                                           *)
CachedMembership ==
  \A i \in Id : LET n == nodes[i] IN
    /\ n.membership = MembershipAt(n, LastId(n.st).index).membership
    /\ Ids(n.membership.slots) \subseteq Ids(n.peers)

(* A leader outside its own configuration is one whose removal has not     *)
(* committed yet: refresh_membership steps it down once commit_to gets     *)
(* there.                                                                  *)
RemovedLeaderSteps ==
  \A i \in Id : LET n == nodes[i] IN
    n.role = "Leader" /\ ~IsVoter(n.membership, i)
      => MembershipAt(n, LastId(n.st).index).index > n.st.commit

(* Changes of configuration follow one another singly: each is adjacent to *)
(* the one before it in the log, which every node had agreed on when it    *)
(* was proposed (change_available, finish_reconfiguration).                *)
ChangesInTurn ==
  \A i \in Id :
    LET log     == FullLog(nodes[i].st)
        records == {k \in DOMAIN log : log[k].value \in Memberships}
        before(k) == {j \in records : j < k}
        latest(k) == CHOOSE j \in before(k) : \A h \in before(k) : h <= j
    IN  \A k \in records :
          /\ Adjacent(IF before(k) = {} THEN Bounds.genesis ELSE log[latest(k)].value, log[k].value)
          /\ before(k) # {} => latest(k) <= Len(chosen)

(* The promise to applications: one growing log, of which every disk holds *)
(* a prefix as its committed part.                                         *)
Abstract == INSTANCE ReplicatedLog
              WITH Replica <- Id, chosen <- chosen, learned <- [i \in Id |-> Committed(disk[i])]
ImplementsReplicatedLog == Abstract!Spec

(* Elections under a fixed membership, the same in every scenario, follow  *)
(* the abstract protocol.  A candidate's own vote is published by its      *)
(* requests.                                                               *)
PublishedVotes ==
  {[voter |-> e.from, term |-> e.msg.term, for |-> e.to] :
     e \in {x \in net : x.msg.type = "Voted" /\ x.msg.granted}} \cup
  {[voter |-> e.from, term |-> e.msg.term, for |-> e.from] :
     e \in {x \in net : x.msg.type = "Vote"}}
FixedGroup == Scenarios[CHOOSE s \in DOMAIN Scenarios : TRUE].genesis
Voting == INSTANCE Election
            WITH Config <- FixedGroup, Term <- 0..U64Max,
                 term <- [i \in Id |-> disk[i].term], vote <- [i \in Id |-> disk[i].vote],
                 cast <- PublishedVotes, elected <- elected
ImplementsElection == Voting!Spec
=============================================================================
