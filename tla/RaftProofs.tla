----------------------------- MODULE RaftProofs -----------------------------
(***************************************************************************)
(* A group of nodes whose membership is fixed elects as Election promises, *)
(* so that a term has one leader, for any number of nodes, messages,       *)
(* crashes and log operations.                                             *)
(*                                                                         *)
(* Most of a node never touches what elections depend on: term, vote,      *)
(* role, votes counted and vote messages queued.  Keeps says so, and holds *)
(* of every operation on the log.  What is left is the few operations that *)
(* vote, campaign or become leader, and the save that makes a vote count.  *)
(*                                                                         *)
(* The second half prepares LogProofs: the ledger of what every leader has *)
(* on disk, why no later leader misses a decided entry, and what a leader, *)
(* a follower and a save do to the ledger.                                 *)
(***************************************************************************)
EXTENDS DurableProofs

(* The membership is fixed and no node is a quorum by itself: a group of   *)
(* one becomes leader without publishing a vote.                           *)
FixedGroups ==
  /\ \A s \in DOMAIN Scenarios : ~Scenarios[s].hooks /\ Scenarios[s].genesis = FixedGroup
  /\ \A i \in Id : ~Quorum(FixedGroup, {i})

(* The fields of a checkpoint.                                             *)
StFields == {"term", "vote", "commit", "snapshot", "entries", "cap"}

(* A node of the fixed group.                                              *)
InGroup(n) ==
  /\ DOMAIN n = NodeFields /\ DOMAIN n.st = StFields
  /\ n.id \in Id /\ ~n.hooks /\ n.extra = None
  /\ n.bootstrap = FixedGroup /\ n.membership = FixedGroup /\ n.peers = FixedGroup.slots
  /\ n.role # "Follower" => IsVoter(FixedGroup, n.id)
  /\ DOMAIN n.outbox = Slot

(* r is n after an operation that elections do not depend on.              *)
Keeps(n, r) ==
  /\ InGroup(r) /\ r.id = n.id
  /\ r.st.term = n.st.term /\ r.st.vote = n.st.vote
  /\ r.role = n.role /\ r.leader = n.leader /\ r.votes = n.votes
  /\ n.dirty => r.dirty
  /\ \A s \in Slot : \/ r.outbox[s] = n.outbox[s]
                     \/ /\ r.outbox[s] = ReplicateOut /\ n.role = "Leader"
                        /\ n.peers[s] \in Id

-----------------------------------------------------------------------------
(* Operations on the log.                                                  *)

(* What two operations in a row keep.                                      *)
LEMMA KeepsOn ==
  ASSUME NEW n, NEW a, NEW b, InGroup(n), Keeps(n, a), Keeps(a, b)
  PROVE  Keeps(n, b)
BY DEF Keeps, InGroup

(* The group has a well-formed membership.                                 *)
LEMMA Group ==
  ASSUME FixedGroups, NEW s \in DOMAIN Scenarios
  PROVE  /\ FixedGroup \in Memberships /\ Ids(FixedGroup.slots) = FixedGroup.voters \cup FixedGroup.learners
         /\ ~IsJoint(FixedGroup) /\ DOMAIN FixedGroup.slots = Slot
         /\ \A t \in Slot : FixedGroup.slots[t] \in Id \cup {None}
<1>1. FixedGroup = Scenarios[s].genesis
  BY DEF FixedGroups
<1>2. /\ FixedGroup \in Memberships /\ Ids(FixedGroup.slots) = FixedGroup.voters \cup FixedGroup.learners
      /\ ~IsJoint(FixedGroup)
  BY <1>1, GenesisAssumption DEF Configs, IsJoint
<1> QED BY <1>2 DEF Memberships

(* A fixed group has slots for all its members already.                    *)
LEMMA TrackAllKeeps ==
  ASSUME FixedGroups, NEW sc \in DOMAIN Scenarios, NEW n, n.peers = FixedGroup.slots
  PROVE  TrackAll(n, FixedGroup.slots) = n
<1> DEFINE ids == FixedGroup.slots
           Is(f) == f = [s \in 0..MAX |-> IF s = 0 THEN n ELSE Track(f[s - 1], ids[s])]
           h == CHOOSE f : Is(f)
<1>1. MAX \in Nat
  BY MaxAssumption
<1>2. ASSUME NEW s \in 1..MAX PROVE Track(n, ids[s]) = n
  <2>1. s \in DOMAIN n.peers /\ n.peers[s] = ids[s]
    BY Group DEF Slot
  <2>2. ids[s] = None \/ ids[s] \in Ids(n.peers)
    BY <2>1 DEF Ids
  <2> QED BY <2>2 DEF Track
<1>3. Is([s \in 0..MAX |-> n])
  <2> DEFINE g == [s \in 0..MAX |-> n]
  <2>1. \A s \in 0..MAX : g[s] = IF s = 0 THEN n ELSE Track(g[s - 1], ids[s])
    BY <1>1, <1>2
  <2> QED BY <2>1
<1>4. Is(h)
  BY <1>3
<1>5. TrackAll(n, ids) = h[MAX]
  BY DEF TrackAll
<1> HIDE DEF h
<1> DEFINE T == {s \in 0..MAX : h[s] = n}
<1>6. 0 \in T
  BY <1>1, <1>4
<1>7. ASSUME NEW s \in 1..MAX, s - 1 \in T PROVE s \in T
  BY <1>1, <1>2, <1>4, <1>7, SMTT(30)
<1> HIDE DEF T
<1>8. 0..MAX \subseteq T
  BY <1>1, <1>6, <1>7, Upward
<1>9. MAX \in T
  BY <1>1, <1>8
<1> QED BY <1>5, <1>9 DEF T

(* A fixed group refreshes to itself, and its leader stays.                *)
LEMMA RefreshKeeps ==
  ASSUME FixedGroups, NEW sc \in DOMAIN Scenarios, NEW n, InGroup(n)
  PROVE  Keeps(n, RefreshMembership(n))
<1> DEFINE x == [n EXCEPT !.membership = FixedGroup]
<1>1. DOMAIN x = NodeFields /\ x.membership = FixedGroup /\ \A f \in NodeFields \ {"membership"} : x[f] = n[f]
  BY DEF InGroup, NodeFields
<1> HIDE DEF x
<1>a. Keeps(n, x)
  BY <1>1 DEF Keeps, InGroup, NodeFields
<1>2. MembershipAt(n, LastId(n.st).index) = [index |-> 0, membership |-> FixedGroup]
  BY DEF MembershipAt, InGroup
<1>3. TrackAll(x, FixedGroup.slots) = x
  BY <1>a, TrackAllKeeps DEF Keeps, InGroup
<1>4. RefreshMembership(n) = StepDownIfRemoved(x, 0)
  BY <1>2, <1>3 DEF RefreshMembership, Adopt, x
<1>5. StepDownIfRemoved(x, 0) = x
  BY <1>a DEF StepDownIfRemoved, Keeps, InGroup
<1> QED BY <1>a, <1>4, <1>5

(* Fields that elections do not depend on.                                 *)
Log == {"st", "dirty", "logFrom", "snapChanged", "active", "next", "matched",
        "prevoting", "aged"}

(* An operation on the log alone.                                          *)
LEMMA LogKeeps ==
  ASSUME NEW n, InGroup(n), NEW r, DOMAIN r = NodeFields,
         \A f \in NodeFields \ Log : r[f] = n[f],
         DOMAIN r.st = StFields, r.st.term = n.st.term, r.st.vote = n.st.vote, n.dirty => r.dirty
  PROVE  Keeps(n, r)
<1>1. /\ r.id = n.id /\ r.bootstrap = n.bootstrap /\ r.hooks = n.hooks /\ r.role = n.role
      /\ r.leader = n.leader /\ r.membership = n.membership /\ r.peers = n.peers /\ r.votes = n.votes
      /\ r.outbox = n.outbox /\ r.extra = n.extra
  BY DEF NodeFields, Log
<1> QED BY <1>1 DEF Keeps, InGroup

(* commit_to and advance_commit                                            *)
LEMMA CommitKeeps ==
  ASSUME FixedGroups, NEW sc \in DOMAIN Scenarios, NEW n, InGroup(n), NEW index
  PROVE  Keeps(n, CommitTo(n, index)) /\ Keeps(n, AdvanceCommit(n))
<1>0. Keeps(n, n)
  BY DEF Keeps, InGroup
<1>1. ASSUME NEW k PROVE Keeps(n, CommitTo(n, k))
  <2> DEFINE x == [n EXCEPT !.st.commit = k, !.dirty = TRUE]
  <2>1. Keeps(n, x)
    <3>1. /\ DOMAIN x = NodeFields /\ x.st = [n.st EXCEPT !.commit = k] /\ x.dirty
          /\ \A f \in NodeFields \ Log : x[f] = n[f]
      BY DEF InGroup, NodeFields, Log
    <3> HIDE DEF x
    <3>2. DOMAIN x.st = StFields /\ x.st.term = n.st.term /\ x.st.vote = n.st.vote
      BY <3>1 DEF InGroup, StFields
    <3> QED BY <3>1, <3>2, LogKeeps
  <2> HIDE DEF x
  <2>2. Keeps(x, RefreshMembership(x))
    BY <2>1, RefreshKeeps DEF Keeps
  <2>3. Keeps(n, RefreshMembership(x))
    BY <2>1, <2>2, KeepsOn
  <2> QED BY <1>0, <2>3 DEF CommitTo, x
<1> QED BY <1>0, <1>1 DEF AdvanceCommit

(* The leader's own position.                                              *)
LEMMA MatchSelfKeeps ==
  ASSUME NEW n, InGroup(n), NEW index
  PROVE  Keeps(n, MatchSelf(n, index))
<1>1. CASE Local(n) = 0
  BY <1>1 DEF MatchSelf, Keeps, InGroup
<1>2. CASE Local(n) # 0
  <2> DEFINE x == [n EXCEPT !.matched[Local(n)] = index]
  <2>1. DOMAIN x = NodeFields /\ x.st = n.st /\ x.dirty = n.dirty /\ \A f \in NodeFields \ Log : x[f] = n[f]
    BY DEF InGroup, NodeFields, Log
  <2> HIDE DEF x
  <2>2. Keeps(n, x)
    BY <2>1, LogKeeps DEF InGroup
  <2> QED BY <1>2, <2>2 DEF MatchSelf, x
<1> QED BY <1>1, <1>2

(* barrier                                                                 *)
LEMMA BarrierKeeps ==
  ASSUME FixedGroups, NEW sc \in DOMAIN Scenarios, NEW n, InGroup(n)
  PROVE  Keeps(n, Barrier(n))
<1> DEFINE index == LastId(n.st).index + 1
           e == Entry(index, n.st.term, None)
           x == [n EXCEPT !.st = Push(@, e), !.dirty = TRUE, !.logFrom = index]
<1>0. Keeps(n, n)
  BY DEF Keeps, InGroup
<1>1. Keeps(n, x)
  <2> HIDE DEF e, index
  <2>1. /\ DOMAIN x = NodeFields /\ x.st = Push(n.st, e) /\ x.dirty
        /\ \A f \in NodeFields \ Log : x[f] = n[f]
    BY DEF InGroup, NodeFields, Log
  <2> HIDE DEF x
  <2>2. DOMAIN x.st = StFields /\ x.st.term = n.st.term /\ x.st.vote = n.st.vote
    BY <2>1 DEF InGroup, StFields, Push
  <2> QED BY <2>1, <2>2, LogKeeps
<1> HIDE DEF x
<1>2. Keeps(x, MatchSelf(x, index))
  BY <1>1, MatchSelfKeeps DEF Keeps
<1> DEFINE y == MatchSelf(x, index)
<1>3. Keeps(n, y)
  BY <1>1, <1>2, KeepsOn
<1> HIDE DEF y
<1>4. Keeps(y, AdvanceCommit(y))
  BY <1>3, CommitKeeps DEF Keeps
<1>5. Keeps(n, AdvanceCommit(y))
  BY <1>3, <1>4, KeepsOn
<1> QED BY <1>0, <1>5 DEF Barrier, x, y

(* send_all queues only for other peers.                                   *)
LEMMA SendAllFields ==
  ASSUME NEW n, InGroup(n), NEW ids \in SUBSET Id, NEW out
  PROVE  LET r == SendAll(n, ids, out) IN
         /\ DOMAIN r = NodeFields /\ \A f \in NodeFields \ {"outbox"} : r[f] = n[f]
         /\ DOMAIN r.outbox = Slot
         /\ \A s \in Slot : r.outbox[s] = n.outbox[s] \/ (r.outbox[s] = out /\ n.peers[s] \in Id)
<1> DEFINE r == SendAll(n, ids, out)
<1>1. /\ DOMAIN r = NodeFields /\ \A f \in NodeFields \ {"outbox"} : r[f] = n[f]
      /\ r.outbox = [s \in Slot |-> IF s # Local(n) /\ n.peers[s] \in ids THEN out ELSE n.outbox[s]]
  BY DEF SendAll, InGroup, NodeFields
<1> HIDE DEF r
<1> QED BY <1>1 DEF r

(* bcast of a leader                                                       *)
LEMMA BroadcastKeeps ==
  ASSUME FixedGroups, NEW sc \in DOMAIN Scenarios, NEW n, InGroup(n), n.role = "Leader"
  PROVE  Keeps(n, Broadcast(n))
<1> DEFINE ids == Ids(n.membership.slots)
           r == SendAll(n, ids, ReplicateOut)
<1>1. ids \in SUBSET Id
  BY Group DEF InGroup, Ids
<1>2. Broadcast(n) = r
  BY DEF Broadcast
<1> HIDE DEF ids
<1>3. /\ DOMAIN r = NodeFields /\ \A f \in NodeFields \ {"outbox"} : r[f] = n[f]
      /\ DOMAIN r.outbox = Slot
      /\ \A s \in Slot : r.outbox[s] = n.outbox[s] \/ (r.outbox[s] = ReplicateOut /\ n.peers[s] \in Id)
  BY <1>1, SendAllFields
<1> HIDE DEF r
<1>4. /\ r.id = n.id /\ r.bootstrap = n.bootstrap /\ r.hooks = n.hooks /\ r.role = n.role /\ r.st = n.st
      /\ r.leader = n.leader /\ r.membership = n.membership /\ r.peers = n.peers /\ r.votes = n.votes
      /\ r.dirty = n.dirty /\ r.extra = n.extra
  BY <1>3 DEF NodeFields
<1> QED BY <1>2, <1>3, <1>4 DEF Keeps, InGroup

(* The log a leader adds to, compacts, or has acknowledged, then broadcast.*)
LEMMA LeaderKeeps ==
  ASSUME FixedGroups, NEW sc \in DOMAIN Scenarios, NEW n, InGroup(n), n.role = "Leader", NEW r, Keeps(n, r)
  PROVE  /\ Keeps(n, Broadcast(r)) /\ Keeps(n, Broadcast(Barrier(r))) /\ Keeps(n, Broadcast(AdvanceCommit(r)))
<1>1. InGroup(r) /\ r.role = "Leader"
  BY DEF Keeps
<1>2. ASSUME NEW x, Keeps(r, x) PROVE Keeps(n, Broadcast(x))
  <2>1. Keeps(n, x)
    BY <1>2, KeepsOn
  <2>2. InGroup(x) /\ x.role = "Leader"
    BY <1>1, <1>2 DEF Keeps
  <2>3. Keeps(x, Broadcast(x))
    BY <2>2, BroadcastKeeps
  <2> QED BY <2>1, <2>3, KeepsOn
<1>3. Keeps(r, r)
  BY <1>1 DEF Keeps, InGroup
<1>4. Keeps(r, Barrier(r)) /\ Keeps(r, AdvanceCommit(r))
  BY <1>1, BarrierKeeps, CommitKeeps
<1> QED BY <1>2, <1>3, <1>4

(* Replacing the log from an entry on.                                     *)
LEMMA OverwriteKeeps ==
  ASSUME FixedGroups, NEW sc \in DOMAIN Scenarios, NEW n, InGroup(n), NEW entry
  PROVE  Keeps(n, Overwrite(n, entry))
<1> DEFINE index == entry.id.index
           x == [n EXCEPT !.st = Push(Truncate(@, index), entry)]
           y == RefreshMembership(x)
           z == [y EXCEPT !.dirty = TRUE, !.logFrom = IF @ = None THEN index ELSE Min2(@, index)]
<1>1. Keeps(n, x)
  <2> HIDE DEF index
  <2>1. /\ DOMAIN x = NodeFields /\ x.st = Push(Truncate(n.st, index), entry) /\ x.dirty = n.dirty
        /\ \A f \in NodeFields \ Log : x[f] = n[f]
    BY DEF InGroup, NodeFields, Log
  <2> HIDE DEF x
  <2>2. DOMAIN x.st = StFields /\ x.st.term = n.st.term /\ x.st.vote = n.st.vote
    BY <2>1 DEF InGroup, StFields, Push, Truncate
  <2> QED BY <2>1, <2>2, LogKeeps
<1> HIDE DEF x, index
<1>2. Keeps(n, y) /\ InGroup(y)
  <2>1. Keeps(x, y)
    BY <1>1, RefreshKeeps DEF Keeps
  <2> QED BY <1>1, <2>1, KeepsOn DEF Keeps
<1> HIDE DEF y
<1>3. Keeps(y, z)
  <2>1. /\ DOMAIN z = NodeFields /\ z.st = y.st /\ z.dirty
        /\ \A f \in NodeFields \ Log : z[f] = y[f]
    BY <1>2 DEF InGroup, NodeFields, Log
  <2> HIDE DEF z
  <2> QED BY <1>2, <2>1, LogKeeps DEF InGroup
<1>4. Overwrite(n, entry) = z
  BY DEF Overwrite, x, y, index
<1> HIDE DEF z
<1> QED BY <1>2, <1>3, <1>4, KeepsOn

(* append                                                                  *)
LEMMA AppendKeeps ==
  ASSUME FixedGroups, NEW sc \in DOMAIN Scenarios, NEW n, InGroup(n), NEW previous, NEW entry, NEW commit
  PROVE  Keeps(n, AppendOne(n, previous, entry, commit).n)
<1> DEFINE p == Place(n, previous, entry)
<1>0. Keeps(n, n)
  BY DEF Keeps, InGroup
<1>1. DOMAIN p = {"n", "index", "rejection", "agreed"} /\ (p.n = n \/ p.n = Overwrite(n, entry))
  BY DEF Place, PlaceEntry, Accept, Refuse
<1> HIDE DEF p
<1>2. Keeps(n, p.n) /\ InGroup(p.n)
  BY <1>0, <1>1, OverwriteKeeps DEF Keeps
<1>3. AppendOne(n, previous, entry, commit).n = CommitTo(p.n, Min2(commit, p.agreed))
  BY <1>1 DEF AppendOne, CommitAgreed, p
<1>4. Keeps(p.n, CommitTo(p.n, Min2(commit, p.agreed)))
  BY <1>2, CommitKeeps
<1> QED BY <1>2, <1>3, <1>4, KeepsOn

(* install                                                                 *)
LEMMA InstallKeeps ==
  ASSUME FixedGroups, NEW sc \in DOMAIN Scenarios, NEW n, InGroup(n), NEW snapshot
  PROVE  Keeps(n, InstallSnapshot(n, snapshot).n)
<1> DEFINE from == InstallFrom(n, snapshot.last)
           x == [n EXCEPT !.st = Install(@, snapshot), !.logFrom = from]
           y == RefreshMembership(x)
           z == [y EXCEPT !.snapChanged = TRUE, !.dirty = TRUE]
<1>0. Keeps(n, n)
  BY DEF Keeps, InGroup
<1>1. Keeps(n, x)
  <2> HIDE DEF from
  <2>1. /\ DOMAIN x = NodeFields /\ x.st = Install(n.st, snapshot) /\ x.dirty = n.dirty
        /\ \A f \in NodeFields \ Log : x[f] = n[f]
    BY DEF InGroup, NodeFields, Log
  <2> HIDE DEF x
  <2>2. DOMAIN x.st = StFields /\ x.st.term = n.st.term /\ x.st.vote = n.st.vote
    BY <2>1 DEF InGroup, StFields, Install
  <2> QED BY <2>1, <2>2, LogKeeps
<1> HIDE DEF x, from
<1>2. Keeps(n, y) /\ InGroup(y)
  <2>1. Keeps(x, y)
    BY <1>1, RefreshKeeps DEF Keeps
  <2> QED BY <1>1, <2>1, KeepsOn DEF Keeps
<1> HIDE DEF y
<1>3. Keeps(y, z)
  <2>1. /\ DOMAIN z = NodeFields /\ z.st = y.st /\ z.dirty
        /\ \A f \in NodeFields \ Log : z[f] = y[f]
    BY <1>2 DEF InGroup, NodeFields, Log
  <2> HIDE DEF z
  <2> QED BY <1>2, <2>1, LogKeeps DEF InGroup
<1>4. TakeSnapshot(n, snapshot) = z
  BY DEF TakeSnapshot, x, y, from
<1> HIDE DEF z
<1>5. Keeps(n, z)
  BY <1>2, <1>3, KeepsOn
<1>6. InstallSnapshot(n, snapshot).n \in {n, TakeSnapshot(n, snapshot)}
  BY DEF InstallSnapshot
<1> QED BY <1>0, <1>4, <1>5, <1>6

-----------------------------------------------------------------------------
(* What elections depend on.                                               *)

(* j has asked for votes in term t: its own vote is published.             *)
Asked(N, j, t) == \E x \in N : x.from = j /\ x.msg.type = "Vote" /\ x.msg.term = t

(* A voter has published its vote for j in term t.                         *)
Ballot(N, voter, j, t) ==
  \/ \E x \in N : /\ x.from = voter /\ x.to = j /\ x.msg.type = "Voted"
                  /\ x.msg.term = t /\ x.msg.granted
  \/ voter = j /\ Asked(N, j, t)

(* A queued message says nothing about the election but what is true: it   *)
(* asks for votes with the node's own, grants the node's vote to one who   *)
(* asked, or comes from a leader.                                          *)
Honest(n, N, s, out) ==
  /\ n.peers[s] \in Id
  /\ out.kind \in {"Vote", "Voted", "Replicate", "Replicated"}
  /\ out.kind = "Vote" => n.st.vote = n.id
  /\ out.kind = "Voted" /\ out.granted =>
       n.st.vote = n.peers[s] /\ Asked(N, n.peers[s], n.st.term)
  /\ out.kind = "Replicate" => n.role = "Leader"

(* The votes a candidate counts: its own, and those published for it.      *)
Counted(n, N) ==
  /\ n.st.vote = n.id
  /\ \A s \in n.votes : /\ n.peers[s] \in Id
                        /\ \/ n.peers[s] = n.id
                           \/ Ballot(N, n.peers[s], n.id, n.st.term)

(* A checkpoint's term and vote.                                           *)
HardState(st) ==
  DOMAIN st = StFields /\ st.term \in 0..U64Max /\ st.vote \in Id \cup {None}

(* A save of st over saved is one the abstract election allows.            *)
Follows(saved, st) == /\ saved.term <= st.term
                      /\ saved.term = st.term /\ saved.vote # None => st.vote = saved.vote

(* Node i over its disk, in a network N where E were elected.             *)
Sound(i, n, saved, N, E) ==
  /\ InGroup(n) /\ n.id = i
  /\ HardState(n.st) /\ HardState(saved) /\ Follows(saved, n.st)
  /\ ~n.dirty => n.st.term = saved.term /\ n.st.vote = saved.vote
  /\ \A s \in Slot : n.outbox[s] # None => Honest(n, N, s, n.outbox[s])
  /\ n.role = "Candidate" => Counted(n, N)
  /\ n.role = "Leader" => [term |-> n.st.term, id |-> i] \in E
  /\ n.leader # None => n.leader \in Id /\ [term |-> n.st.term, id |-> n.leader] \in E

(* An envelope says nothing but what is true.                              *)
Truthful(e, N, E) ==
  /\ e.from \in Id /\ e.to \in Id
  /\ e.msg.type \in {"Vote", "Voted", "Append", "Install", "Replicated"}
  /\ e.msg.term \in 0..U64Max
  /\ e.msg.type = "Voted" /\ e.msg.granted => Asked(N, e.to, e.msg.term)
  /\ e.msg.type \in {"Append", "Install"} => [term |-> e.msg.term, id |-> e.from] \in E

(* The inductive invariant.                                                *)
RInv ==
  /\ scenario \in DOMAIN Scenarios
  /\ DOMAIN nodes = Id /\ DOMAIN disk = Id
  /\ elected \subseteq [term : 0..U64Max, id : Id]
  /\ \A i \in Id : Sound(i, nodes[i], disk[i], net, elected)
  /\ \A e \in net : Truthful(e, net, elected)

-----------------------------------------------------------------------------
(* Soundness is kept.                                                      *)

(* By operations that elections do not depend on.                          *)
LEMMA KeepsSound ==
  ASSUME NEW i \in Id, NEW n, NEW saved, NEW N, NEW E, Sound(i, n, saved, N, E),
         NEW r, Keeps(n, r)
  PROVE  Sound(i, r, saved, N, E)
<1>1. InGroup(r) /\ r.id = i /\ r.peers = n.peers
  BY DEF Sound, Keeps, InGroup
<1>2. HardState(r.st) /\ HardState(saved) /\ Follows(saved, r.st)
  BY <1>1 DEF Sound, Keeps, HardState, Follows, InGroup
<1>3. ~r.dirty => r.st.term = saved.term /\ r.st.vote = saved.vote
  BY DEF Sound, Keeps
<1>4. ASSUME NEW s \in Slot, r.outbox[s] # None PROVE Honest(r, N, s, r.outbox[s])
  <2>1. CASE r.outbox[s] = n.outbox[s]
    BY <1>1, <1>4, <2>1 DEF Sound, Keeps, Honest
  <2>2. CASE r.outbox[s] = ReplicateOut /\ n.role = "Leader" /\ n.peers[s] \in Id
    BY <1>1, <2>2 DEF Keeps, Honest, ReplicateOut
  <2> QED BY <2>1, <2>2 DEF Keeps
<1>5. r.role = "Candidate" => Counted(r, N)
  BY <1>1 DEF Sound, Keeps, Counted
<1>6. /\ r.role = "Leader" => [term |-> r.st.term, id |-> i] \in E
      /\ r.leader # None => r.leader \in Id /\ [term |-> r.st.term, id |-> r.leader] \in E
  BY DEF Sound, Keeps
<1> QED BY <1>1, <1>2, <1>3, <1>4, <1>5, <1>6 DEF Sound

(* By more messages and more leaders.                                      *)
LEMMA AskedGrows ==
  ASSUME NEW N, NEW M, N \subseteq M, NEW j, NEW t
  PROVE  /\ Asked(N, j, t) => Asked(M, j, t)
         /\ \A v : Ballot(N, v, j, t) => Ballot(M, v, j, t)
BY DEF Asked, Ballot

(* A node stays sound as more messages are sent and more leaders recorded. *)
LEMMA SoundGrows ==
  ASSUME NEW i \in Id, NEW n, NEW saved, NEW N, NEW E, Sound(i, n, saved, N, E),
         NEW M, NEW F, N \subseteq M, E \subseteq F
  PROVE  Sound(i, n, saved, M, F)
<1>1. ASSUME NEW s, NEW out, Honest(n, N, s, out) PROVE Honest(n, M, s, out)
  BY <1>1, AskedGrows DEF Honest
<1>2. Counted(n, N) => Counted(n, M)
  BY AskedGrows DEF Counted
<1> QED BY <1>1, <1>2 DEF Sound

(* So does an envelope: what it says of votes and leaders stays true.      *)
LEMMA TruthfulGrows ==
  ASSUME NEW e, NEW N, NEW E, Truthful(e, N, E), NEW M, NEW F, N \subseteq M, E \subseteq F
  PROVE  Truthful(e, M, F)
BY AskedGrows DEF Truthful

(* By draining, and by a save.                                             *)
LEMMA DrainedSound ==
  ASSUME NEW i \in Id, NEW n, NEW saved, NEW N, NEW E, Sound(i, n, saved, N, E)
  PROVE  Sound(i, Drained(n), saved, N, E)
<1> DEFINE r == Drained(n)
<1>1. DOMAIN r = NodeFields /\ r.outbox = [s \in Slot |-> None] /\ r.extra = None
      /\ \A f \in NodeFields \ {"outbox", "extra"} : r[f] = n[f]
  BY DEF Sound, InGroup, NodeFields, Drained
<1> HIDE DEF r
<1>2. /\ r.id = n.id /\ r.bootstrap = n.bootstrap /\ r.hooks = n.hooks /\ r.role = n.role /\ r.st = n.st
      /\ r.leader = n.leader /\ r.membership = n.membership /\ r.peers = n.peers /\ r.votes = n.votes
      /\ r.dirty = n.dirty
  BY <1>1 DEF NodeFields
<1>3. InGroup(r)
  BY <1>1, <1>2 DEF Sound, InGroup
<1>4. Counted(n, N) => Counted(r, N)
  BY <1>2 DEF Counted
<1>5. \A s \in Slot : r.outbox[s] = None
  BY <1>1
<1>6. Sound(i, r, saved, N, E)
  BY <1>2, <1>3, <1>4, <1>5 DEF Sound
<1> QED BY <1>6 DEF r

(* By a save: persist writes the node's own term and vote, and clears the
   marks of what is unsaved.                                               *)
LEMMA PersistedSound ==
  ASSUME NEW i \in Id, NEW n, NEW saved, NEW N, NEW E, Sound(i, n, saved, N, E),
         NEW new, HardState(new), new.term = n.st.term, new.vote = n.st.vote
  PROVE  Sound(i, Persisted(n), new, N, E)
<1> DEFINE r == Persisted(n)
<1>1. DOMAIN r = NodeFields
      /\ \A f \in NodeFields \ {"dirty", "logFrom", "snapChanged"} : r[f] = n[f]
  BY DEF Sound, InGroup, NodeFields, Persisted
<1> HIDE DEF r
<1>2. /\ r.id = n.id /\ r.bootstrap = n.bootstrap /\ r.hooks = n.hooks /\ r.role = n.role /\ r.st = n.st
      /\ r.leader = n.leader /\ r.membership = n.membership /\ r.peers = n.peers /\ r.votes = n.votes
      /\ r.outbox = n.outbox /\ r.extra = n.extra
  BY <1>1 DEF NodeFields
<1>3. InGroup(r)
  BY <1>1, <1>2 DEF Sound, InGroup
<1>4. Counted(n, N) => Counted(r, N)
  BY <1>2 DEF Counted
<1>5. \A s \in Slot : r.outbox[s] # None => Honest(r, N, s, r.outbox[s])
  BY <1>2 DEF Sound, Honest
<1>6. Follows(new, n.st)
  BY DEF Follows, Sound, HardState
<1>7. Sound(i, r, new, N, E)
  BY <1>2, <1>3, <1>4, <1>5, <1>6 DEF Sound
<1> QED BY <1>7 DEF r

(* Nothing is queued: an operation starts from here.                       *)
Empties(n) == \A s \in Slot : n.outbox[s] = None

(* follow, of nobody or of a leader of the node's term.                    *)
LEMMA FollowSound ==
  ASSUME NEW i \in Id, NEW n, NEW saved, NEW N, NEW E, Sound(i, n, saved, N, E), Empties(n),
         NEW leader, leader # None => leader \in Id /\ [term |-> n.st.term, id |-> leader] \in E
  PROVE  LET r == Follow(n, leader) IN
         /\ Sound(i, r, saved, N, E) /\ Empties(r) /\ r.role = "Follower"
         /\ r.st = n.st /\ r.peers = n.peers
<1> DEFINE r == Follow(n, leader)
<1>1. DOMAIN r = NodeFields /\ r.role = "Follower" /\ r.leader = leader
      /\ \A f \in NodeFields \ {"role", "prevoting", "leader", "aged"} : r[f] = n[f]
  BY DEF Sound, InGroup, NodeFields, Follow
<1> HIDE DEF r
<1>2. /\ r.id = n.id /\ r.bootstrap = n.bootstrap /\ r.hooks = n.hooks /\ r.st = n.st
      /\ r.membership = n.membership /\ r.peers = n.peers /\ r.votes = n.votes
      /\ r.dirty = n.dirty /\ r.outbox = n.outbox /\ r.extra = n.extra
  BY <1>1 DEF NodeFields
<1>3. InGroup(r)
  BY <1>1, <1>2 DEF Sound, InGroup
<1>4. Empties(r)
  BY <1>2 DEF Empties
<1>5. Sound(i, r, saved, N, E)
  BY <1>1, <1>2, <1>3, <1>4 DEF Sound, Empties
<1> QED BY <1>1, <1>2, <1>4, <1>5 DEF r

(* A greater term is adopted.                                              *)
LEMMA AdoptSound ==
  ASSUME NEW i \in Id, NEW n, NEW saved, NEW N, NEW E, Sound(i, n, saved, N, E), Empties(n),
         NEW term \in 0..U64Max
  PROVE  LET r == AdoptTerm(n, term) IN
         /\ Sound(i, r, saved, N, E) /\ Empties(r) /\ r.peers = n.peers
         /\ term <= r.st.term
<1>0. n.st.term \in Nat /\ term \in Nat /\ n.st.term \in 0..U64Max
  BY U64Assumption DEF Sound, HardState
<1>1. CASE ~(term > n.st.term)
  BY <1>0, <1>1 DEF AdoptTerm
<1>2. CASE term > n.st.term
  <2> DEFINE x == [n EXCEPT !.st.term = term, !.st.vote = None, !.dirty = TRUE]
             r == Follow(x, None)
  <2>1. AdoptTerm(n, term) = r
    BY <1>2 DEF AdoptTerm
  <2>2. /\ DOMAIN r = NodeFields /\ r.role = "Follower" /\ r.leader = None
        /\ r.st = [n.st EXCEPT !.term = term, !.vote = None] /\ r.dirty
        /\ \A f \in NodeFields \ {"role", "prevoting", "leader", "aged", "st", "dirty"} : r[f] = n[f]
    BY DEF Sound, InGroup, NodeFields, Follow
  <2> HIDE DEF r
  <2>3. DOMAIN r.st = StFields /\ r.st.term = term /\ r.st.vote = None
    BY <2>2 DEF Sound, HardState, StFields
  <2>4. /\ r.id = n.id /\ r.bootstrap = n.bootstrap /\ r.hooks = n.hooks
        /\ r.membership = n.membership /\ r.peers = n.peers /\ r.votes = n.votes
        /\ r.outbox = n.outbox /\ r.extra = n.extra
    BY <2>2 DEF NodeFields
  <2>5. InGroup(r)
    BY <2>2, <2>3, <2>4 DEF Sound, InGroup
  <2>6. Empties(r)
    BY <2>4 DEF Empties
  <2>7. HardState(r.st) /\ HardState(saved)
    BY <2>3 DEF HardState, Sound
  <2>8. Follows(saved, r.st)
    <3>1. saved.term \in Nat /\ saved.term <= n.st.term
      BY U64Assumption DEF Sound, HardState, Follows
    <3> QED BY <1>0, <1>2, <2>3, <3>1 DEF Follows
  <2>9. Sound(i, r, saved, N, E)
    BY <2>2, <2>4, <2>5, <2>6, <2>7, <2>8 DEF Sound, Empties
  <2> QED BY <1>0, <2>1, <2>3, <2>4, <2>6, <2>9
<1> QED BY <1>1, <1>2

(* send of a true message to a peer.                                       *)
LEMMA SendSound ==
  ASSUME NEW i \in Id, NEW n, NEW saved, NEW N, NEW E, Sound(i, n, saved, N, E),
         NEW slot \in Slot, NEW from, NEW out, Honest(n, N, slot, out)
  PROVE  LET r == Send(n, slot, from, out) IN
         /\ Sound(i, r, saved, N, E) /\ r.role = n.role
<1> DEFINE r == [n EXCEPT !.outbox[slot] = out]
<1>1. slot # 0
  BY MaxAssumption DEF Slot
<1>2. /\ DOMAIN r = NodeFields /\ r.outbox = [n.outbox EXCEPT ![slot] = out]
      /\ \A f \in NodeFields \ {"outbox"} : r[f] = n[f]
  BY DEF Sound, InGroup, NodeFields
<1> HIDE DEF r
<1>3. /\ r.id = n.id /\ r.bootstrap = n.bootstrap /\ r.hooks = n.hooks /\ r.role = n.role /\ r.st = n.st
      /\ r.leader = n.leader /\ r.membership = n.membership /\ r.peers = n.peers /\ r.votes = n.votes
      /\ r.dirty = n.dirty /\ r.extra = n.extra
  BY <1>2 DEF NodeFields
<1>4. DOMAIN n.outbox = Slot
  BY DEF Sound, InGroup
<1>5. DOMAIN r.outbox = Slot /\ \A s \in Slot : r.outbox[s] = IF s = slot THEN out ELSE n.outbox[s]
  BY <1>2, <1>4
<1>6. InGroup(r)
  BY <1>2, <1>3, <1>5 DEF Sound, InGroup
<1>7. \A s \in Slot : r.outbox[s] # None => Honest(r, N, s, r.outbox[s])
  BY <1>3, <1>5 DEF Sound, Honest
<1>8. Counted(n, N) => Counted(r, N)
  BY <1>3 DEF Counted
<1>9. Sound(i, r, saved, N, E)
  BY <1>3, <1>6, <1>7, <1>8 DEF Sound
<1>10. Send(n, slot, from, out) = r
  BY <1>1 DEF Send, r
<1> QED BY <1>3, <1>9, <1>10

(* A vote is counted.                                                      *)
LEMMA CountSound ==
  ASSUME NEW i \in Id, NEW n, NEW saved, NEW N, NEW E, Sound(i, n, saved, N, E), Empties(n),
         NEW slot \in Slot, n.peers[slot] \in Id, Ballot(N, n.peers[slot], i, n.st.term),
         n.role = "Candidate"
  PROVE  LET r == Count(n, slot) IN
         /\ Sound(i, r, saved, N, E) /\ Empties(r) /\ r.role = n.role /\ r.st = n.st
         /\ r.votes = n.votes \cup {slot} /\ r.peers = n.peers
<1> DEFINE r == Count(n, slot)
<1>1. DOMAIN r = NodeFields /\ r.votes = n.votes \cup {slot}
      /\ \A f \in NodeFields \ {"votes"} : r[f] = n[f]
  BY DEF Sound, InGroup, NodeFields, Count
<1> HIDE DEF r
<1>2. /\ r.id = n.id /\ r.bootstrap = n.bootstrap /\ r.hooks = n.hooks /\ r.role = n.role /\ r.st = n.st
      /\ r.leader = n.leader /\ r.membership = n.membership /\ r.peers = n.peers
      /\ r.dirty = n.dirty /\ r.outbox = n.outbox /\ r.extra = n.extra
  BY <1>1 DEF NodeFields
<1>3. InGroup(r)
  BY <1>1, <1>2 DEF Sound, InGroup
<1>4. Empties(r)
  BY <1>2 DEF Empties
<1>5. Counted(r, N)
  BY <1>1, <1>2 DEF Sound, Counted
<1>6. Sound(i, r, saved, N, E)
  BY <1>2, <1>3, <1>4, <1>5 DEF Sound, Empties
<1> QED BY <1>1, <1>2, <1>4, <1>6 DEF r

-----------------------------------------------------------------------------
(* Campaigns and leaders.                                                  *)

(* The slot of a peer that has one.                                        *)
LEMMA SlotFound ==
  ASSUME NEW peers, NEW id
  PROVE  /\ SlotOf(peers, id) # 0 => SlotOf(peers, id) \in Slot /\ peers[SlotOf(peers, id)] = id
         /\ (\E s \in Slot : peers[s] = id) => SlotOf(peers, id) # 0
<1> DEFINE S == {s \in Slot : peers[s] = id}
<1>1. S \in SUBSET Nat /\ 0 \notin S
  BY MaxAssumption DEF Slot
<1>2. S # {} => First(S) \in S
  BY <1>1, LeastNatural DEF First
<1> QED BY <1>1, <1>2 DEF SlotOf

(* A leader has a quorum of published votes, and publishes none itself.    *)
Won(i, r, N) ==
  /\ Quorum(FixedGroup, {v \in Id : Ballot(N, v, i, r.st.term)})
  /\ \A s \in Slot : r.outbox[s] # None => r.outbox[s].kind = "Replicate"

(* What an operation of node i may result in.                              *)
Result(i, r, saved, N, E) ==
  /\ Sound(i, r, saved, N, E \cup Leading(r))
  /\ Leading(r) \subseteq E \/ Won(i, r, N)

(* A handler that leaves the node sound and elects nobody has a good result.*)
LEMMA SoundResult ==
  ASSUME NEW i \in Id, NEW r, NEW saved, NEW N, NEW E, Sound(i, r, saved, N, E)
  PROVE  Result(i, r, saved, N, E)
<1>1. Leading(r) \subseteq E
  BY DEF Sound, Leading
<1>2. E \cup Leading(r) = E
  BY <1>1
<1> QED BY <1>1, <1>2 DEF Result

(* campaign: nobody wins at once, and everybody is asked.                  *)
LEMMA CampaignSound ==
  ASSUME FixedGroups, NEW sc \in DOMAIN Scenarios,
         NEW i \in Id, NEW n, NEW saved, NEW N, NEW E, Sound(i, n, saved, N, E), Empties(n),
         MayCampaign(n)
  PROVE  Sound(i, Campaign(n, n.st.term + 1), saved, N, E)
<1> DEFINE term == n.st.term + 1
           c == Candidate(n, term)
           ids == c.membership.voters \cup c.membership.old
           r == SendAll(c, ids, VoteOut)
<1>0. /\ FixedGroup \in Memberships /\ FixedGroup.old = {} /\ FixedGroup.voters \in SUBSET Id
      /\ FixedGroup.voters \subseteq Ids(FixedGroup.slots) /\ DOMAIN FixedGroup.slots = Slot
  BY Group DEF IsJoint, Memberships
<1>1. n.st.term \in 0..U64Max /\ term \in 0..U64Max /\ n.st.term < term
  BY U64Assumption DEF Sound, HardState, MayCampaign
<1>2. i \in FixedGroup.voters
  BY <1>0 DEF MayCampaign, IsVoter, Sound, InGroup
<1>3. n.peers = FixedGroup.slots /\ \E s \in Slot : n.peers[s] = i
  BY <1>0, <1>2 DEF Ids, Sound, InGroup
<1>4. Local(n) \in Slot /\ n.peers[Local(n)] = i
  BY <1>3, SlotFound DEF Local, Sound
<1> HIDE DEF term
<1>5. /\ DOMAIN c = NodeFields /\ c.st = [n.st EXCEPT !.term = term, !.vote = n.id] /\ c.dirty
      /\ c.role = "Candidate" /\ c.leader = None /\ c.votes = {Local(n)}
      /\ \A f \in NodeFields \ {"prevoting", "st", "dirty", "role", "leader", "votes"} : c[f] = n[f]
  BY DEF Candidate, Sound, InGroup, NodeFields
<1> HIDE DEF c
<1>6. DOMAIN c.st = StFields /\ c.st.term = term /\ c.st.vote = i
  BY <1>5 DEF Sound, HardState, StFields
<1>7. /\ c.id = i /\ c.bootstrap = n.bootstrap /\ c.hooks = n.hooks
      /\ c.membership = n.membership /\ c.peers = n.peers
      /\ c.outbox = n.outbox /\ c.extra = n.extra
  BY <1>5 DEF NodeFields, Sound
<1>8. InGroup(c)
  BY <1>2, <1>5, <1>6, <1>7 DEF Sound, InGroup, IsVoter
<1>9. ~ElectionQuorum(c)
  <2>1. {c.peers[s] : s \in c.votes} = {i}
    BY <1>4, <1>5, <1>7
  <2>2. ElectionQuorum(c) <=> Quorum(FixedGroup, {i})
    BY <2>1, <1>8 DEF ElectionQuorum, InGroup
  <2> QED BY <2>2 DEF FixedGroups
<1>10. Campaign(n, term) = r
  BY <1>9 DEF Campaign, Contest, AskVoters, c
<1>11. ids \in SUBSET Id
  BY <1>0, <1>8 DEF InGroup
<1> HIDE DEF ids
<1>12. /\ DOMAIN r = NodeFields /\ \A f \in NodeFields \ {"outbox"} : r[f] = c[f]
       /\ DOMAIN r.outbox = Slot
       /\ \A s \in Slot : r.outbox[s] = c.outbox[s] \/ (r.outbox[s] = VoteOut /\ c.peers[s] \in Id)
  BY <1>8, <1>11, SendAllFields
<1> HIDE DEF r
<1>13. /\ r.id = i /\ r.bootstrap = c.bootstrap /\ r.hooks = c.hooks /\ r.role = c.role /\ r.st = c.st
       /\ r.leader = c.leader /\ r.membership = c.membership /\ r.peers = c.peers /\ r.votes = c.votes
       /\ r.dirty = c.dirty /\ r.extra = c.extra
  BY <1>7, <1>12 DEF NodeFields
<1>14. InGroup(r)
  BY <1>7, <1>8, <1>12, <1>13 DEF InGroup
<1>15. Counted(r, N)
  BY <1>4, <1>5, <1>6, <1>7, <1>13 DEF Counted
<1>16. ASSUME NEW s \in Slot, r.outbox[s] # None PROVE Honest(r, N, s, r.outbox[s])
  <2>1. r.outbox[s] = VoteOut /\ c.peers[s] \in Id
    BY <1>7, <1>12, <1>16 DEF Empties
  <2> QED BY <1>6, <1>13, <2>1 DEF Honest, VoteOut
<1>17. HardState(r.st) /\ HardState(saved)
  BY <1>1, <1>6, <1>13 DEF HardState, Sound
<1>18. Follows(saved, r.st)
  <2>1. saved.term \in Nat /\ saved.term <= n.st.term
    BY U64Assumption DEF Sound, HardState, Follows
  <2> QED BY <1>1, <1>6, <1>13, <2>1 DEF Follows
<1>19. Sound(i, r, saved, N, E)
  BY <1>5, <1>13, <1>14, <1>15, <1>16, <1>17, <1>18 DEF Sound
<1> QED BY <1>10, <1>19 DEF term

(* become_leader with a quorum of published votes.                         *)
LEMMA BecomeLeaderResult ==
  ASSUME FixedGroups, NEW sc \in DOMAIN Scenarios,
         NEW i \in Id, NEW n, NEW saved, NEW N, NEW E, Sound(i, n, saved, N, E), Empties(n),
         n.role = "Candidate", Quorum(FixedGroup, {v \in Id : Ballot(N, v, i, n.st.term)})
  PROVE  Result(i, BecomeLeader(n), saved, N, E)
<1> DEFINE last == LastId(n.st).index
           x == [n EXCEPT !.active = {}, !.role = "Leader", !.leader = n.id,
                          !.next = [s \in Slot |-> SaturatingSucc(last)],
                          !.matched = [s \in Slot |-> 0]]
           y == MatchSelf(x, last)
           r == Broadcast(Barrier(y))
           F == E \cup {[term |-> n.st.term, id |-> i]}
<1>1. BecomeLeader(n) = r
  BY DEF BecomeLeader
<1> HIDE DEF last
<1>2. /\ DOMAIN x = NodeFields /\ x.role = "Leader" /\ x.leader = n.id
      /\ \A f \in NodeFields \ {"active", "role", "leader", "next", "matched"} : x[f] = n[f]
  BY DEF Sound, InGroup, NodeFields
<1> HIDE DEF x
<1>3. /\ x.id = n.id /\ x.bootstrap = n.bootstrap /\ x.hooks = n.hooks /\ x.st = n.st
      /\ x.membership = n.membership /\ x.peers = n.peers /\ x.votes = n.votes
      /\ x.dirty = n.dirty /\ x.outbox = n.outbox /\ x.extra = n.extra
  BY <1>2 DEF NodeFields
<1>4. InGroup(x)
  BY <1>2, <1>3 DEF Sound, InGroup
<1>5. Sound(i, x, saved, N, F)
  BY <1>2, <1>3, <1>4 DEF Sound, Empties
<1>6. Keeps(x, y)
  BY <1>4, MatchSelfKeeps
<1> HIDE DEF y
<1>7. Keeps(x, r)
  BY <1>2, <1>4, <1>6, LeaderKeeps
<1> HIDE DEF r
<1>8. Sound(i, r, saved, N, F)
  BY <1>5, <1>7, KeepsSound
<1>9. Leading(r) = {[term |-> n.st.term, id |-> i]}
  BY <1>2, <1>3, <1>7 DEF Leading, Keeps, Sound
<1>10. ASSUME NEW s \in Slot, r.outbox[s] # None PROVE r.outbox[s].kind = "Replicate"
  BY <1>3, <1>7, <1>10 DEF Keeps, Empties, ReplicateOut
<1>11. r.st.term = n.st.term
  BY <1>3, <1>7 DEF Keeps
<1>12. Won(i, r, N)
  BY <1>10, <1>11 DEF Won
<1>13. E \cup Leading(r) = F
  BY <1>9
<1> QED BY <1>1, <1>8, <1>12, <1>13 DEF Result

-----------------------------------------------------------------------------
(* step                                                                    *)

(* A vote is asked for by a peer, in the node's term.                      *)
LEMMA OnVoteSound ==
  ASSUME NEW i \in Id, NEW n, NEW saved, NEW N, NEW E, Sound(i, n, saved, N, E), Empties(n),
         NEW slot \in Slot, NEW from \in Id, n.peers[slot] = from, Asked(N, from, n.st.term),
         NEW msg
  PROVE  Sound(i, OnVote(n, slot, from, msg), saved, N, E)
<1> DEFINE granted == n.st.vote \in {None, from} /\ UpToDate(msg.last, LastId(n.st))
           x == [n EXCEPT !.st.vote = from, !.dirty = TRUE]
           voted == IF granted /\ n.st.vote # from THEN x ELSE n
<1>0. None \notin Id
  BY IdAssumption
<1>1. OnVote(n, slot, from, msg) = Send(voted, slot, from, VotedOut(granted))
  BY DEF OnVote
<1> HIDE DEF granted
<1>2. ASSUME n.st.vote = None PROVE Sound(i, x, saved, N, E) /\ x.peers = n.peers /\ x.st.vote = from /\ x.st.term = n.st.term
  <2>1. /\ DOMAIN x = NodeFields /\ x.st = [n.st EXCEPT !.vote = from] /\ x.dirty
        /\ \A f \in NodeFields \ {"st", "dirty"} : x[f] = n[f]
    BY DEF Sound, InGroup, NodeFields
  <2> HIDE DEF x
  <2>2. DOMAIN x.st = StFields /\ x.st.term = n.st.term /\ x.st.vote = from
    BY <2>1 DEF Sound, HardState, StFields
  <2>3. /\ x.id = n.id /\ x.bootstrap = n.bootstrap /\ x.hooks = n.hooks /\ x.role = n.role
        /\ x.leader = n.leader /\ x.membership = n.membership /\ x.peers = n.peers /\ x.votes = n.votes
        /\ x.outbox = n.outbox /\ x.extra = n.extra
    BY <2>1 DEF NodeFields
  <2>4. InGroup(x)
    BY <2>1, <2>2, <2>3 DEF Sound, InGroup
  <2>5. HardState(x.st) /\ HardState(saved) /\ Follows(saved, x.st)
    BY <1>2, <2>2 DEF HardState, Sound, Follows
  <2>6. x.role # "Candidate"
    BY <1>0, <1>2, <2>3 DEF Sound, Counted
  <2>7. Sound(i, x, saved, N, E)
    BY <2>1, <2>2, <2>3, <2>4, <2>5, <2>6 DEF Sound, Empties
  <2> QED BY <2>2, <2>3, <2>7
<1> HIDE DEF x
<1>3. /\ Sound(i, voted, saved, N, E) /\ voted.peers = n.peers /\ voted.st.term = n.st.term
      /\ granted => voted.st.vote = from
  BY <1>2 DEF granted
<1> HIDE DEF voted
<1>4. Honest(voted, N, slot, VotedOut(granted))
  BY <1>3 DEF Honest, VotedOut
<1> QED BY <1>1, <1>3, <1>4, SendSound

(* An answer reaches the node in the term it was given for.                *)
LEMMA OnVotedResult ==
  ASSUME FixedGroups, NEW sc \in DOMAIN Scenarios,
         NEW i \in Id, NEW n, NEW saved, NEW N, NEW E, Sound(i, n, saved, N, E), Empties(n),
         NEW slot \in Slot, NEW from \in Id, n.peers[slot] = from, NEW msg,
         msg.granted => Ballot(N, from, i, n.st.term) /\ Asked(N, i, n.st.term)
  PROVE  Result(i, OnVoted(n, slot, msg), saved, N, E)
<1> DEFINE c == Count(n, slot)
           B == {v \in Id : Ballot(N, v, i, n.st.term)}
<1>1. CASE n.role # "Candidate" \/ ~msg.granted
  BY <1>1, SoundResult DEF OnVoted
<1>2. CASE n.role = "Candidate" /\ msg.granted
  <2>1. /\ Sound(i, c, saved, N, E) /\ Empties(c) /\ c.role = "Candidate" /\ c.st = n.st
        /\ c.votes = n.votes \cup {slot} /\ c.peers = n.peers
    BY <1>2, CountSound
  <2> HIDE DEF c
  <2>2. CASE ElectionQuorum(c)
    <3>1. Quorum(FixedGroup, {c.peers[s] : s \in c.votes})
      BY <2>1, <2>2 DEF ElectionQuorum, Sound, InGroup
    <3>2. ASSUME NEW s \in c.votes PROVE c.peers[s] \in B
      <4>1. CASE s = slot
        BY <1>2, <2>1, <4>1
      <4>2. CASE s # slot
        <5>1. s \in n.votes /\ n.id = i /\ Counted(n, N)
          BY <1>2, <2>1, <4>2 DEF Sound
        <5>2. n.peers[s] \in Id /\ (n.peers[s] = i \/ Ballot(N, n.peers[s], i, n.st.term))
          BY <5>1 DEF Counted
        <5> QED BY <1>2, <2>1, <5>2 DEF Ballot
      <4> QED BY <4>1, <4>2
    <3> DEFINE A == {c.peers[s] : s \in c.votes}
    <3>3. A \subseteq B
      BY <3>2
    <3> HIDE DEF A, B
    <3>4. Quorum(FixedGroup, B)
      <4>1. FixedGroup \in Memberships
        BY Group
      <4>2. Quorum(FixedGroup, A)
        BY <3>1 DEF A
      <4> QED BY <3>3, <4>1, <4>2, QuorumGrows
    <3>5. Quorum(FixedGroup, {v \in Id : Ballot(N, v, i, c.st.term)})
      BY <2>1, <3>4 DEF B
    <3>6. Result(i, BecomeLeader(c), saved, N, E)
      BY <2>1, <3>5, BecomeLeaderResult
    <3> QED BY <1>2, <2>2, <3>6 DEF OnVoted, c
  <2>3. CASE ~ElectionQuorum(c)
    <3>1. OnVoted(n, slot, msg) = c
      BY <1>2, <2>3 DEF OnVoted, c
    <3> QED BY <2>1, <3>1, SoundResult
  <2> QED BY <2>2, <2>3
<1> QED BY <1>1, <1>2

(* A request of an older term is refused.                                  *)
LEMMA RefuseStaleSound ==
  ASSUME NEW i \in Id, NEW n, NEW saved, NEW N, NEW E, Sound(i, n, saved, N, E),
         NEW slot \in Slot, NEW from \in Id, n.peers[slot] = from, NEW msg
  PROVE  Sound(i, RefuseStale(n, slot, from, msg), saved, N, E)
<1> DEFINE S(out) == Send(n, slot, from, out)
<1>1. ASSUME NEW index PROVE Sound(i, S(ReplicatedOut(index, Conflict(1))), saved, N, E)
  <2>1. Honest(n, N, slot, ReplicatedOut(index, Conflict(1)))
    BY DEF Honest, ReplicatedOut
  <2> QED BY <2>1, SendSound
<1>2. Sound(i, S(VotedOut(FALSE)), saved, N, E)
  <2>1. Honest(n, N, slot, VotedOut(FALSE))
    BY DEF Honest, VotedOut
  <2> QED BY <2>1, SendSound
<1> QED BY <1>1, <1>2 DEF RefuseStale

(* A leader's message to one peer.                                         *)
LEMMA ResendKeeps ==
  ASSUME NEW n, InGroup(n), n.role = "Leader", NEW slot \in Slot, n.peers[slot] \in Id
  PROVE  Keeps(n, Resend(n, slot))
<1> DEFINE r == Resend(n, slot)
<1>1. /\ DOMAIN r = NodeFields /\ r.outbox = [n.outbox EXCEPT ![slot] = ReplicateOut]
      /\ \A f \in NodeFields \ {"outbox"} : r[f] = n[f]
  BY DEF InGroup, NodeFields, Resend
<1> HIDE DEF r
<1>2. /\ r.id = n.id /\ r.bootstrap = n.bootstrap /\ r.hooks = n.hooks /\ r.role = n.role /\ r.st = n.st
      /\ r.leader = n.leader /\ r.membership = n.membership /\ r.peers = n.peers /\ r.votes = n.votes
      /\ r.dirty = n.dirty /\ r.extra = n.extra
  BY <1>1 DEF NodeFields
<1>3. DOMAIN r.outbox = Slot
      /\ \A s \in Slot : r.outbox[s] = IF s = slot THEN ReplicateOut ELSE n.outbox[s]
  BY <1>1 DEF InGroup
<1>4. Keeps(n, r)
  BY <1>1, <1>2, <1>3 DEF Keeps, InGroup
<1> QED BY <1>4 DEF r

(* replicated                                                              *)
LEMMA ReplicatedKeeps ==
  ASSUME FixedGroups, NEW sc \in DOMAIN Scenarios, NEW m, InGroup(m), m.role = "Leader",
         NEW slot \in Slot, m.peers[slot] \in Id, NEW index, NEW rejection
  PROVE  Keeps(m, Replicated(m, slot, index, rejection))
<1> DEFINE n == [m EXCEPT !.active = @ \cup {slot}]
           x(k) == [n EXCEPT !.next[slot] = k]
           y == [n EXCEPT !.matched[slot] = index, !.next[slot] = Max2(@, SaturatingSucc(index))]
           p == Progressed(y, slot, index)
           q == Resend(x(Retry(n, slot, rejection.next)), slot)
<1>1. Replicated(m, slot, index, rejection) \in {n, p, q}
  <2> DEFINE old == index <= n.matched[slot]
             hit == index >= n.matched[slot] /\ index + 1 = n.next[slot]
             far == index > LastId(n.st).index \/ rejection = Full
             near == index <= LastId(n.st).index /\ rejection = None
  <2>1. Replicated(m, slot, index, rejection)
          = CASE far -> n [] near -> (IF old THEN n ELSE p) [] OTHER -> (IF hit THEN q ELSE n)
    BY DEF Replicated
  <2> HIDE DEF old, hit, far, near, n, p, q
  <2> QED BY <2>1
<1>2. Keeps(m, n) /\ InGroup(n) /\ n.role = "Leader" /\ n.peers[slot] \in Id
  <2>1. /\ DOMAIN n = NodeFields /\ n.st = m.st /\ n.dirty = m.dirty
        /\ \A f \in NodeFields \ Log : n[f] = m[f]
    BY DEF InGroup, NodeFields, Log
  <2> HIDE DEF n
  <2>2. Keeps(m, n)
    BY <2>1, LogKeeps DEF InGroup
  <2> QED BY <2>2 DEF Keeps, InGroup
<1> HIDE DEF n
<1>3. ASSUME NEW k PROVE Keeps(n, x(k)) /\ InGroup(x(k)) /\ x(k).role = "Leader" /\ x(k).peers[slot] \in Id
  <2> DEFINE z == x(k)
  <2>1. /\ DOMAIN z = NodeFields /\ z.st = n.st /\ z.dirty = n.dirty
        /\ \A f \in NodeFields \ Log : z[f] = n[f]
    BY <1>2 DEF InGroup, NodeFields, Log
  <2> HIDE DEF z
  <2>2. Keeps(n, z)
    BY <1>2, <2>1, LogKeeps DEF InGroup
  <2>3. Keeps(n, z) /\ InGroup(z) /\ z.role = "Leader" /\ z.peers[slot] \in Id
    BY <1>2, <2>2 DEF Keeps, InGroup
  <2> QED BY <2>3 DEF z
<1>4. Keeps(n, y) /\ InGroup(y) /\ y.role = "Leader" /\ y.peers[slot] \in Id
  <2>1. /\ DOMAIN y = NodeFields /\ y.st = n.st /\ y.dirty = n.dirty
        /\ \A f \in NodeFields \ Log : y[f] = n[f]
    BY <1>2 DEF InGroup, NodeFields, Log
  <2> HIDE DEF y
  <2>2. Keeps(n, y)
    BY <1>2, <2>1, LogKeeps DEF InGroup
  <2> QED BY <1>2, <2>2 DEF Keeps, InGroup
<1> HIDE DEF x, y
<1>5. Keeps(n, q)
  <2> DEFINE k == Retry(n, slot, rejection.next)
  <2> HIDE DEF k
  <2>1. Keeps(n, x(k)) /\ InGroup(x(k)) /\ x(k).role = "Leader" /\ x(k).peers[slot] \in Id
    BY <1>3
  <2>2. Keeps(x(k), Resend(x(k), slot))
    BY <2>1, ResendKeeps
  <2>3. Keeps(n, Resend(x(k), slot))
    BY <1>2, <2>1, <2>2, KeepsOn
  <2> QED BY <2>3 DEF k
<1>6. Keeps(n, p)
  <2>1. Keeps(y, y) /\ Keeps(y, Resend(y, slot)) /\ Keeps(y, Broadcast(AdvanceCommit(y)))
    <3>1. Keeps(y, y)
      BY <1>4 DEF Keeps, InGroup
    <3> QED BY <1>4, <3>1, ResendKeeps, LeaderKeeps
  <2>2. p \in {y, Resend(y, slot), Broadcast(AdvanceCommit(y))}
    BY DEF Progressed
  <2>3. Keeps(y, p)
    BY <2>1, <2>2
  <2> HIDE DEF p
  <2> QED BY <1>2, <1>4, <2>3, KeepsOn
<1> HIDE DEF p, q
<1>7. Keeps(n, n)
  BY <1>2 DEF Keeps, InGroup
<1>8. Keeps(m, n) /\ Keeps(m, p) /\ Keeps(m, q)
  BY <1>2, <1>5, <1>6, KeepsOn
<1> QED BY <1>1, <1>8

(* A reply about the log.                                                  *)
LEMMA ReplySound ==
  ASSUME NEW i \in Id, NEW n, NEW saved, NEW N, NEW E, Sound(i, n, saved, N, E),
         NEW slot \in Slot, NEW from \in Id, n.peers[slot] = from,
         NEW r, Keeps(n, r.n)
  PROVE  Sound(i, Reply(r, slot, from), saved, N, E)
<1> DEFINE out == ReplicatedOut(r.index, r.rejection)
<1>1. Sound(i, r.n, saved, N, E)
  BY KeepsSound
<1>2. r.n.peers = n.peers
  BY DEF Sound, Keeps, InGroup
<1>3. Honest(r.n, N, slot, out)
  BY <1>2 DEF Honest, ReplicatedOut
<1> HIDE DEF out
<1>4. Sound(i, Send(r.n, slot, from, out), saved, N, E)
  BY <1>1, <1>3, SendSound
<1> QED BY <1>4 DEF Reply, out

(* step                                                                    *)
LEMMA StepResult ==
  ASSUME FixedGroups, NEW sc \in DOMAIN Scenarios,
         NEW i \in Id, NEW m, NEW saved, NEW N, NEW E, Sound(i, m, saved, N, E),
         NEW env \in N, Truthful(env, N, E), Accepts(m, env)
  PROVE  Result(i, Step(m, env), saved, N, E)
<1> DEFINE msg == env.msg
           from == env.from
           slot == SlotOf(m.peers, from)
           n == AdoptTerm(m, msg.term)
           loyal == Follow(n, from)
           a == AppendOne(loyal, msg.previous, msg.entry, msg.commit)
           b == InstallSnapshot(loyal, msg.snapshot)
<1>1. /\ from \in Id /\ env.to = i /\ msg.term \in 0..U64Max
      /\ msg.type \in {"Vote", "Voted", "Append", "Install", "Replicated"}
  BY DEF Truthful, Accepts, Sound
<1>2. slot \in Slot /\ m.peers[slot] = from
  BY SlotFound DEF Accepts, Sound, InGroup
<1>3. Empties(m) /\ ~m.hooks
  BY DEF Accepts, Available, Empties, Sound, InGroup
<1>4. /\ Sound(i, n, saved, N, E) /\ Empties(n) /\ n.peers = m.peers
      /\ msg.term <= n.st.term
  BY <1>1, <1>3, AdoptSound
<1>5. n.st.term \in 0..U64Max /\ n.st.term \in Nat /\ msg.term \in Nat /\ n.peers[slot] = from
  BY <1>1, <1>2, <1>4, U64Assumption DEF Sound, HardState
<1>6. Step(m, env) =
        IF msg.term < n.st.term THEN RefuseStale(n, slot, from, msg)
        ELSE CASE msg.type = "Vote" -> OnVote(n, slot, from, msg)
               [] msg.type = "Voted" -> OnVoted(n, slot, msg)
               [] msg.type = "Append" -> Reply(a, slot, from)
               [] msg.type = "Install" -> Reply(b, slot, from)
               [] msg.type = "Replicated" ->
                    IF n.role = "Leader" THEN Replicated(n, slot, msg.index, msg.rejection) ELSE n
  <2> HIDE DEF n, slot, a, b
  <2> QED BY <1>1, <1>3 DEF Step, n, slot, a, b
<1> HIDE DEF slot, n, a, b, loyal
<1>7. CASE msg.term < n.st.term
  BY <1>1, <1>2, <1>4, <1>5, <1>6, <1>7, RefuseStaleSound, SoundResult
<1>8. CASE ~(msg.term < n.st.term)
  <2>1. msg.term = n.st.term
    BY <1>4, <1>5, <1>8
  <2>2. CASE msg.type = "Vote"
    <3>1. Asked(N, from, n.st.term)
      BY <2>1, <2>2 DEF Asked
    <3>2. Sound(i, OnVote(n, slot, from, msg), saved, N, E)
      BY <1>1, <1>2, <1>4, <1>5, <3>1, OnVoteSound
    <3> QED BY <1>6, <1>8, <2>2, <3>2, SoundResult
  <2>3. CASE msg.type = "Voted"
    <3>1. msg.granted => Ballot(N, from, i, n.st.term)
      BY <1>1, <2>1, <2>3 DEF Ballot
    <3>2. msg.granted => Asked(N, i, n.st.term)
      BY <1>1, <2>1, <2>3 DEF Truthful
    <3>3. Result(i, OnVoted(n, slot, msg), saved, N, E)
      BY <1>1, <1>2, <1>4, <1>5, <3>1, <3>2, OnVotedResult
    <3> QED BY <1>6, <1>8, <2>3, <3>3
  <2>4. CASE msg.type \in {"Append", "Install"}
    <3>1. [term |-> n.st.term, id |-> from] \in E
      BY <2>1, <2>4 DEF Truthful
    <3>2. Sound(i, loyal, saved, N, E) /\ loyal.peers = n.peers
      BY <1>1, <1>4, <3>1, FollowSound DEF loyal
    <3>3. InGroup(loyal) /\ loyal.peers[slot] = from
      BY <1>5, <3>2 DEF Sound
    <3>4. Keeps(loyal, a.n) /\ Keeps(loyal, b.n)
      BY <3>3, AppendKeeps, InstallKeeps DEF a, b
    <3>5. Sound(i, Reply(a, slot, from), saved, N, E) /\ Sound(i, Reply(b, slot, from), saved, N, E)
      BY <1>1, <1>2, <3>2, <3>3, <3>4, ReplySound
    <3>6. Result(i, Reply(a, slot, from), saved, N, E) /\ Result(i, Reply(b, slot, from), saved, N, E)
      BY <3>5, SoundResult
    <3> QED BY <1>6, <1>8, <2>4, <3>6
  <2>5. CASE msg.type = "Replicated"
    <3>1. CASE n.role = "Leader"
      <4>1. InGroup(n) /\ n.peers[slot] \in Id
        BY <1>1, <1>4, <1>5 DEF Sound
      <4>2. Keeps(n, Replicated(n, slot, msg.index, msg.rejection))
        BY <1>2, <3>1, <4>1, ReplicatedKeeps
      <4>3. Sound(i, Replicated(n, slot, msg.index, msg.rejection), saved, N, E)
        BY <1>4, <4>2, KeepsSound
      <4> QED BY <1>6, <1>8, <2>5, <3>1, <4>3, SoundResult
    <3>2. CASE n.role # "Leader"
      BY <1>4, <1>6, <1>8, <2>5, <3>2, SoundResult
    <3> QED BY <3>1, <3>2
  <2> QED BY <1>1, <2>2, <2>3, <2>4, <2>5
<1> QED BY <1>7, <1>8

-----------------------------------------------------------------------------
(* tick, propose_many and compact_with                                     *)

(* tick: a leader repeats what it sent, any other node may campaign, and
   nobody wins at once.                                                    *)
LEMMA TickResult ==
  ASSUME FixedGroups, NEW sc \in DOMAIN Scenarios,
         NEW i \in Id, NEW m, NEW saved, NEW N, NEW E, Sound(i, m, saved, N, E), Empties(m),
         NEW check, NEW due, NEW ages
  PROVE  Result(i, Tick(m, check, due, ages), saved, N, E)
<1> DEFINE n == [m EXCEPT !.aged = @ \/ ages]
<1>1. Tick(m, check, due, ages) =
        IF n.role = "Leader" THEN LeaderTick(n, check, due)
        ELSE IF due /\ MayCampaign(n) THEN ElectionTick(n) ELSE n
  BY DEF Tick
<1>2. Keeps(m, n) /\ n.outbox = m.outbox
  <2>1. /\ DOMAIN n = NodeFields /\ n.st = m.st /\ n.dirty = m.dirty /\ n.outbox = m.outbox
        /\ \A f \in NodeFields \ Log : n[f] = m[f]
    BY DEF Sound, InGroup, NodeFields, Log
  <2> HIDE DEF n
  <2> QED BY <2>1, LogKeeps DEF Sound, InGroup
<1> HIDE DEF n
<1>3. Sound(i, n, saved, N, E) /\ Empties(n) /\ InGroup(n) /\ ~n.hooks
  BY <1>2, KeepsSound DEF Empties, Keeps, InGroup
<1>4. Result(i, n, saved, N, E)
  BY <1>3, SoundResult
<1>5. CASE n.role = "Leader"
  <2>1. LeaderTick(n, check, due) = IF due THEN Broadcast(Barrier(n)) ELSE n
    BY <1>3 DEF LeaderTick
  <2>2. Keeps(n, n)
    BY <1>3 DEF Keeps, InGroup
  <2>3. Keeps(n, Broadcast(Barrier(n)))
    BY <1>3, <1>5, <2>2, LeaderKeeps
  <2>4. Sound(i, Broadcast(Barrier(n)), saved, N, E)
    BY <1>3, <2>3, KeepsSound
  <2> QED BY <1>1, <1>4, <1>5, <2>1, <2>4, SoundResult
<1>6. CASE n.role # "Leader" /\ due /\ MayCampaign(n)
  <2>1. ElectionTick(n) = Campaign(n, n.st.term + 1)
    BY <1>3 DEF ElectionTick
  <2>2. Sound(i, Campaign(n, n.st.term + 1), saved, N, E)
    BY <1>3, <1>6, CampaignSound
  <2> QED BY <1>1, <1>6, <2>1, <2>2, SoundResult
<1> QED BY <1>1, <1>4, <1>5, <1>6

(* propose_many appends, matches itself, commits and broadcasts: none of it
   touches the term, the vote or the role.                                 *)
LEMMA ProposeKeeps ==
  ASSUME FixedGroups, NEW sc \in DOMAIN Scenarios, NEW n, InGroup(n), n.role = "Leader", NEW values
  PROVE  Keeps(n, ProposeMany(n, values))
<1> DEFINE first == LastId(n.st).index + 1
           batch == [k \in 1..Len(values) |-> Entry(first + k - 1, n.st.term, values[k])]
           x == [n EXCEPT !.st.entries = @ \o batch, !.dirty = TRUE, !.logFrom = first]
           y == RefreshMembership(x)
           z == MatchSelf(y, first + Len(values) - 1)
<1>1. ProposeMany(n, values) = Broadcast(AdvanceCommit(z))
  BY DEF ProposeMany
<1> HIDE DEF first, batch
<1>2. Keeps(n, x)
  <2>1. /\ DOMAIN x = NodeFields /\ x.st = [n.st EXCEPT !.entries = @ \o batch] /\ x.dirty
        /\ \A f \in NodeFields \ Log : x[f] = n[f]
    BY DEF InGroup, NodeFields, Log
  <2> HIDE DEF x
  <2>2. DOMAIN x.st = StFields /\ x.st.term = n.st.term /\ x.st.vote = n.st.vote
    BY <2>1 DEF InGroup, StFields
  <2> QED BY <2>1, <2>2, LogKeeps
<1> HIDE DEF x
<1>3. Keeps(n, y) /\ InGroup(y)
  <2>1. Keeps(x, y)
    BY <1>2, RefreshKeeps DEF Keeps
  <2> QED BY <1>2, <2>1, KeepsOn DEF Keeps
<1> HIDE DEF y
<1>4. Keeps(n, z)
  <2>1. Keeps(y, z)
    BY <1>3, MatchSelfKeeps
  <2> HIDE DEF z
  <2> QED BY <1>3, <2>1, KeepsOn
<1> HIDE DEF z
<1>5. Keeps(n, Broadcast(AdvanceCommit(z)))
  BY <1>4, LeaderKeeps
<1> QED BY <1>1, <1>5

(* compact_with replaces a prefix of the log by a snapshot and, on a leader,
   raises the barrier: the election's state is as before.                  *)
LEMMA CompactKeeps ==
  ASSUME FixedGroups, NEW sc \in DOMAIN Scenarios, NEW n, InGroup(n), NEW index
  PROVE  Keeps(n, CompactWith(n, index))
<1> DEFINE snapshot == [last |-> IdAt(n.st, index), app |-> AppliedThrough(n.st, index),
                        membership |-> MembershipAt(n, index).membership]
           x == [n EXCEPT !.st = Install(@, snapshot), !.dirty = TRUE, !.snapChanged = TRUE]
<1>1. CompactWith(n, index) = IF n.role = "Leader" THEN Broadcast(Barrier(x)) ELSE x
  BY DEF CompactWith
<1> HIDE DEF snapshot
<1>2. Keeps(n, x)
  <2>1. /\ DOMAIN x = NodeFields /\ x.st = Install(n.st, snapshot) /\ x.dirty
        /\ \A f \in NodeFields \ Log : x[f] = n[f]
    BY DEF InGroup, NodeFields, Log
  <2> HIDE DEF x
  <2>2. DOMAIN x.st = StFields /\ x.st.term = n.st.term /\ x.st.vote = n.st.vote
    BY <2>1 DEF InGroup, StFields, Install
  <2> QED BY <2>1, <2>2, LogKeeps
<1> HIDE DEF x
<1>3. n.role = "Leader" => Keeps(n, Broadcast(Barrier(x)))
  BY <1>2, LeaderKeeps
<1> QED BY <1>1, <1>2, <1>3

-----------------------------------------------------------------------------
(* What leaves a node.                                                     *)

(* Envelopes of a sound node are truthful, and the only vote they publish  *)
(* is the node's own.                                                      *)
LEMMA SentTruthful ==
  ASSUME NEW i \in Id, NEW n, NEW saved, NEW N, NEW E, Sound(i, n, saved, N, E),
         NEW e \in Sent(n)
  PROVE  /\ Truthful(e, N, E) /\ e.from = i /\ e.msg.term = n.st.term
         /\ e.msg.type = "Voted" /\ e.msg.granted => n.st.vote = e.to
         /\ e.msg.type = "Vote" => n.st.vote = i
         /\ Won(i, n, N) => e.msg.type \notin {"Vote", "Voted"}
<1>1. n.id = i /\ n.extra = None /\ ~n.hooks /\ n.st.term \in 0..U64Max
  BY DEF Sound, InGroup, HardState
<1>2. e \in Outgoing(n) /\ e.msg # None
  BY DEF Sent
<1>3. PICK s \in Slot : n.outbox[s] # None
                        /\ e = [from |-> n.id, to |-> n.peers[s], msg |-> MessageOf(n, s, n.outbox[s])]
  BY <1>1, <1>2 DEF Outgoing
<1> DEFINE out == n.outbox[s]
           msg == MessageOf(n, s, out)
<1>4. Honest(n, N, s, out)
  BY <1>3 DEF Sound
<1>5. e.from = i /\ e.to = n.peers[s] /\ e.msg = msg /\ e.to \in Id
  BY <1>1, <1>3, <1>4 DEF Honest
<1>6. /\ msg.term = n.st.term
      /\ \/ out.kind = "Vote" /\ msg.type = "Vote"
         \/ out.kind = "Voted" /\ msg.type = "Voted" /\ msg.granted = out.granted
         \/ out.kind = "Replicated" /\ msg.type = "Replicated"
         \/ out.kind = "Replicate" /\ msg.type \in {"Append", "Install"}
  <2> DEFINE st == n.st
             next == n.next[s]
  <2>1. msg # None
    BY <1>2, <1>5
  <2>2. CASE out.kind = "Vote"
    BY <2>2 DEF MessageOf
  <2>3. CASE out.kind = "Voted"
    BY <2>3 DEF MessageOf
  <2>4. CASE out.kind = "Replicated"
    BY <2>4 DEF MessageOf
  <2>5. CASE out.kind = "Replicate"
    <3>1. msg \in {None, [type |-> "Install", term |-> st.term, snapshot |-> st.snapshot],
                   [type |-> "Append", term |-> st.term, commit |-> st.commit,
                    previous |-> IdAt(st, next - 1), entry |-> Get(st, next)]}
      BY <1>1, <2>5 DEF MessageOf
    <3> HIDE DEF msg
    <3> QED BY <2>1, <2>5, <3>1
  <2> QED BY <1>4, <2>2, <2>3, <2>4, <2>5 DEF Honest
<1> HIDE DEF msg, out
<1>7. n.role = "Leader" => [term |-> n.st.term, id |-> i] \in E
  BY DEF Sound
<1>8. Truthful(e, N, E)
  BY <1>1, <1>4, <1>5, <1>6, <1>7 DEF Truthful, Honest
<1>9. Won(i, n, N) => out.kind = "Replicate"
  BY <1>3 DEF Won, out
<1> QED BY <1>1, <1>4, <1>5, <1>6, <1>8, <1>9 DEF Honest

-----------------------------------------------------------------------------
(* Steps of the system.                                                    *)

(* The published votes of the refinement mapping.                          *)
LEMMA Published ==
  ASSUME NEW v, NEW t, NEW j
  PROVE  [voter |-> v, term |-> t, for |-> j] \in PublishedVotes <=> Ballot(net, v, j, t)
BY DEF PublishedVotes, Ballot, Asked

(* The votes published by the envelopes of a sound node.                   *)
LEMMA PublishedBySent ==
  ASSUME NEW i \in Id, NEW n, NEW saved, NEW N, NEW E, Sound(i, n, saved, N, E),
         net' = net \cup Sent(n)
  PROVE  LET new == [voter |-> i, term |-> n.st.term, for |-> n.st.vote] IN
         /\ PublishedVotes' \in {PublishedVotes, PublishedVotes \cup {new}}
         /\ n.st.vote = None => PublishedVotes' = PublishedVotes
         /\ Won(i, n, N) => PublishedVotes' = PublishedVotes
<1> DEFINE new == [voter |-> i, term |-> n.st.term, for |-> n.st.vote]
           granted(e) == [voter |-> e.from, term |-> e.msg.term, for |-> e.to]
           own(e) == [voter |-> e.from, term |-> e.msg.term, for |-> e.from]
           G(S) == {granted(e) : e \in {x \in S : x.msg.type = "Voted" /\ x.msg.granted}}
           O(S) == {own(e) : e \in {x \in S : x.msg.type = "Vote"}}
           S == Sent(n)
<1>0. None \notin Id
  BY IdAssumption
<1>1. ASSUME NEW e \in S
      PROVE  /\ e.from = i /\ e.msg.term = n.st.term /\ e.to \in Id
             /\ e.msg.type = "Voted" /\ e.msg.granted => n.st.vote = e.to
             /\ e.msg.type = "Vote" => n.st.vote = i
             /\ Won(i, n, N) => e.msg.type \notin {"Vote", "Voted"}
  <2>1. /\ Truthful(e, N, E) /\ e.from = i /\ e.msg.term = n.st.term
        /\ e.msg.type = "Voted" /\ e.msg.granted => n.st.vote = e.to
        /\ e.msg.type = "Vote" => n.st.vote = i
        /\ Won(i, n, N) => e.msg.type \notin {"Vote", "Voted"}
    BY SentTruthful
  <2> QED BY <2>1 DEF Truthful
<1> HIDE DEF S
<1>2. ASSUME NEW x \in G(S) \cup O(S)
      PROVE  x = new /\ n.st.vote \in Id /\ ~Won(i, n, N)
  BY <1>1
<1>3. PublishedVotes = G(net) \cup O(net) /\ PublishedVotes' = G(net') \cup O(net')
  BY DEF PublishedVotes
<1>4. G(net') = G(net) \cup G(S) /\ O(net') = O(net) \cup O(S)
  BY DEF S
<1> HIDE DEF G, O, new
<1>5. PublishedVotes' = PublishedVotes \cup (G(S) \cup O(S))
  BY <1>3, <1>4
<1>6. G(S) \cup O(S) \in {{}, {new}}
  BY <1>2
<1>7. PublishedVotes' \in {PublishedVotes, PublishedVotes \cup {new}}
  BY <1>5, <1>6
<1>8. n.st.vote = None \/ Won(i, n, N) => PublishedVotes' = PublishedVotes
  BY <1>0, <1>2, <1>5
<1> QED BY <1>7, <1>8 DEF new

(* The abstract election decides by the same quorums.                      *)
LEMMA SameQuorum ==
  ASSUME NEW m, NEW A
  PROVE  Voting!Quorum(m, A) <=> Quorum(m, A)
<1>1. ASSUME NEW S PROVE Voting!Majority(S, A) <=> Majority(S, A)
  BY DEF Voting!Majority, Majority, Voting!Cardinality, Cardinality
<1> QED BY <1>1 DEF Voting!Quorum, Quorum, Voting!IsJoint, IsJoint

(* An operation keeps the invariant, and is a step of the election or none.*)
LEMMA ActStep ==
  ASSUME FixedGroups, RInv, NEW i \in Id, NEW r, Result(i, r, disk[i], net, elected), Act(i, r)
  PROVE  RInv' /\ [Voting!Next]_(Voting!vars)
<1> DEFINE F == elected \cup Leading(r)
           n == IF r.dirty THEN r ELSE Drained(r)
<1>1. /\ scenario' = scenario /\ disk' = disk /\ elected' = F
      /\ nodes' = [nodes EXCEPT ![i] = n]
      /\ net' = IF r.dirty THEN net ELSE net \cup Sent(r)
  BY DEF Act
<1>2. net \subseteq net' /\ elected \subseteq elected'
  BY <1>1
<1>3. Sound(i, r, disk[i], net, F) /\ r.id = i
  BY DEF Result, Sound
<1>4. Leading(r) \subseteq [term : 0..U64Max, id : Id]
  BY <1>3 DEF Leading, Sound, HardState
<1>5. Sound(i, n, disk[i], net, F)
  BY <1>3, DrainedSound
<1> HIDE DEF n, F
<1>6. RInv'
  <2>1. /\ scenario' \in DOMAIN Scenarios /\ DOMAIN nodes' = Id /\ DOMAIN disk' = Id
        /\ elected' \subseteq [term : 0..U64Max, id : Id]
    BY <1>1, <1>4 DEF RInv, F
  <2>2. ASSUME NEW j \in Id PROVE Sound(j, nodes'[j], disk'[j], net', elected')
    <3>1. CASE j = i
      <4>1. nodes'[j] = n
        BY <1>1, <3>1 DEF RInv
      <4> QED BY <1>1, <1>2, <1>5, <3>1, <4>1, SoundGrows
    <3>2. CASE j # i
      <4>1. nodes'[j] = nodes[j] /\ Sound(j, nodes[j], disk[j], net, elected)
        BY <1>1, <3>2 DEF RInv
      <4> QED BY <1>1, <1>2, <4>1, SoundGrows
    <3> QED BY <3>1, <3>2
  <2>3. ASSUME NEW e \in net' PROVE Truthful(e, net', elected')
    <3>1. CASE e \in net
      <4>1. Truthful(e, net, elected)
        BY <3>1 DEF RInv
      <4> QED BY <1>2, <4>1, TruthfulGrows
    <3>2. CASE e \in Sent(r)
      <4>1. Truthful(e, net, F)
        BY <1>3, <3>2, SentTruthful
      <4> QED BY <1>1, <1>2, <4>1, TruthfulGrows
    <3> QED BY <1>1, <3>1, <3>2
  <2> QED BY <2>1, <2>2, <2>3 DEF RInv
<1>7. [Voting!Next]_(Voting!vars)
  <2> DEFINE t == r.st.term
             v == r.st.vote
  <2>0. /\ t \in 0..U64Max /\ v \in Id \cup {None}
        /\ disk[i].term \in 0..U64Max /\ disk[i].vote \in Id \cup {None}
    BY <1>3 DEF Sound, HardState
  <2>1. CASE Leading(r) \subseteq elected /\ r.dirty
    <3>1. net' = net /\ elected' = elected
      BY <1>1, <2>1 DEF F
    <3>2. PublishedVotes' = PublishedVotes
      BY <3>1 DEF PublishedVotes
    <3> QED BY <1>1, <3>1, <3>2 DEF Voting!vars
  <2>2. CASE Leading(r) \subseteq elected /\ ~r.dirty
    <3>1. net' = net \cup Sent(r) /\ elected' = elected
      BY <1>1, <2>2 DEF F
    <3>2. t = disk[i].term /\ v = disk[i].vote
      BY <1>3, <2>2 DEF Sound
    <3>3. /\ PublishedVotes' \in {PublishedVotes, PublishedVotes \cup {[voter |-> i, term |-> t, for |-> v]}}
          /\ v = None => PublishedVotes' = PublishedVotes
      BY <1>3, <3>1, PublishedBySent
    <3>4. /\ [k \in Id |-> disk'[k].term] = [[k \in Id |-> disk[k].term] EXCEPT ![i] = t]
          /\ [k \in Id |-> disk'[k].vote] = [[k \in Id |-> disk[k].vote] EXCEPT ![i] = v]
      BY <1>1, <3>2
    <3> HIDE DEF t, v
    <3>5. Voting!Save(i, t, v)
      BY <2>0, <3>1, <3>2, <3>3, <3>4 DEF Voting!Save
    <3> QED BY <2>0, <3>5 DEF Voting!Next
  <2>3. CASE ~(Leading(r) \subseteq elected)
    <3>1. Won(i, r, net) /\ Leading(r) = {[term |-> t, id |-> i]}
      BY <1>3, <2>3 DEF Result, Leading
    <3>2. PublishedVotes' = PublishedVotes
      <4>1. CASE r.dirty
        BY <1>1, <4>1 DEF PublishedVotes
      <4>2. CASE ~r.dirty
        BY <1>1, <1>3, <3>1, <4>2, PublishedBySent
      <4> QED BY <4>1, <4>2
    <3>3. elected' = elected \cup {[term |-> t, id |-> i]}
      BY <1>1, <3>1 DEF F
    <3>4. Quorum(FixedGroup, Voting!Voters(t, i))
      <4> DEFINE A == {w \in Id : Ballot(net, w, i, t)}
                 B == Voting!Voters(t, i)
      <4>1. ASSUME NEW w \in A PROVE w \in B
        <5>1. [voter |-> w, term |-> t, for |-> i] \in PublishedVotes
          BY Published
        <5> QED BY <5>1 DEF Voting!Voters
      <4>2. Quorum(FixedGroup, A)
        BY <3>1 DEF Won
      <4>3. FixedGroup \in Memberships
        BY Group DEF RInv
      <4> HIDE DEF A, B
      <4>4. A \subseteq B
        BY <4>1
      <4>5. Quorum(FixedGroup, B)
        BY <4>2, <4>3, <4>4, QuorumGrows
      <4> QED BY <4>5 DEF B
    <3> HIDE DEF t, v
    <3>5. Voting!Elect(i, t)
      BY <1>1, <3>2, <3>3, <3>4, SameQuorum DEF Voting!Elect
    <3> QED BY <2>0, <3>5 DEF Voting!Next
  <2> QED BY <2>1, <2>2, <2>3
<1> QED BY <1>6, <1>7

(* A node built over a checkpoint.                                         *)
LEMMA BuildSound ==
  ASSUME FixedGroups, NEW sc \in DOMAIN Scenarios, NEW i \in Id, NEW st, HardState(st),
         NEW hooks, ~hooks, NEW N, NEW E
  PROVE  Sound(i, Build(i, st, FixedGroup, hooks), st, N, E)
<1> DEFINE x == [id |-> i, st |-> st, bootstrap |-> FixedGroup, hooks |-> hooks,
                 role |-> "Follower", leader |-> None, membership |-> FixedGroup,
                 peers |-> FixedGroup.slots, votes |-> {}, active |-> {},
                 next |-> Ones, matched |-> Zeros,
                 outbox |-> [s \in Slot |-> None], extra |-> None,
                 dirty |-> FALSE, logFrom |-> None, snapChanged |-> FALSE,
                 prevoting |-> None, aged |-> TRUE]
<1>1. Build(i, st, FixedGroup, hooks) = RefreshMembership(x)
  BY DEF Build
<1>2. InGroup(x)
  BY DEF InGroup, NodeFields, HardState
<1>3. /\ x.id = i /\ x.st = st /\ x.role = "Follower" /\ x.leader = None
      /\ \A s \in Slot : x.outbox[s] = None
  OBVIOUS
<1> HIDE DEF x
<1>4. Follows(st, x.st)
  BY <1>3, U64Assumption DEF Follows, HardState
<1>5. Sound(i, x, st, N, E)
  BY <1>2, <1>3, <1>4 DEF Sound
<1>6. Keeps(x, RefreshMembership(x))
  BY <1>2, RefreshKeeps
<1> QED BY <1>1, <1>5, <1>6, KeepsSound

(* A disk with the same term and vote.                                     *)
LEMMA SameHardState ==
  ASSUME NEW i \in Id, NEW n, NEW saved, NEW N, NEW E, Sound(i, n, saved, N, E),
         NEW new, HardState(new), new.term = saved.term, new.vote = saved.vote
  PROVE  Sound(i, n, new, N, E)
BY DEF Sound, Follows

(* The other nodes when one node, its disk and the network change.         *)
LEMMA OneNode ==
  ASSUME RInv, NEW i \in Id, NEW n, NEW new, nodes' = [nodes EXCEPT ![i] = n],
         DOMAIN disk' = Id, disk'[i] = new, \A j \in Id \ {i} : disk'[j] = disk[j],
         scenario' = scenario, elected' = elected,
         Sound(i, n, new, net, elected), net \subseteq net',
         \A e \in net' \ net : Truthful(e, net, elected)
  PROVE  RInv'
<1>1. /\ scenario' \in DOMAIN Scenarios /\ DOMAIN nodes' = Id /\ DOMAIN disk' = Id
      /\ elected' \subseteq [term : 0..U64Max, id : Id]
  BY DEF RInv
<1>2. ASSUME NEW j \in Id PROVE Sound(j, nodes'[j], disk'[j], net', elected')
  <2>1. Sound(j, nodes'[j], disk'[j], net, elected)
    <3>1. CASE j = i
      BY <3>1 DEF RInv
    <3>2. CASE j # i
      BY <3>2 DEF RInv
    <3> QED BY <3>1, <3>2
  <2> QED BY <2>1, SoundGrows
<1>3. ASSUME NEW e \in net' PROVE Truthful(e, net', elected')
  <2>1. Truthful(e, net, elected)
    BY DEF RInv
  <2> QED BY <2>1, TruthfulGrows
<1> QED BY <1>1, <1>2, <1>3 DEF RInv

(* A save publishes the vote that it makes durable.                        *)
LEMMA SaveStep ==
  ASSUME FixedGroups, RInv, NEW i \in Id, Save(i)
  PROVE  RInv' /\ [Voting!Next]_(Voting!vars)
<1>0. PICK m : m = nodes[i]
  OBVIOUS
<1> DEFINE n == Persisted(m)
           new == ApplyWrite(disk[i], Pending(m))
           t == m.st.term
           v == m.st.vote
<1>1. /\ disk' = [disk EXCEPT ![i] = new] /\ nodes' = [nodes EXCEPT ![i] = Drained(n)]
      /\ net' = net \cup Sent(n) /\ scenario' = scenario /\ elected' = elected
  BY <1>0 DEF Save
<1>2. Sound(i, m, disk[i], net, elected)
  BY <1>0 DEF RInv
<1>3. /\ t \in 0..U64Max /\ v \in Id \cup {None} /\ Follows(disk[i], m.st)
      /\ disk[i].term \in 0..U64Max
  BY <1>2 DEF Sound, HardState
<1>4. new.term = t /\ new.vote = v /\ DOMAIN new = StFields
  BY DEF ApplyWrite, Pending, Write, StFields
<1> HIDE DEF new
<1>5. HardState(new)
  BY <1>3, <1>4 DEF HardState
<1>6. Sound(i, n, new, net, elected)
  BY <1>2, <1>4, <1>5, PersistedSound
<1>7. Sound(i, Drained(n), new, net, elected)
  BY <1>6, DrainedSound
<1>8. n.st = m.st
  BY <1>2 DEF Persisted, Sound, InGroup, NodeFields
<1> HIDE DEF n
<1>9. RInv'
  <2>1. \A e \in net' \ net : Truthful(e, net, elected)
    BY <1>1, <1>6, SentTruthful
  <2> DEFINE d == Drained(n)
  <2>2. nodes' = [nodes EXCEPT ![i] = d] /\ Sound(i, d, new, net, elected)
    BY <1>1, <1>7
  <2>3. DOMAIN disk' = Id /\ disk'[i] = new /\ \A j \in Id \ {i} : disk'[j] = disk[j]
    BY <1>1 DEF RInv
  <2> HIDE DEF d
  <2> QED BY <1>1, <2>1, <2>2, <2>3, OneNode
<1>10. Voting!Save(i, t, v)
  <2>1. /\ PublishedVotes' \in {PublishedVotes, PublishedVotes \cup {[voter |-> i, term |-> t, for |-> v]}}
        /\ v = None => PublishedVotes' = PublishedVotes
    BY <1>1, <1>6, <1>8, PublishedBySent
  <2>2. /\ [k \in Id |-> disk'[k].term] = [[k \in Id |-> disk[k].term] EXCEPT ![i] = t]
        /\ [k \in Id |-> disk'[k].vote] = [[k \in Id |-> disk[k].vote] EXCEPT ![i] = v]
    BY <1>1, <1>4 DEF RInv
  <2>3. t >= disk[i].term /\ (t = disk[i].term /\ disk[i].vote # None => v = disk[i].vote)
    BY <1>3 DEF Follows
  <2> HIDE DEF t, v
  <2> QED BY <1>1, <2>1, <2>2, <2>3 DEF Voting!Save
<1>11. Voting!Next
  BY <1>3, <1>10 DEF Voting!Next
<1> QED BY <1>9, <1>11(* A crash forgets what was not saved, and nothing that was published.     *)
LEMMA CrashStep ==
  ASSUME FixedGroups, RInv, NEW i \in Id, Crash(i)
  PROVE  RInv' /\ [Voting!Next]_(Voting!vars)
<1> DEFINE n == Build(i, disk[i], nodes[i].bootstrap, nodes[i].hooks)
<1>1. /\ nodes' = [nodes EXCEPT ![i] = n] /\ disk' = disk /\ net' = net
      /\ scenario' = scenario /\ elected' = elected
  BY DEF Crash, RInv
<1>2. Sound(i, nodes[i], disk[i], net, elected) /\ scenario \in DOMAIN Scenarios /\ DOMAIN disk = Id
  BY DEF RInv
<1>3. HardState(disk[i]) /\ nodes[i].bootstrap = FixedGroup /\ ~nodes[i].hooks
  BY <1>2 DEF Sound, InGroup
<1>4. Sound(i, n, disk[i], net, elected)
  BY <1>2, <1>3, BuildSound
<1> HIDE DEF n
<1>5. DOMAIN disk' = Id /\ disk'[i] = disk[i] /\ \A j \in Id \ {i} : disk'[j] = disk[j]
  BY <1>1, <1>2
<1>6. RInv'
  BY <1>1, <1>4, <1>5, OneNode
<1>7. PublishedVotes' = PublishedVotes
  BY <1>1 DEF PublishedVotes
<1> QED BY <1>1, <1>6, <1>7 DEF Voting!vars

(* A larger capacity.                                                      *)
LEMMA GrowStep ==
  ASSUME FixedGroups, RInv, NEW i \in Id, GrowLog(i)
  PROVE  RInv' /\ [Voting!Next]_(Voting!vars)
<1>1. PICK g \in Bounds.growth :
        /\ nodes' = [nodes EXCEPT ![i] = GrowNode(nodes[i], g.cap)]
        /\ disk' = [disk EXCEPT ![i] = Grow(disk[i], g.cap)]
        /\ UNCHANGED <<scenario, net, elected, chosen>>
  BY DEF GrowLog, RInv
<1> DEFINE n == GrowNode(nodes[i], g.cap)
           new == Grow(disk[i], g.cap)
<1>2. Sound(i, nodes[i], disk[i], net, elected)
  BY DEF RInv
<1>3. HardState(new) /\ new.term = disk[i].term /\ new.vote = disk[i].vote
  BY <1>2 DEF Sound, HardState, Grow, StFields
<1>4. Keeps(nodes[i], n)
  <2>1. /\ DOMAIN n = NodeFields /\ n.st = Grow(nodes[i].st, g.cap) /\ n.dirty = nodes[i].dirty
        /\ \A f \in NodeFields \ Log : n[f] = nodes[i][f]
    BY <1>2 DEF Sound, InGroup, NodeFields, Log, GrowNode
  <2> HIDE DEF n
  <2>2. DOMAIN n.st = StFields /\ n.st.term = nodes[i].st.term /\ n.st.vote = nodes[i].st.vote
    BY <1>2, <2>1 DEF Sound, HardState, StFields, Grow
  <2> QED BY <1>2, <2>1, <2>2, LogKeeps DEF Sound
<1>5. /\ DOMAIN disk' = Id /\ disk'[i] = new /\ \A j \in Id \ {i} : disk'[j] = disk[j]
      /\ nodes' = [nodes EXCEPT ![i] = n]
  BY <1>1 DEF RInv
<1> HIDE DEF n, new
<1>6. Sound(i, n, new, net, elected)
  BY <1>2, <1>3, <1>4, KeepsSound, SameHardState
<1>7. RInv'
  BY <1>1, <1>5, <1>6, OneNode
<1>8. /\ [k \in Id |-> disk'[k].term] = [k \in Id |-> disk[k].term]
      /\ [k \in Id |-> disk'[k].vote] = [k \in Id |-> disk[k].vote]
  BY <1>3, <1>5
<1>9. PublishedVotes' = PublishedVotes
  BY <1>1 DEF PublishedVotes
<1> QED BY <1>1, <1>7, <1>8, <1>9 DEF Voting!vars

(* A node that may operate has nothing queued.                             *)
LEMMA AvailableEmpties ==
  ASSUME NEW n, Available(n)
  PROVE  Empties(n)
BY DEF Available, Empties

(* Every step keeps the invariant, and is a step of the election or none.  *)
LEMMA NextStep ==
  ASSUME FixedGroups, RInv, Next
  PROVE  RInv' /\ [Voting!Next]_(Voting!vars)
<1>1. PICK i \in Id : \/ Timer(i) \/ Deliver(i) \/ Propose(i) \/ Compact(i) \/ GrowLog(i)
                      \/ ChangeLearners(i) \/ BeginJoint(i) \/ FinishJoint(i)
                      \/ Save(i) \/ Crash(i)
  BY DEF Next
<1>2. Sound(i, nodes[i], disk[i], net, elected) /\ scenario \in DOMAIN Scenarios
  BY DEF RInv
<1>3. ~Bounds.hooks
  BY <1>2 DEF FixedGroups, Bounds
<1>4. CASE Timer(i)
  <2>1. PICK check \in BOOLEAN, due \in BOOLEAN, ages \in BOOLEAN :
          CanTick(i, check, due, ages) /\ Act(i, Tick(nodes[i], check, due, ages))
    BY <1>4 DEF Timer
  <2>2. Empties(nodes[i])
    BY <2>1, AvailableEmpties DEF CanTick
  <2>3. Result(i, Tick(nodes[i], check, due, ages), disk[i], net, elected)
    BY <1>2, <2>2, TickResult
  <2> QED BY <2>1, <2>3, ActStep
<1>5. CASE Deliver(i)
  <2>1. PICK env \in net : Accepts(nodes[i], env) /\ Act(i, Step(nodes[i], env))
    BY <1>5 DEF Deliver
  <2>2. Truthful(env, net, elected)
    BY DEF RInv
  <2>3. Result(i, Step(nodes[i], env), disk[i], net, elected)
    BY <1>2, <2>1, <2>2, StepResult
  <2> QED BY <2>1, <2>3, ActStep
<1>6. CASE Propose(i)
  <2>1. PICK values \in Bounds.batches : /\ CanAdmit(nodes[i], Len(values))
                                         /\ Act(i, ProposeMany(nodes[i], values))
    BY <1>6 DEF Propose
  <2>2. InGroup(nodes[i]) /\ nodes[i].role = "Leader"
    BY <1>2, <2>1 DEF CanAdmit, CanPropose, Sound
  <2>3. Keeps(nodes[i], ProposeMany(nodes[i], values))
    BY <1>2, <2>2, ProposeKeeps
  <2>4. Result(i, ProposeMany(nodes[i], values), disk[i], net, elected)
    BY <1>2, <2>3, KeepsSound, SoundResult
  <2> QED BY <2>1, <2>4, ActStep
<1>7. CASE Compact(i)
  <2>1. PICK index \in 1..U64Max : Act(i, CompactWith(nodes[i], index))
    BY <1>7 DEF Compact
  <2>2. Keeps(nodes[i], CompactWith(nodes[i], index))
    BY <1>2, CompactKeeps DEF Sound
  <2>3. Result(i, CompactWith(nodes[i], index), disk[i], net, elected)
    BY <1>2, <2>2, KeepsSound, SoundResult
  <2> QED BY <2>1, <2>3, ActStep
<1>8. CASE GrowLog(i)
  BY <1>8, GrowStep
<1>9. CASE ChangeLearners(i) \/ BeginJoint(i) \/ FinishJoint(i)
  BY <1>3, <1>9 DEF ChangeLearners, BeginJoint, FinishJoint
<1>10. CASE Save(i)
  BY <1>10, SaveStep
<1>11. CASE Crash(i)
  BY <1>11, CrashStep
<1> QED BY <1>1, <1>4, <1>5, <1>6, <1>7, <1>8, <1>9, <1>10, <1>11

(* The system starts with nothing sent and nobody elected.                 *)
LEMMA InitStep ==
  ASSUME FixedGroups, Init
  PROVE  RInv /\ Voting!Init
<1>1. /\ scenario \in DOMAIN Scenarios /\ net = {} /\ elected = {}
      /\ disk = [i \in Id |-> Bounds.disk[i]]
      /\ nodes = [i \in Id |-> Build(i, disk[i], Bounds.genesis, Bounds.hooks)]
  BY DEF Init
<1>2. Bounds.genesis = FixedGroup /\ ~Bounds.hooks
  BY <1>1 DEF FixedGroups, Bounds
<1>3. ASSUME NEW i \in Id PROVE HardState(disk[i])
  BY <1>1, DisksAssumption DEF HardState, StFields, Bounds, Checkpoints
<1>4. ASSUME NEW i \in Id PROVE Sound(i, nodes[i], disk[i], net, elected)
  <2>1. nodes[i] = Build(i, disk[i], FixedGroup, Bounds.hooks)
    BY <1>1, <1>2
  <2> QED BY <1>1, <1>2, <1>3, <2>1, BuildSound
<1>5. RInv
  BY <1>1, <1>4 DEF RInv
<1>6. PublishedVotes = {}
  BY <1>1 DEF PublishedVotes
<1>7. Voting!Init
  BY <1>1, <1>3, <1>6 DEF Voting!Init, HardState
<1> QED BY <1>5, <1>7

-----------------------------------------------------------------------------
(* Theorems.                                                               *)

(* The invariant holds in every behaviour of fixed groups.                 *)
LEMMA AlwaysRInv ==
  ASSUME FixedGroups
  PROVE  Spec => []RInv
<1>1. Init => RInv
  BY InitStep
<1>2. RInv /\ [Next]_vars => RInv'
  <2>1. CASE UNCHANGED vars
    BY <2>1 DEF RInv, vars
  <2> QED BY <2>1, NextStep
<1> QED BY <1>1, <1>2, PTL DEF Spec

(* Nodes of a fixed group elect their leaders as Election says: whatever   *)
(* is lost, repeated, reordered, crashed or compacted, a vote is durable   *)
(* before it is published and a leader has a quorum of published votes     *)
(* (campaign, step, become_leader, next_message).                          *)
THEOREM FixedGroupsElect ==
  ASSUME FixedGroups
  PROVE  Spec => ImplementsElection
<1>1. Init => Voting!Init
  BY InitStep
<1>2. RInv /\ [Next]_vars => [Voting!Next]_(Voting!vars)
  <2>1. CASE UNCHANGED vars
    BY <2>1 DEF vars, Voting!vars, PublishedVotes
  <2> QED BY <2>1, NextStep
<1>3. Spec => []RInv
  BY AlwaysRInv
<1> QED BY <1>1, <1>2, <1>3, PTL DEF Spec, ImplementsElection, Voting!Spec

(* The theorems about the abstract election, for the votes of Raft.        *)
Elections == INSTANCE ElectionProofs
               WITH Config <- FixedGroup, Term <- 0..U64Max,
                    term <- [i \in Id |-> disk[i].term], vote <- [i \in Id |-> disk[i].vote],
                    cast <- PublishedVotes, elected <- elected

(* Its assumptions hold of a fixed group.                                  *)
LEMMA ElectionsAssumptions ==
  ASSUME FixedGroups, NEW sc \in DOMAIN Scenarios
  PROVE  /\ Elections!ConfigAssumption /\ Elections!TermAssumption /\ Elections!IdAssumption
         /\ Elections!NoneAssumption /\ Elections!MaxAssumption
<1>1. Elections!ConfigAssumption
  <2>1. FixedGroup \in Memberships
    BY Group
  <2> QED BY <2>1 DEF Elections!Memberships, Memberships, Elections!Slot, Slot
<1>2. Elections!TermAssumption
  BY U64Assumption
<1>3. Elections!IdAssumption
  BY IdAssumption DEF Elections!IsFiniteSet, IsFiniteSet
<1>4. Elections!NoneAssumption
  BY NoneAssumption DEF Elections!Memberships, Memberships, Elections!Slot, Slot
<1>5. Elections!MaxAssumption
  BY MaxAssumption
<1> QED BY <1>1, <1>2, <1>3, <1>4, <1>5

(* Its steps are those of the refinement.                                  *)
LEMMA ElectionsSteps ==
  /\ Voting!Init => Elections!Init
  /\ [Voting!Next]_(Voting!vars) => [Elections!Next]_(Elections!vars)
<1>1. ASSUME NEW m, NEW A PROVE Voting!Quorum(m, A) <=> Elections!Quorum(m, A)
  <2>1. ASSUME NEW S PROVE Voting!Majority(S, A) <=> Elections!Majority(S, A)
    BY DEF Voting!Majority, Elections!Majority, Voting!Cardinality, Elections!Cardinality
  <2> QED BY <2>1 DEF Voting!Quorum, Elections!Quorum, Voting!IsJoint, Elections!IsJoint
<1>2. Voting!Init => Elections!Init
  BY DEF Voting!Init, Elections!Init
<1>3. Voting!vars = Elections!vars /\ Voting!vars' = Elections!vars'
  BY DEF Voting!vars, Elections!vars
<1>4. ASSUME NEW i \in Id, NEW t \in 0..U64Max, NEW v \in Id \cup {None}, Voting!Save(i, t, v)
      PROVE  Elections!Next
  <2>1. Elections!Save(i, t, v)
    BY <1>4 DEF Voting!Save, Elections!Save
  <2> QED BY <2>1 DEF Elections!Next
<1>5. ASSUME NEW i \in Id, NEW t \in 0..U64Max, Voting!Elect(i, t)
      PROVE  Elections!Next
  <2>1. Voting!Voters(t, i) = Elections!Voters(t, i)
    BY DEF Voting!Voters, Elections!Voters
  <2>2. Elections!Elect(i, t)
    BY <1>1, <1>5, <2>1 DEF Voting!Elect, Elections!Elect
  <2> QED BY <2>2 DEF Elections!Next
<1>6. Voting!Next => Elections!Next
  BY <1>4, <1>5 DEF Voting!Next
<1> QED BY <1>2, <1>3, <1>6

(* At most one node of a fixed group is ever leader in a term, for any     *)
(* number of nodes, terms and messages (become_leader, the durable vote of *)
(* step and campaign).                                                     *)
THEOREM OneLeaderPerTerm ==
  ASSUME FixedGroups
  PROVE  Spec => []ElectionSafety
<1>1. Init => RInv /\ Elections!IInv
  <2> SUFFICES ASSUME Init PROVE RInv /\ Elections!IInv
    OBVIOUS
  <2>1. RInv /\ Elections!Init
    BY InitStep, ElectionsSteps
  <2>2. scenario \in DOMAIN Scenarios
    BY <2>1 DEF RInv
  <2>3. /\ Elections!ConfigAssumption /\ Elections!TermAssumption /\ Elections!IdAssumption
        /\ Elections!NoneAssumption /\ Elections!MaxAssumption
    BY <2>2, ElectionsAssumptions
  <2> QED BY <2>1, <2>3, Elections!InitIInv
<1>2. RInv /\ Elections!IInv /\ [Next]_vars => RInv' /\ Elections!IInv'
  <2> SUFFICES ASSUME RInv, Elections!IInv, [Next]_vars PROVE RInv' /\ Elections!IInv'
    OBVIOUS
  <2>1. RInv' /\ [Voting!Next]_(Voting!vars)
    <3>1. CASE UNCHANGED vars
      BY <3>1 DEF vars, Voting!vars, PublishedVotes, RInv
    <3> QED BY <3>1, NextStep
  <2>2. scenario \in DOMAIN Scenarios
    BY DEF RInv
  <2>3. /\ Elections!ConfigAssumption /\ Elections!TermAssumption /\ Elections!IdAssumption
        /\ Elections!NoneAssumption /\ Elections!MaxAssumption
    BY <2>2, ElectionsAssumptions
  <2>4. [Elections!Next]_(Elections!vars)
    BY <2>1, ElectionsSteps
  <2>5. Elections!IInv'
    BY <2>3, <2>4, Elections!NextIInv
  <2> QED BY <2>1, <2>5
<1>3. RInv /\ Elections!IInv => ElectionSafety
  <2> SUFFICES ASSUME RInv, Elections!IInv PROVE ElectionSafety
    OBVIOUS
  <2>1. scenario \in DOMAIN Scenarios
    BY DEF RInv
  <2>2. /\ Elections!ConfigAssumption /\ Elections!TermAssumption /\ Elections!IdAssumption
        /\ Elections!NoneAssumption /\ Elections!MaxAssumption
    BY <2>1, ElectionsAssumptions
  <2>3. Elections!AtMostOneLeader
    BY <2>2, Elections!IInvSafe
  <2> QED BY <2>3 DEF Elections!AtMostOneLeader, ElectionSafety
<1> QED BY <1>1, <1>2, <1>3, PTL DEF Spec

(* A node that names a leader names one that was elected in its own term,  *)
(* across crashes and late messages (follow, campaign, become_leader).     *)
THEOREM HintsNameLeaders ==
  ASSUME FixedGroups
  PROVE  Spec => []LeaderHint
<1>1. RInv => LeaderHint
  BY DEF RInv, Sound, LeaderHint
<1>2. Spec => []RInv
  BY AlwaysRInv
<1> QED BY <1>1, <1>2, PTL

-----------------------------------------------------------------------------
(* Logs and the ledger of leaders.                                         *)

(* Two logs agree through index m.                                         *)
Agree(A, B, m) == m <= Len(A) /\ m <= Len(B) /\ \A k \in 1..m : A[k] = B[k]

(* The ledger H gives every term that had a leader the log its leader has  *)
(* on disk.  Each entry of a log comes from the leader of its term, with   *)
(* all that was before it.                                                 *)
Rooted(A, H) ==
  /\ A \in Seq(Entries)
  /\ \A k \in 1..Len(A) : /\ A[k].id.index = k /\ A[k].id.term \in DOMAIN H
                          /\ Agree(A, H[A[k].id.term], k)
Ledger(H) ==
  /\ DOMAIN H \subseteq 1..U64Max
  /\ \A t \in DOMAIN H : Rooted(H[t], H) /\ \A k \in 1..Len(H[t]) : H[t][k].id.term <= t

(* Entry m of the leader of t is of its own term.                          *)
Own(H, t, m) == t \in DOMAIN H /\ m \in 1..Len(H[t]) /\ H[t][m].id.term = t

(* What leader t had through m, a later leader up to top had not.          *)
Lost(H, t, m, top) == \E u \in DOMAIN H : t < u /\ u <= top /\ ~Agree(H[u], H[t], m)
Safe(H, A, t, m, top) == Agree(A, H[t], m) \/ Lost(H, t, m, top)

(* The leader's log that ends at an identity.                              *)
Through(H, last) == IF last.index = 0 THEN <<>> ELSE SubSeq(H[last.term], 1, last.index)

(* Terms and values of entries.                                            *)
LEMMA EntryTyped ==
  ASSUME NEW A \in Seq(Entries), NEW k \in 1..Len(A)
  PROVE  /\ A[k] \in Entries /\ A[k].id \in LogIds /\ A[k].id.term \in Nat /\ A[k].id.index \in Nat
         /\ A[k].id = LogId(A[k].id.index, A[k].id.term) /\ Len(A) \in Nat /\ k \in Nat
<1>1. A[k] \in Entries /\ Len(A) \in Nat /\ k \in Nat
  OBVIOUS
<1>2. A[k].id \in LogIds
  BY <1>1 DEF Entries
<1> QED BY <1>1, <1>2, U64Assumption DEF LogIds, LogId

(* Agreement is symmetric, transitive and closed below.                    *)
LEMMA Agreeing ==
  ASSUME NEW A \in Seq(Entries), NEW B \in Seq(Entries), NEW m \in Nat, Agree(A, B, m)
  PROVE  /\ Agree(B, A, m)
         /\ \A k \in Nat : k <= m => Agree(A, B, k)
         /\ \A F \in Seq(Entries) : Agree(B, F, m) => Agree(A, F, m)
<1>1. Len(A) \in Nat /\ Len(B) \in Nat
  OBVIOUS
<1>2. Agree(B, A, m)
  BY <1>1 DEF Agree
<1>3. ASSUME NEW k \in Nat, k <= m PROVE Agree(A, B, k)
  BY <1>1, <1>3 DEF Agree
<1>4. ASSUME NEW F \in Seq(Entries), Agree(B, F, m) PROVE Agree(A, F, m)
  BY <1>1, <1>4 DEF Agree
<1> QED BY <1>2, <1>3, <1>4

(* Log matching: rooted logs with one identity in common agree up to it.   *)
LEMMA Matching ==
  ASSUME NEW H, Ledger(H), NEW A, NEW B, Rooted(A, H), Rooted(B, H),
         NEW k \in Nat, k \in 1..Len(A), k \in 1..Len(B), A[k].id.term = B[k].id.term
  PROVE  Agree(A, B, k)
<1> DEFINE u == A[k].id.term
<1>1. A \in Seq(Entries) /\ B \in Seq(Entries) /\ u \in DOMAIN H /\ Agree(A, H[u], k) /\ Agree(B, H[u], k)
  BY DEF Rooted
<1> HIDE DEF u
<1>2. H[u] \in Seq(Entries)
  BY <1>1 DEF Ledger, Rooted
<1>3. Agree(H[u], B, k)
  BY <1>1, <1>2, Agreeing
<1> QED BY <1>1, <1>2, <1>3, Agreeing

(* Terms never decrease along a log.                                       *)
LEMMA TermsGrow ==
  ASSUME NEW H, Ledger(H), NEW A, Rooted(A, H), NEW j \in Nat, NEW k \in Nat, j >= 1, j <= k, k <= Len(A)
  PROVE  A[j].id.term <= A[k].id.term
<1> DEFINE u == A[k].id.term
<1>1. A \in Seq(Entries) /\ Len(A) \in Nat /\ j \in 1..Len(A) /\ k \in 1..Len(A)
  BY DEF Rooted
<1>2. u \in DOMAIN H /\ Agree(A, H[u], k)
  BY <1>1 DEF Rooted
<1> HIDE DEF u
<1>3. j \in 1..Len(H[u]) /\ A[j] = H[u][j]
  <2>1. Len(H[u]) \in Nat
    BY <1>2 DEF Ledger, Rooted
  <2> QED BY <1>1, <1>2, <2>1 DEF Agree
<1>4. H[u][j].id.term <= u
  BY <1>2, <1>3 DEF Ledger
<1> QED BY <1>3, <1>4 DEF u

-----------------------------------------------------------------------------
(* The ledger grows: a leader appends to its log, a new leader enters.     *)

Grows(H, G) ==
  /\ DOMAIN H \subseteq DOMAIN G
  /\ \A t \in DOMAIN H : /\ Agree(H[t], G[t], Len(H[t]))
                         /\ \A k \in 1..Len(G[t]) : k > Len(H[t]) => G[t][k].id.term = t

(* Whatever agreed with a leader still does, whatever was lost stays so.   *)
LEMMA Growing ==
  ASSUME NEW H, NEW G, Ledger(H), Ledger(G), Grows(H, G), NEW t \in DOMAIN H, NEW m \in Nat
  PROVE  /\ \A A \in Seq(Entries) : Agree(A, H[t], m) => Agree(A, G[t], m)
         /\ \A A \in Seq(Entries) : m <= Len(H[t]) /\ Agree(A, G[t], m) => Agree(A, H[t], m)
         /\ Own(H, t, m) => Own(G, t, m)
         /\ m <= Len(H[t]) /\ Own(G, t, m) => Own(H, t, m)
         /\ \A top : m <= Len(H[t]) /\ Lost(H, t, m, top) => Lost(G, t, m, top)
         /\ \A A \in Seq(Entries) : \A top : m <= Len(H[t]) /\ Safe(H, A, t, m, top) => Safe(G, A, t, m, top)
<1>1. /\ H[t] \in Seq(Entries) /\ G[t] \in Seq(Entries) /\ t \in DOMAIN G /\ Agree(H[t], G[t], Len(H[t]))
      /\ Len(H[t]) \in Nat /\ Len(G[t]) \in Nat
  BY DEF Grows, Ledger, Rooted
<1>2. ASSUME NEW A \in Seq(Entries), Agree(A, H[t], m) PROVE Agree(A, G[t], m)
  BY <1>1, <1>2 DEF Agree
<1>3. ASSUME NEW A \in Seq(Entries), m <= Len(H[t]), Agree(A, G[t], m) PROVE Agree(A, H[t], m)
  BY <1>1, <1>3 DEF Agree
<1>4. Own(H, t, m) => Own(G, t, m)
  BY <1>1 DEF Own, Agree
<1>5. m <= Len(H[t]) /\ Own(G, t, m) => Own(H, t, m)
  BY <1>1 DEF Own, Agree
<1>6. ASSUME NEW top, m <= Len(H[t]), Lost(H, t, m, top) PROVE Lost(G, t, m, top)
  <2>1. PICK u \in DOMAIN H : t < u /\ u <= top /\ ~Agree(H[u], H[t], m)
    BY <1>6 DEF Lost
  <2>2. /\ H[u] \in Seq(Entries) /\ G[u] \in Seq(Entries) /\ u \in DOMAIN G /\ Agree(H[u], G[u], Len(H[u]))
        /\ Len(H[u]) \in Nat /\ Len(G[u]) \in Nat
    BY DEF Grows, Ledger, Rooted
  <2>3. u \in Nat /\ t \in Nat
    BY DEF Ledger
  <2>4. ASSUME Agree(G[u], G[t], m) PROVE FALSE
    <3>1. CASE m <= Len(H[u])
      BY <1>1, <1>6, <2>1, <2>2, <2>4, <3>1 DEF Agree
    <3>2. CASE ~(m <= Len(H[u]))
      <4>1. m \in 1..Len(G[u]) /\ m > Len(H[u]) /\ m \in 1..Len(H[t])
        BY <1>1, <1>6, <2>2, <2>4, <3>2 DEF Agree
      <4>2. G[u][m].id.term = u
        BY <4>1 DEF Grows
      <4>3. H[t][m].id.term <= t
        BY <4>1 DEF Ledger
      <4>4. H[t][m] = G[t][m] /\ G[t][m] = G[u][m]
        BY <1>1, <2>4, <4>1 DEF Agree
      <4> QED BY <2>1, <2>3, <4>2, <4>3, <4>4
    <3> QED BY <3>1, <3>2
  <2> QED BY <2>1, <2>2, <2>4 DEF Lost
<1>7. ASSUME NEW A \in Seq(Entries), NEW top, m <= Len(H[t]), Safe(H, A, t, m, top) PROVE Safe(G, A, t, m, top)
  BY <1>2, <1>6, <1>7 DEF Safe
<1> QED BY <1>2, <1>3, <1>4, <1>5, <1>6, <1>7

(* Logs stay rooted.                                                       *)
LEMMA RootedGrows ==
  ASSUME NEW H, NEW G, DOMAIN H \subseteq DOMAIN G,
         \A t \in DOMAIN H : H[t] \in Seq(Entries) /\ G[t] \in Seq(Entries) /\ Agree(H[t], G[t], Len(H[t])),
         NEW A, Rooted(A, H)
  PROVE  Rooted(A, G)
<1>1. ASSUME NEW k \in 1..Len(A)
      PROVE  /\ A[k].id.index = k /\ A[k].id.term \in DOMAIN G /\ Agree(A, G[A[k].id.term], k)
  <2> DEFINE u == A[k].id.term
  <2>1. A[k].id.index = k /\ u \in DOMAIN H /\ Agree(A, H[u], k) /\ A \in Seq(Entries)
    BY DEF Rooted
  <2> HIDE DEF u
  <2>2. H[u] \in Seq(Entries) /\ G[u] \in Seq(Entries) /\ Agree(H[u], G[u], Len(H[u])) /\ u \in DOMAIN G
    BY <2>1
  <2>3. Agree(A, G[u], k)
    BY <2>1, <2>2 DEF Agree
  <2> QED BY <2>1, <2>2, <2>3 DEF u
<1> QED BY <1>1 DEF Rooted

-----------------------------------------------------------------------------
(* What the disks, the messages and the leaders so far have in common.     *)
(* T and L are the terms and the logs on the disks, N the messages, E the  *)
(* leaders, C the log published so far.                                    *)

(* q has told that it holds the log of leader t through m, or is t itself. *)
IsAck(x, q, t, m) ==
  /\ x.from = q /\ x.msg.type = "Replicated" /\ x.msg.rejection = None
  /\ x.msg.term = t /\ m <= x.msg.index
Acked(N, E, H, q, t, m) ==
  \/ \E x \in N : IsAck(x, q, t, m)
  \/ [term |-> t, id |-> q] \in E /\ m <= Len(H[t])

IsVote(x, c, t) == x.from = c /\ x.msg.type = "Vote" /\ x.msg.term = t

(* Log A, of term top, has whatever v had told earlier leaders, unless a   *)
(* leader between them has not.                                            *)
Inherits(N, E, H, v, top, A) ==
  \A t \in DOMAIN H, m \in Nat :
    t < top /\ Own(H, t, m) /\ Acked(N, E, H, v, t, m) => Safe(H, A, t, m, top - 1)

LeadersOK(T, E, H) ==
  /\ E \subseteq [term : Nat, id : Id]
  /\ DOMAIN H = {x.term : x \in E}
  /\ \A x, y \in E : x.term = y.term => x.id = y.id
  /\ \A x \in E : x.term <= T[x.id]

DisksOK(T, L, H) ==
  \A q \in Id : /\ T[q] \in Nat /\ Rooted(L[q], H)
                /\ \A k \in 1..Len(L[q]) : L[q][k].id.term <= T[q]

AcksOK(T, L, N, E, H) ==
  /\ \A x \in N : x.msg.type = "Replicated" /\ x.msg.rejection = None =>
       x.msg.term \in DOMAIN H /\ x.msg.index \in 0..Len(H[x.msg.term])
  /\ \A q \in Id, t \in DOMAIN H, m \in Nat :
       m <= Len(H[t]) /\ Acked(N, E, H, q, t, m) => t <= T[q] /\ Safe(H, L[q], t, m, T[q])

Placed(H, last, t) ==
  \/ last = Genesis
  \/ /\ last.term \in DOMAIN H /\ last.term < t /\ last.index \in 1..Len(H[last.term])
     /\ H[last.term][last.index].id = last
VotesOK(N, H) == \A x \in N : x.msg.type = "Vote" => Placed(H, x.msg.last, x.msg.term)

Granted(T, N, E, H, x) ==
  /\ x.msg.term <= T[x.from]
  /\ \E w \in N : /\ IsVote(w, x.to, x.msg.term)
                  /\ Inherits(N, E, H, x.from, x.msg.term, Through(H, w.msg.last))
GrantsOK(T, N, E, H) ==
  \A x \in N : x.msg.type = "Voted" /\ x.msg.granted =>
    /\ x.msg.term \in Nat /\ x.from \in Id
    /\ x.msg.term \notin DOMAIN H => Granted(T, N, E, H, x)

TermOf(T, N, E, H, u) ==
  \E V \in SUBSET Id : /\ Quorum(FixedGroup, V)
                       /\ \A v \in V : u <= T[v] /\ Inherits(N, E, H, v, u, H[u])
TermsOK(T, N, E, H) == \A u \in DOMAIN H : TermOf(T, N, E, H, u)

(* A quorum holds an entry of its leader's own term.                       *)
Decided(N, E, H, t, m) == Own(H, t, m) /\ Quorum(FixedGroup, {q \in Id : Acked(N, E, H, q, t, m)})

Backed(N, E, H, A, m) ==
  \E t \in DOMAIN H, k \in Nat : Decided(N, E, H, t, k) /\ m <= k /\ Agree(A, H[t], m)
ChosenOK(N, E, H, C) == C \in Seq(Entries) /\ (C = <<>> \/ Backed(N, E, H, C, Len(C)))

AInv(T, L, N, E, H, C) ==
  /\ Ledger(H) /\ LeadersOK(T, E, H) /\ DisksOK(T, L, H) /\ AcksOK(T, L, N, E, H)
  /\ VotesOK(N, H) /\ GrantsOK(T, N, E, H) /\ TermsOK(T, N, E, H) /\ ChosenOK(N, E, H, C)

(* Leader completeness: what is decided, every later leader has.           *)
LEMMA Decisive ==
  ASSUME NEW H, NEW T, NEW N, NEW E, Ledger(H), TermsOK(T, N, E, H), FixedGroup \in Memberships,
         NEW t \in DOMAIN H, NEW m \in Nat, Decided(N, E, H, t, m),
         NEW u \in DOMAIN H, t < u
  PROVE  Agree(H[u], H[t], m)
<1> DEFINE S == {w \in DOMAIN H : t < w /\ ~Agree(H[w], H[t], m)}
<1>1. SUFFICES ASSUME S # {} PROVE FALSE
  OBVIOUS
<1>2. S \in SUBSET Nat /\ t \in Nat
  BY DEF Ledger
<1>3. PICK w \in S : \A k \in S : w <= k
  BY <1>1, <1>2, LeastNatural
<1>4. w \in DOMAIN H /\ t < w /\ ~Agree(H[w], H[t], m) /\ w \in Nat
  BY <1>2, <1>3
<1>5. PICK V \in SUBSET Id : /\ Quorum(FixedGroup, V)
                             /\ \A v \in V : w <= T[v] /\ Inherits(N, E, H, v, w, H[w])
  BY <1>4 DEF TermsOK, TermOf
<1> DEFINE Q == {q \in Id : Acked(N, E, H, q, t, m)}
<1>6. Quorum(FixedGroup, Q) /\ Own(H, t, m)
  BY DEF Decided
<1> HIDE DEF Q
<1>7. PICK v : v \in V /\ v \in Q
  BY <1>5, <1>6, QuorumsIntersect
<1>8. Acked(N, E, H, v, t, m) /\ Inherits(N, E, H, v, w, H[w])
  BY <1>5, <1>7 DEF Q
<1>9. Safe(H, H[w], t, m, w - 1)
  BY <1>4, <1>6, <1>8 DEF Inherits
<1>10. PICK x \in DOMAIN H : t < x /\ x <= w - 1 /\ ~Agree(H[x], H[t], m)
  BY <1>4, <1>9 DEF Safe, Lost
<1>11. x \in S /\ x \in Nat
  BY <1>10 DEF Ledger
<1>12. w <= x
  BY <1>3, <1>11
<1> QED BY <1>4, <1>10, <1>11, <1>12

(* Nobody below top has told anything new.                                 *)
NoNew(N, E, H, M, F, G, v, top) ==
  \A t \in DOMAIN G, m \in Nat :
    t < top /\ Own(G, t, m) /\ Acked(M, F, G, v, t, m) =>
      t \in DOMAIN H /\ m <= Len(H[t]) /\ Acked(N, E, H, v, t, m)

(* Nothing new told: what a log inherits, a longer one does.               *)
LEMMA InheritsStays ==
  ASSUME NEW H, NEW G, Ledger(H), Ledger(G), Grows(H, G), NEW N, NEW E, NEW M, NEW F,
         NEW v, NEW top, NoNew(N, E, H, M, F, G, v, top),
         NEW A \in Seq(Entries), NEW B \in Seq(Entries), Agree(A, B, Len(A)),
         Inherits(N, E, H, v, top, A)
  PROVE  Inherits(M, F, G, v, top, B)
<1> SUFFICES ASSUME NEW t \in DOMAIN G, NEW m \in Nat, t < top, Own(G, t, m), Acked(M, F, G, v, t, m)
             PROVE  Safe(G, B, t, m, top - 1)
  BY DEF Inherits
<1>1. t \in DOMAIN H /\ m <= Len(H[t]) /\ Acked(N, E, H, v, t, m)
  BY DEF NoNew
<1>2. Own(H, t, m)
  BY <1>1, Growing
<1>3. Safe(H, A, t, m, top - 1)
  BY <1>1, <1>2 DEF Inherits
<1>4. Safe(H, B, t, m, top - 1)
  <2>1. H[t] \in Seq(Entries)
    BY <1>1 DEF Ledger, Rooted
  <2>2. Agree(A, H[t], m) => Agree(B, H[t], m)
    BY <2>1 DEF Agree
  <2> QED BY <1>3, <2>2 DEF Safe
<1> QED BY <1>1, <1>4, Growing

-----------------------------------------------------------------------------
(* The steps that may happen to them.                                      *)

(* Later leaders lose no less.                                             *)
LEMMA SafeLater ==
  ASSUME NEW H, Ledger(H), NEW A, NEW t, NEW m, NEW a \in Nat, NEW b \in Nat, a <= b, Safe(H, A, t, m, a)
  PROVE  Safe(H, A, t, m, b)
<1>1. DOMAIN H \subseteq Nat
  BY DEF Ledger
<1> QED BY <1>1 DEF Safe, Lost

(* Terms on disk rise.                                                     *)
LEMMA TermsRise ==
  ASSUME NEW T, NEW L, NEW N, NEW E, NEW H, NEW C, AInv(T, L, N, E, H, C),
         NEW U, \A q \in Id : U[q] \in Nat /\ T[q] <= U[q]
  PROVE  AInv(U, L, N, E, H, C)
<1>0. Ledger(H) /\ DOMAIN H \subseteq Nat /\ \A q \in Id : T[q] \in Nat /\ U[q] \in Nat /\ T[q] <= U[q]
  BY DEF AInv, Ledger, DisksOK
<1>1. LeadersOK(U, E, H)
  BY <1>0 DEF AInv, LeadersOK
<1>2. DisksOK(U, L, H)
  <2> SUFFICES ASSUME NEW q \in Id, NEW k \in 1..Len(L[q]) PROVE L[q][k].id.term <= U[q]
    BY <1>0 DEF AInv, DisksOK
  <2>1. L[q][k].id.term <= T[q] /\ L[q] \in Seq(Entries)
    BY DEF AInv, DisksOK, Rooted
  <2>2. L[q][k].id.term \in Nat
    BY <2>1, EntryTyped
  <2> QED BY <1>0, <2>1, <2>2
<1>3. AcksOK(U, L, N, E, H)
  <2>1. ASSUME NEW q \in Id, NEW t \in DOMAIN H, NEW m \in Nat, m <= Len(H[t]), Acked(N, E, H, q, t, m)
        PROVE  t <= U[q] /\ Safe(H, L[q], t, m, U[q])
    <3>1. t <= T[q] /\ Safe(H, L[q], t, m, T[q])
      BY <2>1 DEF AInv, AcksOK
    <3> QED BY <1>0, <3>1, SafeLater
  <2> QED BY <2>1 DEF AInv, AcksOK
<1>4. GrantsOK(U, N, E, H)
  <2>1. ASSUME NEW x \in N, x.from \in Id, x.msg.term \in Nat, Granted(T, N, E, H, x) PROVE Granted(U, N, E, H, x)
    BY <1>0, <2>1 DEF Granted
  <2> QED BY <2>1 DEF AInv, GrantsOK
<1>5. TermsOK(U, N, E, H)
  <2> SUFFICES ASSUME NEW u \in DOMAIN H PROVE TermOf(U, N, E, H, u)
    BY DEF TermsOK
  <2>1. PICK V \in SUBSET Id : /\ Quorum(FixedGroup, V)
                               /\ \A v \in V : u <= T[v] /\ Inherits(N, E, H, v, u, H[u])
    BY DEF AInv, TermsOK, TermOf
  <2>2. \A v \in V : u <= U[v]
    BY <1>0, <2>1
  <2> QED BY <2>1, <2>2 DEF TermOf
<1> QED BY <1>1, <1>2, <1>3, <1>4, <1>5 DEF AInv

(* A prefix of a leader's log is rooted as well.                           *)
LEMMA PrefixRooted ==
  ASSUME NEW H, NEW A, Rooted(A, H), NEW k \in 0..Len(A)
  PROVE  LET B == SubSeq(A, 1, k) IN
         /\ Rooted(B, H) /\ Len(B) = k /\ B \in Seq(Entries) /\ \A j \in 1..k : B[j] = A[j]
<1> DEFINE B == SubSeq(A, 1, k)
<1>1. A \in Seq(Entries) /\ Len(A) \in Nat /\ k \in Nat /\ k <= Len(A)
  BY DEF Rooted
<1>2. B \in Seq(Entries) /\ Len(B) = k /\ \A j \in 1..k : B[j] = A[j]
  BY <1>1, SubSeqProperties
<1> HIDE DEF B
<1>3. ASSUME NEW j \in 1..Len(B)
      PROVE  B[j].id.index = j /\ B[j].id.term \in DOMAIN H /\ Agree(B, H[B[j].id.term], j)
  <2>1. j \in 1..Len(A) /\ B[j] = A[j]
    BY <1>1, <1>2
  <2>2. A[j].id.index = j /\ A[j].id.term \in DOMAIN H /\ Agree(A, H[A[j].id.term], j)
    BY <2>1 DEF Rooted
  <2>3. Agree(B, H[A[j].id.term], j)
    BY <1>1, <1>2, <2>2 DEF Agree
  <2> QED BY <2>1, <2>2, <2>3
<1>4. Rooted(B, H)
  BY <1>2, <1>3 DEF Rooted
<1> QED BY <1>2, <1>4 DEF B

(* A disk in the term of a leader takes over a prefix of its log, which it *)
(* did not have.                                                           *)
LEMMA DiskAdopts ==
  ASSUME NEW T, NEW L, NEW N, NEW E, NEW H, NEW C, AInv(T, L, N, E, H, C), NEW i \in Id,
         T[i] \in DOMAIN H, NEW k \in 1..Len(H[T[i]]),
         k > Len(L[i]) \/ L[i][k].id # H[T[i]][k].id,
         NEW K, K[i] = SubSeq(H[T[i]], 1, k), \A q \in Id \ {i} : K[q] = L[q]
  PROVE  AInv(T, K, N, E, H, C)
<1> DEFINE t == T[i]
           B == H[t]
           A == L[i]
<1>1. /\ Ledger(H) /\ t \in Nat /\ t \in DOMAIN H /\ Rooted(B, H) /\ Rooted(A, H)
      /\ B \in Seq(Entries) /\ A \in Seq(Entries) /\ Len(A) \in Nat /\ Len(B) \in Nat
      /\ k \in 1..Len(B) /\ (k > Len(A) \/ A[k].id # B[k].id) /\ K[i] = SubSeq(B, 1, k)
      /\ \A j \in 1..Len(B) : B[j].id.term <= t
  <2>1. /\ Ledger(H) /\ DisksOK(T, L, H)
    BY DEF AInv
  <2>2. /\ Rooted(B, H) /\ Rooted(A, H) /\ t \in Nat /\ \A j \in 1..Len(B) : B[j].id.term <= t
    BY <2>1 DEF Ledger, DisksOK
  <2>3. B \in Seq(Entries) /\ A \in Seq(Entries)
    BY <2>2 DEF Rooted
  <2> QED BY <2>1, <2>2, <2>3
<1> HIDE DEF A, B
<1>2. Rooted(K[i], H) /\ Len(K[i]) = k /\ K[i] \in Seq(Entries) /\ \A j \in 1..k : K[i][j] = B[j]
  <2> DEFINE P == SubSeq(B, 1, k)
  <2>1. k \in 0..Len(B)
    BY <1>1
  <2>2. Rooted(P, H) /\ Len(P) = k /\ P \in Seq(Entries) /\ \A j \in 1..k : P[j] = B[j]
    BY <1>1, <2>1, PrefixRooted
  <2> QED BY <1>1, <2>2
<1>3. DisksOK(T, K, H)
  <2> SUFFICES ASSUME NEW q \in Id PROVE /\ T[q] \in Nat /\ Rooted(K[q], H)
                                         /\ \A j \in 1..Len(K[q]) : K[q][j].id.term <= T[q]
    BY DEF DisksOK
  <2>1. CASE q = i
    <3>1. \A j \in 1..k : j \in 1..Len(B)
      BY <1>1
    <3> QED BY <1>1, <1>2, <2>1, <3>1
  <2>2. CASE q # i
    BY <2>2 DEF AInv, DisksOK
  <2> QED BY <2>1, <2>2
<1>4. AcksOK(T, K, N, E, H)
  <2>1. ASSUME NEW q \in Id, NEW u \in DOMAIN H, NEW m \in Nat, m <= Len(H[u]), Acked(N, E, H, q, u, m)
        PROVE  u <= T[q] /\ Safe(H, K[q], u, m, T[q])
    <3>1. u <= T[q] /\ Safe(H, L[q], u, m, T[q])
      BY <2>1 DEF AInv, AcksOK
    <3>2. CASE q # i
      BY <3>1, <3>2
    <3>3. CASE q = i
      <4> DEFINE G == H[u]
      <4>1. G \in Seq(Entries) /\ Len(G) \in Nat /\ u \in Nat /\ m <= Len(G)
        <5>1. Rooted(G, H) /\ u \in Nat
          BY <1>1 DEF Ledger
        <5> QED BY <2>1, <5>1 DEF Rooted
      <4>2. u <= t /\ (Agree(A, G, m) \/ Lost(H, u, m, t))
        BY <3>1, <3>3 DEF Safe, A
      <4>3. CASE Lost(H, u, m, t)
        BY <3>1, <3>3, <4>3 DEF Safe
      <4>4. CASE Agree(A, G, m) /\ ~Agree(B, G, m)
        <5>1. u # t
          <6>1. ASSUME u = t PROVE Agree(B, G, m)
            BY <1>1, <4>1, <6>1 DEF Agree, B
          <6> QED BY <4>4, <6>1
        <5>2. Lost(H, u, m, t)
          BY <1>1, <4>1, <4>2, <4>4, <5>1, SMTT(30) DEF Lost, B
        <5> QED BY <3>1, <3>3, <5>2 DEF Safe
      <4>5. CASE Agree(A, G, m) /\ Agree(B, G, m)
        <5>1. m <= k
          <6>1. SUFFICES ASSUME m > k PROVE FALSE
            BY <1>1
          <6>2. k <= Len(A) /\ A[k] = G[k] /\ B[k] = G[k]
            BY <1>1, <4>1, <4>5, <6>1 DEF Agree
          <6> QED BY <1>1, <6>2
        <5>2. Agree(K[i], G, m)
          BY <1>1, <1>2, <4>1, <4>5, <5>1 DEF Agree
        <5> QED BY <3>1, <3>3, <5>2 DEF Safe
      <4> QED BY <4>2, <4>3, <4>4, <4>5
    <3> QED BY <3>2, <3>3
  <2> QED BY <2>1 DEF AInv, AcksOK
<1> QED BY <1>3, <1>4 DEF AInv

(* The log that ends at a placed identity.                                 *)
LEMMA ThroughPlaced ==
  ASSUME NEW H, Ledger(H), NEW last, NEW t, Placed(H, last, t)
  PROVE  /\ Through(H, last) \in Seq(Entries) /\ Len(Through(H, last)) = last.index /\ last.index \in Nat
         /\ last.index # 0 => /\ last.term \in DOMAIN H /\ last.index \in 1..Len(H[last.term])
                              /\ H[last.term] \in Seq(Entries)
                              /\ Agree(Through(H, last), H[last.term], last.index)
<1>1. CASE last = Genesis
  BY <1>1 DEF Genesis, Through
<1>2. CASE last # Genesis
  <2> DEFINE A == H[last.term]
             k == last.index
  <2>1. last.term \in DOMAIN H /\ k \in 1..Len(A) /\ Rooted(A, H)
    BY <1>2 DEF Placed, Ledger
  <2>2. A \in Seq(Entries) /\ Len(A) \in Nat /\ k \in Nat /\ k # 0 /\ k \in 0..Len(A)
    BY <2>1 DEF Rooted
  <2> HIDE DEF A, k
  <2> DEFINE B == SubSeq(A, 1, k)
  <2>3. Len(B) = k /\ B \in Seq(Entries) /\ \A j \in 1..k : B[j] = A[j]
    BY <2>1, <2>2, PrefixRooted
  <2>4. Through(H, last) = B
    BY <2>2 DEF Through, A, k
  <2> HIDE DEF B
  <2>5. Agree(B, A, k)
    BY <2>1, <2>2, <2>3 DEF Agree
  <2> QED BY <2>1, <2>2, <2>3, <2>4, <2>5 DEF A, k
<1> QED BY <1>1, <1>2

(* It stays placed, and the same, as the ledger grows.                     *)
LEMMA PlacedGrows ==
  ASSUME NEW H, NEW G, Ledger(H), Ledger(G), Grows(H, G), NEW last, NEW t, Placed(H, last, t)
  PROVE  /\ Placed(G, last, t)
         /\ Through(G, last) \in Seq(Entries) /\ Agree(Through(H, last), Through(G, last), Len(Through(H, last)))
<1>1. Placed(G, last, t)
  <2>1. CASE last = Genesis
    BY <2>1 DEF Placed
  <2>2. CASE last # Genesis
    <3> DEFINE u == last.term
               k == last.index
    <3>1. u \in DOMAIN H /\ u < t /\ k \in 1..Len(H[u]) /\ H[u][k].id = last
      BY <2>2 DEF Placed
    <3>2. u \in DOMAIN G /\ Agree(H[u], G[u], Len(H[u])) /\ H[u] \in Seq(Entries) /\ G[u] \in Seq(Entries)
      BY <3>1 DEF Grows, Ledger, Rooted
    <3>3. k \in 1..Len(G[u]) /\ G[u][k] = H[u][k]
      BY <3>1, <3>2 DEF Agree
    <3> QED BY <3>1, <3>2, <3>3 DEF Placed
  <2> QED BY <2>1, <2>2
<1> DEFINE A == Through(H, last)
           B == Through(G, last)
           u == last.term
           k == last.index
<1>2. /\ A \in Seq(Entries) /\ Len(A) = k /\ B \in Seq(Entries) /\ Len(B) = k /\ k \in Nat
      /\ k # 0 => /\ u \in DOMAIN H /\ H[u] \in Seq(Entries) /\ G[u] \in Seq(Entries) /\ k \in 1..Len(H[u])
                  /\ Agree(A, H[u], k) /\ Agree(B, G[u], k)
  BY <1>1, ThroughPlaced
<1>3. k # 0 => Agree(H[u], G[u], Len(H[u]))
  BY <1>2 DEF Grows
<1> HIDE DEF A, B, u, k
<1>4. Agree(A, B, k)
  BY <1>2, <1>3 DEF Agree
<1> QED BY <1>1, <1>2, <1>4 DEF A, B

(* Acknowledgements and decisions stand.                                   *)
LEMMA DecidedGrows ==
  ASSUME NEW H, NEW G, Ledger(H), Ledger(G), Grows(H, G), NEW N, NEW M, N \subseteq M, NEW E, NEW F, E \subseteq F,
         FixedGroup \in Memberships, NEW t \in DOMAIN H, NEW m \in Nat
  PROVE  /\ \A q : Acked(N, E, H, q, t, m) => Acked(M, F, G, q, t, m)
         /\ Decided(N, E, H, t, m) => Decided(M, F, G, t, m)
<1>1. Len(H[t]) <= Len(G[t]) /\ Len(H[t]) \in Nat /\ Len(G[t]) \in Nat
  <2>1. H[t] \in Seq(Entries) /\ G[t] \in Seq(Entries) /\ Agree(H[t], G[t], Len(H[t]))
    BY DEF Grows, Ledger, Rooted
  <2> QED BY <2>1 DEF Agree
<1>2. ASSUME NEW q, Acked(N, E, H, q, t, m) PROVE Acked(M, F, G, q, t, m)
  BY <1>1, <1>2 DEF Acked
<1>3. ASSUME Decided(N, E, H, t, m) PROVE Decided(M, F, G, t, m)
  <2> DEFINE A == {q \in Id : Acked(N, E, H, q, t, m)}
             B == {q \in Id : Acked(M, F, G, q, t, m)}
  <2>1. A \subseteq B
    BY <1>2
  <2>2. Quorum(FixedGroup, A) /\ Own(H, t, m)
    BY <1>3 DEF Decided
  <2> HIDE DEF A, B
  <2>3. Quorum(FixedGroup, B)
    BY <2>1, <2>2, QuorumGrows
  <2>4. Own(G, t, m)
    BY <2>2, Growing
  <2> QED BY <2>3, <2>4 DEF Decided, B
<1> QED BY <1>2, <1>3

(* What stays of votes, terms and the published log as everything grows.   *)
LEMMA AllGrow ==
  ASSUME NEW T, NEW N, NEW E, NEW H, NEW C, NEW M, NEW F, NEW G,
         Ledger(H), Ledger(G), Grows(H, G), N \subseteq M, E \subseteq F, FixedGroup \in Memberships,
         \A v \in Id : T[v] \in Nat,
         \A v \in Id, top \in Nat : top <= T[v] => NoNew(N, E, H, M, F, G, v, top),
         VotesOK(N, H), GrantsOK(T, N, E, H), TermsOK(T, N, E, H), ChosenOK(N, E, H, C)
  PROVE  /\ VotesOK(N, G)
         /\ \A x \in N : x.msg.type = "Voted" /\ x.msg.granted /\ x.msg.term \notin DOMAIN G =>
              Granted(T, M, F, G, x)
         /\ \A u \in DOMAIN H : TermOf(T, M, F, G, u)
         /\ ChosenOK(M, F, G, C)
<1>1. VotesOK(N, G)
  BY PlacedGrows DEF VotesOK
<1>2. ASSUME NEW x \in N, x.msg.type = "Voted", x.msg.granted, x.msg.term \notin DOMAIN G
      PROVE  Granted(T, M, F, G, x)
  <2> DEFINE v == x.from
             top == x.msg.term
  <2>1. top \in Nat /\ v \in Id /\ Granted(T, N, E, H, x)
    BY <1>2 DEF GrantsOK, Grows
  <2>2. top <= T[v]
    BY <2>1 DEF Granted
  <2>3. PICK w \in N : IsVote(w, x.to, top) /\ Inherits(N, E, H, v, top, Through(H, w.msg.last))
    BY <2>1 DEF Granted
  <2>4. Placed(H, w.msg.last, w.msg.term)
    BY <2>3 DEF IsVote, VotesOK
  <2> DEFINE A == Through(H, w.msg.last)
             B == Through(G, w.msg.last)
  <2>5. A \in Seq(Entries) /\ B \in Seq(Entries) /\ Agree(A, B, Len(A))
    BY <2>4, ThroughPlaced, PlacedGrows
  <2>6. NoNew(N, E, H, M, F, G, v, top)
    BY <2>1, <2>2
  <2> HIDE DEF A, B, v, top
  <2>7. Inherits(M, F, G, v, top, B)
    BY <2>3, <2>5, <2>6, InheritsStays DEF A
  <2> QED BY <2>2, <2>3, <2>7 DEF Granted, v, top, B
<1>3. ASSUME NEW u \in DOMAIN H PROVE TermOf(T, M, F, G, u)
  <2>1. PICK V \in SUBSET Id : /\ Quorum(FixedGroup, V)
                               /\ \A v \in V : u <= T[v] /\ Inherits(N, E, H, v, u, H[u])
    BY DEF TermsOK, TermOf
  <2>2. /\ H[u] \in Seq(Entries) /\ G[u] \in Seq(Entries) /\ Agree(H[u], G[u], Len(H[u])) /\ u \in Nat
    BY DEF Grows, Ledger, Rooted
  <2>3. ASSUME NEW v \in V PROVE u <= T[v] /\ Inherits(M, F, G, v, u, G[u])
    <3>1. u <= T[v] /\ Inherits(N, E, H, v, u, H[u]) /\ NoNew(N, E, H, M, F, G, v, u)
      BY <2>1, <2>2
    <3> DEFINE A == H[u]
               B == G[u]
    <3>2. A \in Seq(Entries) /\ B \in Seq(Entries) /\ Agree(A, B, Len(A)) /\ Inherits(N, E, H, v, u, A)
      BY <2>2, <3>1
    <3> HIDE DEF A, B
    <3>3. Inherits(M, F, G, v, u, B)
      BY <3>1, <3>2, InheritsStays
    <3> QED BY <3>1, <3>3 DEF B
  <2> QED BY <2>1, <2>3 DEF TermOf
<1>4. ChosenOK(M, F, G, C)
  <2>1. ASSUME Backed(N, E, H, C, Len(C)), C \in Seq(Entries) PROVE Backed(M, F, G, C, Len(C))
    <3>1. PICK t \in DOMAIN H, k \in Nat : Decided(N, E, H, t, k) /\ Len(C) <= k /\ Agree(C, H[t], Len(C))
      BY <2>1 DEF Backed
    <3>2. Decided(M, F, G, t, k) /\ t \in DOMAIN G
      BY <3>1, DecidedGrows DEF Grows
    <3>3. Agree(C, G[t], Len(C))
      BY <2>1, <3>1, Growing
    <3> QED BY <3>1, <3>2, <3>3 DEF Backed
  <2> QED BY <2>1 DEF ChosenOK
<1> QED BY <1>1, <1>2, <1>3, <1>4

(* A leader saves what it appended to its log in its own term.             *)
LEMMA LeaderAppends ==
  ASSUME NEW T, NEW L, NEW N, NEW E, NEW H, NEW C, AInv(T, L, N, E, H, C), FixedGroup \in Memberships,
         NEW i \in Id, NEW t, t = T[i], [term |-> t, id |-> i] \in E, L[i] = H[t],
         NEW A \in Seq(Entries), Agree(H[t], A, Len(H[t])),
         \A k \in 1..Len(A) : k > Len(H[t]) => A[k].id = LogId(k, t),
         NEW G, DOMAIN G = DOMAIN H, G[t] = A, \A u \in DOMAIN H \ {t} : G[u] = H[u],
         NEW K, K[i] = A, \A q \in Id \ {i} : K[q] = L[q]
  PROVE  AInv(T, K, N, E, G, C)
<1>1. /\ Ledger(H) /\ LeadersOK(T, E, H) /\ DisksOK(T, L, H) /\ AcksOK(T, L, N, E, H)
      /\ VotesOK(N, H) /\ GrantsOK(T, N, E, H) /\ TermsOK(T, N, E, H) /\ ChosenOK(N, E, H, C)
  BY DEF AInv
<1>2. /\ t \in DOMAIN H /\ t \in Nat /\ H[t] \in Seq(Entries) /\ Len(H[t]) \in Nat /\ Len(A) \in Nat
      /\ Len(H[t]) <= Len(A) /\ Rooted(H[t], H) /\ \A k \in 1..Len(H[t]) : H[t][k].id.term <= t
      /\ \A u \in DOMAIN H : u \in Nat /\ Rooted(H[u], H) /\ H[u] \in Seq(Entries) /\ Len(H[u]) \in Nat
  <2>1. t \in DOMAIN H
    BY <1>1 DEF LeadersOK
  <2>2. \A u \in DOMAIN H : u \in Nat /\ Rooted(H[u], H)
    BY <1>1 DEF Ledger
  <2>3. \A u \in DOMAIN H : H[u] \in Seq(Entries) /\ Len(H[u]) \in Nat
    BY <2>2 DEF Rooted
  <2>4. \A k \in 1..Len(H[t]) : H[t][k].id.term <= t
    BY <1>1, <2>1 DEF Ledger
  <2> QED BY <2>1, <2>2, <2>3, <2>4 DEF Agree
<1>3. \A u \in DOMAIN H : G[u] \in Seq(Entries) /\ Agree(H[u], G[u], Len(H[u]))
  <2> SUFFICES ASSUME NEW u \in DOMAIN H PROVE G[u] \in Seq(Entries) /\ Agree(H[u], G[u], Len(H[u]))
    OBVIOUS
  <2>1. CASE u = t
    BY <2>1
  <2>2. CASE u # t
    <3>1. G[u] = H[u]
      BY <2>2
    <3> QED BY <1>2, <3>1 DEF Agree
  <2> QED BY <2>1, <2>2
<1>4. ASSUME NEW X, Rooted(X, H) PROVE Rooted(X, G)
  <2>1. DOMAIN H \subseteq DOMAIN G
    OBVIOUS
  <2> QED BY <1>2, <1>3, <1>4, <2>1, RootedGrows
<1>5. ASSUME NEW k \in 1..Len(A)
      PROVE  A[k].id.index = k /\ A[k].id.term \in DOMAIN G /\ Agree(A, G[A[k].id.term], k) /\ A[k].id.term <= t
  <2>1. CASE k <= Len(H[t])
    <3>1. k \in 1..Len(H[t]) /\ A[k] = H[t][k]
      BY <1>2, <2>1 DEF Agree
    <3> DEFINE u == A[k].id.term
    <3>2. A[k].id.index = k /\ u \in DOMAIN G /\ Agree(H[t], G[u], k) /\ u <= t
      <4>1. Rooted(H[t], G)
        BY <1>2, <1>4
      <4>2. H[t][k].id.term <= t
        BY <1>2, <3>1
      <4> QED BY <3>1, <4>1, <4>2 DEF Rooted
    <3>3. Len(G[u]) \in Nat
      BY <1>3, <3>2
    <3> HIDE DEF u
    <3>4. Agree(A, G[u], k)
      BY <1>2, <2>1, <3>2, <3>3 DEF Agree
    <3> QED BY <3>2, <3>4 DEF u
  <2>2. CASE ~(k <= Len(H[t]))
    <3>1. A[k].id = LogId(k, t)
      BY <1>2, <2>2
    <3>2. A[k].id.index = k /\ A[k].id.term = t
      BY <3>1 DEF LogId
    <3>3. Agree(A, G[t], k)
      BY <1>2 DEF Agree
    <3> QED BY <1>2, <3>2, <3>3
  <2> QED BY <2>1, <2>2
<1>6. Rooted(A, G)
  BY <1>5 DEF Rooted
<1>7. Ledger(G)
  <2>1. ASSUME NEW u \in DOMAIN G PROVE Rooted(G[u], G) /\ \A k \in 1..Len(G[u]) : G[u][k].id.term <= u
    <3>1. CASE u = t
      BY <1>5, <1>6, <3>1
    <3>2. CASE u # t
      <4>1. G[u] = H[u]
        BY <3>2
      <4> QED BY <1>1, <1>2, <1>4, <4>1 DEF Ledger
    <3> QED BY <3>1, <3>2
  <2> QED BY <1>1, <2>1 DEF Ledger
<1>8. Grows(H, G)
  <2>1. ASSUME NEW u \in DOMAIN H, NEW k \in 1..Len(G[u]), k > Len(H[u]) PROVE G[u][k].id.term = u
    <3>1. CASE u = t
      <4>1. A[k].id = LogId(k, t)
        BY <2>1, <3>1
      <4> QED BY <3>1, <4>1 DEF LogId
    <3>2. CASE u # t
      <4>1. G[u] = H[u]
        BY <3>2
      <4> QED BY <1>2, <2>1, <4>1
    <3> QED BY <3>1, <3>2
  <2> QED BY <1>3, <2>1 DEF Grows
<1>9. LeadersOK(T, E, G)
  BY <1>1 DEF LeadersOK
<1>10. DisksOK(T, K, G)
  <2> SUFFICES ASSUME NEW q \in Id PROVE /\ T[q] \in Nat /\ Rooted(K[q], G)
                                         /\ \A k \in 1..Len(K[q]) : K[q][k].id.term <= T[q]
    BY DEF DisksOK
  <2>1. CASE q = i
    BY <1>1, <1>5, <1>6, <2>1 DEF DisksOK
  <2>2. CASE q # i
    <3>1. K[q] = L[q]
      BY <2>2
    <3> QED BY <1>1, <1>4, <3>1 DEF DisksOK
  <2> QED BY <2>1, <2>2
<1>11. ASSUME NEW q, NEW u \in DOMAIN H, NEW m \in Nat, Acked(N, E, G, q, u, m)
       PROVE  (m <= Len(H[u]) /\ Acked(N, E, H, q, u, m)) \/ (u = t /\ q = i /\ m <= Len(A))
  <2>1. CASE \E x \in N : IsAck(x, q, u, m)
    <3>1. PICK x \in N : IsAck(x, q, u, m)
      BY <2>1
    <3>2. x.msg.index \in 0..Len(H[u]) /\ m <= x.msg.index
      BY <1>1, <3>1 DEF AcksOK, IsAck
    <3> QED BY <1>2, <2>1, <3>2 DEF Acked
  <2>2. CASE [term |-> u, id |-> q] \in E /\ m <= Len(G[u])
    <3>1. CASE u = t
      <4>1. q = i
        BY <1>1, <2>2, <3>1 DEF LeadersOK
      <4> QED BY <2>2, <3>1, <4>1
    <3>2. CASE u # t
      <4>1. G[u] = H[u]
        BY <3>2
      <4> QED BY <2>2, <4>1 DEF Acked
    <3> QED BY <3>1, <3>2
  <2> QED BY <1>11, <2>1, <2>2 DEF Acked
<1>12. AcksOK(T, K, N, E, G)
  <2>1. ASSUME NEW x \in N, x.msg.type = "Replicated", x.msg.rejection = None
        PROVE  x.msg.term \in DOMAIN G /\ x.msg.index \in 0..Len(G[x.msg.term])
    <3> DEFINE u == x.msg.term
               k == x.msg.index
    <3>1. u \in DOMAIN H /\ k \in 0..Len(H[u])
      BY <1>1, <2>1 DEF AcksOK
    <3>2. G[u] \in Seq(Entries) /\ Agree(H[u], G[u], Len(H[u])) /\ Len(H[u]) \in Nat
      BY <1>2, <1>3, <3>1
    <3> HIDE DEF u, k
    <3>3. k \in 0..Len(G[u])
      BY <3>1, <3>2 DEF Agree
    <3> QED BY <3>1, <3>3 DEF u, k
  <2>2. ASSUME NEW q \in Id, NEW u \in DOMAIN G, NEW m \in Nat, m <= Len(G[u]), Acked(N, E, G, q, u, m)
        PROVE  u <= T[q] /\ Safe(G, K[q], u, m, T[q])
    <3>1. CASE u = t /\ q = i
      <4>1. Agree(A, A, m)
        BY <1>2, <2>2, <3>1 DEF Agree
      <4> QED BY <1>2, <3>1, <4>1 DEF Safe
    <3>2. CASE m <= Len(H[u]) /\ Acked(N, E, H, q, u, m)
      <4>1. u <= T[q] /\ Safe(H, L[q], u, m, T[q])
        BY <1>1, <3>2 DEF AcksOK
      <4>2. L[q] \in Seq(Entries)
        BY <1>1 DEF DisksOK, Rooted
      <4>3. Safe(G, L[q], u, m, T[q])
        BY <1>1, <1>7, <1>8, <3>2, <4>1, <4>2, Growing
      <4>4. Agree(L[q], G[u], m) => Agree(K[q], G[u], m)
        <5>1. CASE q = i
          <6>1. L[q] = H[t] /\ K[q] = A /\ G[u] \in Seq(Entries)
            BY <1>3, <5>1
          <6> HIDE DEF Safe
          <6> QED BY <1>2, <6>1 DEF Agree
        <5>2. CASE q # i
          BY <5>2
        <5> QED BY <5>1, <5>2
      <4> QED BY <4>1, <4>3, <4>4 DEF Safe
    <3> QED BY <1>11, <2>2, <3>1, <3>2
  <2> QED BY <2>1, <2>2 DEF AcksOK
<1>13. ASSUME NEW v \in Id, NEW top \in Nat, top <= T[v] PROVE NoNew(N, E, H, N, E, G, v, top)
  <2> SUFFICES ASSUME NEW u \in DOMAIN G, NEW m \in Nat, u < top, Acked(N, E, G, v, u, m)
               PROVE  u \in DOMAIN H /\ m <= Len(H[u]) /\ Acked(N, E, H, v, u, m)
    BY DEF NoNew
  <2>1. u = t /\ v = i => FALSE
    BY <1>2, <1>13
  <2> QED BY <1>11, <2>1
<1>14. \A v \in Id : T[v] \in Nat
  BY <1>1 DEF DisksOK
<1>15. /\ VotesOK(N, G)
       /\ \A x \in N : x.msg.type = "Voted" /\ x.msg.granted /\ x.msg.term \notin DOMAIN G => Granted(T, N, E, G, x)
       /\ \A u \in DOMAIN H : TermOf(T, N, E, G, u)
       /\ ChosenOK(N, E, G, C)
  BY <1>1, <1>7, <1>8, <1>13, <1>14, AllGrow
<1>16. GrantsOK(T, N, E, G) /\ TermsOK(T, N, E, G)
  BY <1>1, <1>15 DEF GrantsOK, TermsOK
<1> QED BY <1>7, <1>9, <1>10, <1>12, <1>15, <1>16 DEF AInv

(* A candidate's log that is up to date has what the voter had told.       *)
LEMMA UpToDateInherits ==
  ASSUME NEW T, NEW L, NEW N, NEW E, NEW H, Ledger(H), DisksOK(T, L, H), AcksOK(T, L, N, E, H),
         NEW i \in Id, NEW top, top = T[i], top \notin DOMAIN H,
         NEW last, Placed(H, last, top), UpToDate(last, LogLast(L[i]))
  PROVE  Inherits(N, E, H, i, top, Through(H, last))
<1> DEFINE A == L[i]
           P == Through(H, last)
           u == last.term
           k == last.index
           z == Len(A)
<1>1. SUFFICES ASSUME NEW t \in DOMAIN H, NEW m \in Nat, t < top, Own(H, t, m), Acked(N, E, H, i, t, m)
               PROVE  Safe(H, P, t, m, top - 1)
  BY DEF Inherits
<1>2. /\ top \in Nat /\ Rooted(A, H) /\ A \in Seq(Entries) /\ z \in Nat
      /\ t \in Nat /\ t # 0 /\ H[t] \in Seq(Entries) /\ DOMAIN H \subseteq Nat
  <2>1. top \in Nat /\ Rooted(A, H)
    BY DEF DisksOK
  <2>2. Rooted(H[t], H) /\ t \in Nat /\ t # 0 /\ DOMAIN H \subseteq Nat
    BY DEF Ledger
  <2> QED BY <2>1, <2>2 DEF Rooted
<1>3. m \in 1..Len(H[t]) /\ H[t][m].id.term = t
  BY <1>1 DEF Own
<1>4. Safe(H, A, t, m, top)
  BY <1>1, <1>2, <1>3 DEF AcksOK
<1>5. CASE Lost(H, t, m, top)
  <2>1. PICK w \in DOMAIN H : t < w /\ w <= top /\ ~Agree(H[w], H[t], m)
    BY <1>5 DEF Lost
  <2>2. w <= top - 1
    BY <1>2, <2>1
  <2> QED BY <2>1, <2>2 DEF Safe, Lost
<1>6. CASE Agree(A, H[t], m)
  <2> DEFINE v == A[z].id.term
  <2>1. m <= z /\ m >= 1 /\ z \in 1..z /\ A[m] = H[t][m] /\ m \in 1..z
    BY <1>2, <1>3, <1>6 DEF Agree
  <2>2. v \in Nat /\ v \in DOMAIN H /\ Agree(A, H[v], z) /\ A[z].id.index = z
    BY <1>2, <2>1, EntryTyped DEF Rooted
  <2>3. t <= v
    <3>0. z <= Len(A)
      BY <1>2
    <3> HIDE DEF z, A
    <3>1. A[m].id.term <= A[z].id.term
      BY <1>2, <2>1, <3>0, TermsGrow
    <3> QED BY <1>3, <2>1, <3>1
  <2>4. LogLast(A) = A[z].id
    BY <1>2, <2>1 DEF LogLast
  <2> HIDE DEF v, z, A, P
  <2>a. t \in Nat /\ v \in Nat /\ top \in Nat
    BY <1>2, <2>2
  <2>5. u > v \/ (u = v /\ k >= z)
    BY <2>2, <2>4 DEF UpToDate, A, v
  <2>6. last # Genesis
    BY <1>2, <2>2, <2>3, <2>5 DEF Genesis
  <2>7. u \in DOMAIN H /\ u < top /\ k \in 1..Len(H[u]) /\ H[u][k].id = last /\ u \in Nat
    BY <1>2, <2>6 DEF Placed
  <2>8. /\ H[u] \in Seq(Entries) /\ Rooted(H[u], H) /\ P \in Seq(Entries) /\ Agree(P, H[u], k) /\ k \in Nat /\ k >= 1
        /\ Len(H[u]) \in Nat /\ k <= Len(H[u])
    <3>1. P \in Seq(Entries) /\ Agree(P, H[u], k)
      BY <2>7, ThroughPlaced DEF P
    <3>2. Rooted(H[u], H)
      BY <2>7 DEF Ledger
    <3> QED BY <2>7, <3>1, <3>2 DEF Rooted
  <2> HIDE DEF u, k
  <2>9. CASE u = v /\ k >= z
    <3>1. Agree(P, A, z)
      BY <1>2, <2>2, <2>8, <2>9 DEF Agree
    <3>2. Agree(P, H[t], m)
      BY <1>2, <1>6, <2>1, <2>8, <3>1 DEF Agree
    <3> QED BY <3>2 DEF Safe
  <2>10. CASE u > v /\ ~Agree(H[u], H[t], m)
    <3>1. t < u /\ u <= top - 1
      <4>1. u \in Nat /\ u < top
        BY <2>7
      <4> QED BY <2>a, <2>3, <2>10, <4>1
    <3> QED BY <2>7, <2>10, <3>1 DEF Safe, Lost
  <2>11. CASE u > v /\ Agree(H[u], H[t], m)
    <3>1. m <= k
      <4> SUFFICES ASSUME k <= m, k # m PROVE FALSE
        BY <1>2, <2>8
      <4>1. m <= Len(H[u]) /\ H[u][m] = H[t][m]
        BY <1>2, <1>3, <2>8, <2>11 DEF Agree
      <4>2. H[u][k].id.term <= H[u][m].id.term
        BY <2>8, <4>1, TermsGrow
      <4>3. H[u][k].id.term = u
        BY <2>7 DEF u, k
      <4>4. u <= t
        BY <1>3, <4>1, <4>2, <4>3
      <4>5. u \in Nat /\ u > v
        BY <2>7, <2>11
      <4> QED BY <2>a, <2>3, <4>4, <4>5
    <3>2. Agree(P, H[t], m)
      BY <1>2, <2>8, <2>11, <3>1 DEF Agree
    <3> QED BY <3>2 DEF Safe
  <2> QED BY <2>5, <2>9, <2>10, <2>11
<1> QED BY <1>4, <1>5, <1>6 DEF Safe

(* A ledger that stays as it is grows.                                     *)
LEMMA GrowsItself ==
  ASSUME NEW H, Ledger(H)
  PROVE  Grows(H, H)
<1>1. \A t \in DOMAIN H : H[t] \in Seq(Entries) /\ Len(H[t]) \in Nat
  BY DEF Ledger, Rooted
<1> QED BY <1>1 DEF Grows, Agree

(* A node sends from its disk: acknowledgements of what is there, requests *)
(* for votes, and votes for logs that are up to date.                      *)
FromDisk(T, L, N, H, i, e) ==
  /\ e.from = i /\ e.msg.term = T[i]
  /\ e.msg.type = "Replicated" /\ e.msg.rejection = None =>
       T[i] \in DOMAIN H /\ e.msg.index \in Nat /\ Agree(L[i], H[T[i]], e.msg.index)
  /\ e.msg.type = "Vote" => Placed(H, e.msg.last, T[i])
  /\ e.msg.type = "Voted" /\ e.msg.granted =>
       \E w \in N : IsVote(w, e.to, T[i]) /\ UpToDate(w.msg.last, LogLast(L[i]))

(* Messages leave a node.                                                  *)
LEMMA Sends ==
  ASSUME NEW T, NEW L, NEW N, NEW E, NEW H, NEW C, AInv(T, L, N, E, H, C), FixedGroup \in Memberships,
         NEW i \in Id, NEW S, \A e \in S : FromDisk(T, L, N, H, i, e)
  PROVE  AInv(T, L, N \cup S, E, H, C)
<1> DEFINE M == N \cup S
           t == T[i]
<1>1. /\ Ledger(H) /\ LeadersOK(T, E, H) /\ DisksOK(T, L, H) /\ AcksOK(T, L, N, E, H)
      /\ VotesOK(N, H) /\ GrantsOK(T, N, E, H) /\ TermsOK(T, N, E, H) /\ ChosenOK(N, E, H, C)
  BY DEF AInv
<1>2. /\ t \in Nat /\ L[i] \in Seq(Entries) /\ \A v \in Id : T[v] \in Nat
      /\ \A u \in DOMAIN H : H[u] \in Seq(Entries) /\ Len(H[u]) \in Nat /\ u \in Nat
  <2>1. Rooted(L[i], H) /\ \A v \in Id : T[v] \in Nat
    BY <1>1 DEF DisksOK
  <2>2. \A u \in DOMAIN H : Rooted(H[u], H) /\ u \in Nat
    BY <1>1 DEF Ledger
  <2> QED BY <2>1, <2>2 DEF Rooted
<1>3. ASSUME NEW q, NEW u \in DOMAIN H, NEW m \in Nat, Acked(M, E, H, q, u, m)
      PROVE  Acked(N, E, H, q, u, m) \/ (q = i /\ u = t /\ Agree(L[i], H[t], m))
  <2>1. CASE \E x \in S : IsAck(x, q, u, m)
    <3>1. PICK x \in S : IsAck(x, q, u, m)
      BY <2>1
    <3>2. FromDisk(T, L, N, H, i, x)
      OBVIOUS
    <3>3. /\ q = i /\ u = t /\ t \in DOMAIN H /\ x.msg.index \in Nat /\ Agree(L[i], H[t], x.msg.index)
          /\ m <= x.msg.index
      BY <3>1, <3>2 DEF FromDisk, IsAck
    <3>4. Agree(L[i], H[t], m)
      BY <1>2, <3>3, Agreeing
    <3> QED BY <3>3, <3>4
  <2> QED BY <1>3, <2>1 DEF Acked
<1>4. AcksOK(T, L, M, E, H)
  <2>1. ASSUME NEW x \in M, x.msg.type = "Replicated", x.msg.rejection = None
        PROVE  x.msg.term \in DOMAIN H /\ x.msg.index \in 0..Len(H[x.msg.term])
    <3>1. CASE x \in N
      BY <1>1, <2>1, <3>1 DEF AcksOK
    <3>2. CASE x \in S
      <4>1. FromDisk(T, L, N, H, i, x)
        BY <3>2
      <4>2. x.msg.term = t /\ t \in DOMAIN H /\ x.msg.index \in Nat /\ Agree(L[i], H[t], x.msg.index)
        BY <2>1, <4>1 DEF FromDisk
      <4> QED BY <1>2, <4>2 DEF Agree
    <3> QED BY <3>1, <3>2
  <2>2. ASSUME NEW q \in Id, NEW u \in DOMAIN H, NEW m \in Nat, m <= Len(H[u]), Acked(M, E, H, q, u, m)
        PROVE  u <= T[q] /\ Safe(H, L[q], u, m, T[q])
    <3>1. CASE Acked(N, E, H, q, u, m)
      BY <1>1, <2>2, <3>1 DEF AcksOK
    <3>2. CASE q = i /\ u = t /\ Agree(L[i], H[t], m)
      BY <1>2, <3>2 DEF Safe
    <3> QED BY <1>3, <2>2, <3>1, <3>2
  <2> QED BY <2>1, <2>2 DEF AcksOK
<1>5. ASSUME NEW v \in Id, NEW top \in Nat, top <= T[v] PROVE NoNew(N, E, H, M, E, H, v, top)
  <2> SUFFICES ASSUME NEW u \in DOMAIN H, NEW m \in Nat, u < top, Own(H, u, m), Acked(M, E, H, v, u, m)
               PROVE  m <= Len(H[u]) /\ Acked(N, E, H, v, u, m)
    BY DEF NoNew
  <2>1. m <= Len(H[u])
    BY <1>2 DEF Own
  <2>2. ~(v = i /\ u = t)
    BY <1>2, <1>5
  <2> QED BY <1>3, <2>1, <2>2
<1>6. Grows(H, H) /\ N \subseteq M /\ E \subseteq E
  BY <1>1, GrowsItself
<1> HIDE DEF M
<1>7. /\ VotesOK(N, H)
      /\ \A x \in N : x.msg.type = "Voted" /\ x.msg.granted /\ x.msg.term \notin DOMAIN H => Granted(T, M, E, H, x)
      /\ \A u \in DOMAIN H : TermOf(T, M, E, H, u)
      /\ ChosenOK(M, E, H, C)
  BY <1>1, <1>2, <1>5, <1>6, AllGrow
<1>8. VotesOK(M, H)
  <2> SUFFICES ASSUME NEW x \in M, x.msg.type = "Vote" PROVE Placed(H, x.msg.last, x.msg.term)
    BY DEF VotesOK
  <2>1. CASE x \in N
    BY <1>7, <2>1 DEF VotesOK
  <2>2. CASE x \in S
    <3>1. FromDisk(T, L, N, H, i, x)
      BY <2>2
    <3> QED BY <3>1 DEF FromDisk
  <2> QED BY <2>1, <2>2 DEF M
<1>9. GrantsOK(T, M, E, H)
  <2> SUFFICES ASSUME NEW x \in M, x.msg.type = "Voted", x.msg.granted
               PROVE  /\ x.msg.term \in Nat /\ x.from \in Id
                      /\ x.msg.term \notin DOMAIN H => Granted(T, M, E, H, x)
    BY DEF GrantsOK
  <2>1. CASE x \in N
    BY <1>1, <1>7, <2>1 DEF GrantsOK
  <2>2. CASE x \in S
    <3>1. FromDisk(T, L, N, H, i, x)
      BY <2>2
    <3>2. x.from = i /\ x.msg.term = t /\ \E w \in N : IsVote(w, x.to, t) /\ UpToDate(w.msg.last, LogLast(L[i]))
      BY <3>1 DEF FromDisk
    <3>3. ASSUME t \notin DOMAIN H PROVE Granted(T, M, E, H, x)
      <4>1. PICK w \in N : IsVote(w, x.to, t) /\ UpToDate(w.msg.last, LogLast(L[i]))
        BY <3>2
      <4>2. Placed(H, w.msg.last, t)
        BY <1>1, <4>1 DEF VotesOK, IsVote
      <4>3. Inherits(M, E, H, i, t, Through(H, w.msg.last))
        BY <1>1, <1>4, <3>3, <4>1, <4>2, UpToDateInherits
      <4>4. w \in M /\ t <= t
        BY <1>2, <1>6
      <4> QED BY <3>2, <4>1, <4>3, <4>4 DEF Granted
    <3> QED BY <1>2, <3>2, <3>3
  <2> QED BY <2>1, <2>2 DEF M
<1> QED BY <1>1, <1>4, <1>7, <1>8, <1>9 DEF AInv, TermsOK, M

(* What is decided and what is published agree, and more is published.     *)
LEMMA Chooses ==
  ASSUME NEW T, NEW L, NEW N, NEW E, NEW H, NEW C, AInv(T, L, N, E, H, C), FixedGroup \in Memberships,
         NEW t \in DOMAIN H, NEW c \in Nat, Decided(N, E, H, t, c),
         NEW P \in Seq(Entries), Len(P) = c, Agree(P, H[t], c)
  PROVE  LET B == Longest(C, P) IN
         AInv(T, L, N, E, H, B) /\ Agree(C, B, Len(C)) /\ Agree(P, B, c) /\ B \in Seq(Entries)
<1> DEFINE B == Longest(C, P)
<1>1. Ledger(H) /\ TermsOK(T, N, E, H) /\ ChosenOK(N, E, H, C) /\ C \in Seq(Entries) /\ Len(C) \in Nat
  BY DEF AInv, ChosenOK
<1>2. \A u \in DOMAIN H : u \in Nat /\ H[u] \in Seq(Entries)
  BY <1>1 DEF Ledger, Rooted
<1>3. \A k \in 1..Len(C) : k <= c => C[k] = P[k]
  <2>1. CASE C = <<>>
    BY <2>1
  <2>2. CASE C # <<>>
    <3>1. PICK u \in DOMAIN H, m \in Nat : Decided(N, E, H, u, m) /\ Len(C) <= m /\ Agree(C, H[u], Len(C))
      BY <1>1, <2>2 DEF ChosenOK, Backed
    <3>2. CASE u = t
      BY <1>1, <1>2, <3>1, <3>2 DEF Agree
    <3>3. CASE u < t
      <4>1. Agree(H[t], H[u], m)
        BY <1>1, <3>1, <3>3, Decisive
      <4> QED BY <1>1, <1>2, <3>1, <4>1 DEF Agree
    <3>4. CASE t < u
      <4>1. Agree(H[u], H[t], c)
        BY <1>1, <3>1, <3>4, Decisive
      <4> QED BY <1>1, <1>2, <3>1, <4>1 DEF Agree
    <3>5. u = t \/ u < t \/ t < u
      BY <1>2
    <3> QED BY <3>2, <3>3, <3>4, <3>5
  <2> QED BY <2>1, <2>2
<1>4. CASE Len(C) > Len(P)
  <2>1. B = C
    BY <1>4 DEF Longest
  <2>2. Agree(C, C, Len(C)) /\ Agree(P, C, c)
    BY <1>1, <1>3, <1>4 DEF Agree
  <2> QED BY <1>1, <2>1, <2>2
<1>5. CASE ~(Len(C) > Len(P))
  <2>1. B = P
    BY <1>5 DEF Longest
  <2>2. Agree(C, P, Len(C)) /\ Agree(P, P, c)
    BY <1>1, <1>3, <1>5 DEF Agree
  <2>3. c <= c
    OBVIOUS
  <2>4. Backed(N, E, H, P, Len(P))
    BY <2>3 DEF Backed
  <2>5. AInv(T, L, N, E, H, P)
    BY <2>4 DEF AInv, ChosenOK
  <2> QED BY <2>1, <2>2, <2>5
<1> QED BY <1>4, <1>5

(* A log on disk is the one that ends where it ends.                       *)
LEMMA ThroughItself ==
  ASSUME NEW H, Ledger(H), NEW A, Rooted(A, H)
  PROVE  /\ Through(H, LogLast(A)) = A
         /\ A = <<>> \/ (LogLast(A) = A[Len(A)].id /\ LogLast(A).index = Len(A) /\ LogLast(A).term \in DOMAIN H
                          /\ Agree(A, H[LogLast(A).term], Len(A)))
<1>1. A \in Seq(Entries) /\ Len(A) \in Nat
  BY DEF Rooted
<1>2. CASE A = <<>>
  BY <1>2 DEF LogLast, Through, Genesis
<1>3. CASE A # <<>>
  <2> DEFINE k == Len(A)
             u == A[k].id.term
  <2>1. k \in 1..k /\ k # 0
    BY <1>1, <1>3
  <2>2. A[k].id.index = k /\ u \in DOMAIN H /\ Agree(A, H[u], k)
    BY <2>1 DEF Rooted
  <2>3. LogLast(A) = A[k].id
    BY <1>3 DEF LogLast
  <2>4. Rooted(H[u], H)
    BY <2>2 DEF Ledger
  <2> HIDE DEF k, u
  <2>5. H[u] \in Seq(Entries) /\ k \in 0..Len(H[u])
    BY <1>1, <2>1, <2>2, <2>4 DEF Rooted, Agree
  <2> DEFINE P == SubSeq(H[u], 1, k)
  <2>6. Len(P) = k /\ P \in Seq(Entries) /\ \A j \in 1..k : P[j] = H[u][j]
    BY <2>4, <2>5, PrefixRooted
  <2>7. Through(H, LogLast(A)) = P
    BY <2>1, <2>2, <2>3 DEF Through, u
  <2> HIDE DEF P
  <2>8. P = A
    <3>1. Len(A) = k
      BY DEF k
    <3>2. \A j \in 1..k : P[j] = A[j]
      BY <1>1, <2>2, <2>6 DEF Agree
    <3> QED BY <1>1, <2>6, <3>1, <3>2
  <2> QED BY <2>2, <2>3, <2>7, <2>8 DEF u, k
<1> QED BY <1>2, <1>3

(* A candidate with a quorum of votes becomes the leader of its term.      *)
LEMMA Elects ==
  ASSUME NEW T, NEW L, NEW N, NEW E, NEW H, NEW C, AInv(T, L, N, E, H, C), FixedGroup \in Memberships,
         NEW i \in Id, NEW t \in 1..U64Max, t = T[i], t \notin DOMAIN H,
         NEW V \in SUBSET Id, Quorum(FixedGroup, V),
         \A v \in V : v = i \/ \E x \in N : /\ x.from = v /\ x.to = i /\ x.msg.type = "Voted"
                                            /\ x.msg.term = t /\ x.msg.granted,
         \A w \in N : IsVote(w, i, t) => w.msg.last = LogLast(L[i]),
         NEW G, DOMAIN G = DOMAIN H \cup {t}, G[t] = L[i], \A u \in DOMAIN H : G[u] = H[u]
  PROVE  AInv(T, L, N, E \cup {[term |-> t, id |-> i]}, G, C) /\ Grows(H, G)
<1> DEFINE F == E \cup {[term |-> t, id |-> i]}
           A == L[i]
<1>1. /\ Ledger(H) /\ LeadersOK(T, E, H) /\ DisksOK(T, L, H) /\ AcksOK(T, L, N, E, H)
      /\ VotesOK(N, H) /\ GrantsOK(T, N, E, H) /\ TermsOK(T, N, E, H) /\ ChosenOK(N, E, H, C)
  BY DEF AInv
<1>2. /\ \A v \in Id : T[v] \in Nat /\ Rooted(L[v], H) /\ L[v] \in Seq(Entries) /\ Len(L[v]) \in Nat
      /\ \A u \in DOMAIN H : /\ u \in Nat /\ u # t /\ Rooted(H[u], H) /\ H[u] \in Seq(Entries) /\ Len(H[u]) \in Nat
                             /\ [term |-> u, id |-> i] # [term |-> t, id |-> i]
      /\ \A k \in 1..Len(A) : A[k].id.term <= t
      /\ t \in Nat
  <2>1. \A v \in Id : T[v] \in Nat /\ Rooted(L[v], H)
    BY <1>1 DEF DisksOK
  <2>2. \A u \in DOMAIN H : Rooted(H[u], H) /\ u \in Nat
    BY <1>1 DEF Ledger
  <2>3. \A k \in 1..Len(A) : A[k].id.term <= t
    BY <1>1 DEF DisksOK
  <2> QED BY <2>1, <2>2, <2>3, SMTT(30) DEF Rooted
<1>3. \A u \in DOMAIN H : G[u] \in Seq(Entries) /\ Agree(H[u], G[u], Len(H[u])) /\ Len(G[u]) = Len(H[u])
  <2> SUFFICES ASSUME NEW u \in DOMAIN H
               PROVE  G[u] \in Seq(Entries) /\ Agree(H[u], G[u], Len(H[u])) /\ Len(G[u]) = Len(H[u])
    OBVIOUS
  <2>1. G[u] = H[u] /\ H[u] \in Seq(Entries) /\ Len(H[u]) \in Nat
    BY <1>2
  <2> QED BY <2>1 DEF Agree
<1>4. ASSUME NEW X, Rooted(X, H) PROVE Rooted(X, G)
  <2>1. DOMAIN H \subseteq DOMAIN G
    OBVIOUS
  <2> QED BY <1>2, <1>3, <1>4, <2>1, RootedGrows
<1>5. Ledger(G)
  <2>1. ASSUME NEW u \in DOMAIN G PROVE Rooted(G[u], G) /\ \A k \in 1..Len(G[u]) : G[u][k].id.term <= u
    <3>1. CASE u = t
      BY <1>2, <1>4, <3>1
    <3>2. CASE u # t
      <4>1. u \in DOMAIN H /\ G[u] = H[u]
        BY <3>2
      <4> QED BY <1>1, <1>2, <1>4, <4>1 DEF Ledger
    <3> QED BY <3>1, <3>2
  <2> QED BY <1>1, <2>1 DEF Ledger
<1>6. Grows(H, G)
  BY <1>2, <1>3 DEF Grows
<1>7. LeadersOK(T, F, G)
  <2>1. F \subseteq [term : Nat, id : Id] /\ \A x \in F : x.term <= T[x.id]
    BY <1>1, <1>2 DEF LeadersOK
  <2>2. \A x \in E : x.term # t
    BY <1>1 DEF LeadersOK
  <2>3. \A x, y \in F : x.term = y.term => x.id = y.id
    BY <1>1, <2>2 DEF LeadersOK
  <2>4. DOMAIN G = {x.term : x \in F}
    <3>1. DOMAIN H = {x.term : x \in E}
      BY <1>1 DEF LeadersOK
    <3>2. [term |-> t, id |-> i].term = t
      OBVIOUS
    <3>3. {x.term : x \in F} = {x.term : x \in E} \cup {t}
      <4>1. ASSUME NEW u \in {x.term : x \in F} PROVE u \in {x.term : x \in E} \cup {t}
        BY <3>2
      <4>2. ASSUME NEW u \in {x.term : x \in E} \cup {t} PROVE u \in {x.term : x \in F}
        <5> DEFINE x0 == [term |-> t, id |-> i]
        <5>1. x0 \in F /\ x0.term = t
          OBVIOUS
        <5> HIDE DEF x0
        <5>2. CASE u = t
          BY <5>1, <5>2
        <5>3. CASE u \in {x.term : x \in E}
          BY <5>3
        <5> QED BY <5>2, <5>3
      <4> QED BY <4>1, <4>2
    <3> QED BY <3>1, <3>3
  <2> QED BY <2>1, <2>3, <2>4 DEF LeadersOK
<1>8. DisksOK(T, L, G)
  BY <1>1, <1>2, <1>4 DEF DisksOK
<1>9. ASSUME NEW q, NEW u \in DOMAIN G, NEW m \in Nat, Acked(N, F, G, q, u, m)
      PROVE  (u \in DOMAIN H /\ Acked(N, E, H, q, u, m)) \/ (u = t /\ q = i /\ m <= Len(A))
  <2>1. CASE \E x \in N : IsAck(x, q, u, m)
    <3>1. PICK x \in N : IsAck(x, q, u, m)
      BY <2>1
    <3>2. u \in DOMAIN H
      BY <1>1, <3>1 DEF AcksOK, IsAck
    <3> QED BY <2>1, <3>2 DEF Acked
  <2>2. CASE [term |-> u, id |-> q] \in E /\ m <= Len(G[u])
    <3>1. u \in DOMAIN H
      <4>1. [term |-> u, id |-> q].term \in DOMAIN H
        BY <1>1, <2>2 DEF LeadersOK
      <4> QED BY <4>1
    <3> QED BY <1>3, <2>2, <3>1 DEF Acked
  <2>3. CASE [term |-> u, id |-> q] = [term |-> t, id |-> i] /\ m <= Len(G[u])
    <3>1. u = t /\ q = i
      BY <2>3
    <3> QED BY <2>3, <3>1
  <2> QED BY <1>9, <2>1, <2>2, <2>3 DEF Acked
<1>10. AcksOK(T, L, N, F, G)
  <2>1. ASSUME NEW x \in N, x.msg.type = "Replicated", x.msg.rejection = None
        PROVE  x.msg.term \in DOMAIN G /\ x.msg.index \in 0..Len(G[x.msg.term])
    BY <1>1, <1>3, <2>1 DEF AcksOK
  <2>2. ASSUME NEW q \in Id, NEW u \in DOMAIN G, NEW m \in Nat, m <= Len(G[u]), Acked(N, F, G, q, u, m)
        PROVE  u <= T[q] /\ Safe(G, L[q], u, m, T[q])
    <3>1. CASE u = t /\ q = i /\ m <= Len(A)
      <4>1. Agree(A, A, m)
        BY <1>2, <3>1 DEF Agree
      <4> QED BY <1>2, <3>1, <4>1 DEF Safe
    <3>2. CASE u \in DOMAIN H /\ Acked(N, E, H, q, u, m)
      <4>0. m <= Len(H[u])
        BY <1>3, <2>2, <3>2
      <4>1. u <= T[q] /\ Safe(H, L[q], u, m, T[q])
        BY <1>1, <3>2, <4>0 DEF AcksOK
      <4>2. L[q] \in Seq(Entries)
        BY <1>2
      <4> QED BY <1>1, <1>5, <1>6, <3>2, <4>0, <4>1, <4>2, Growing
    <3> QED BY <1>9, <2>2, <3>1, <3>2
  <2> QED BY <2>1, <2>2 DEF AcksOK
<1>11. ASSUME NEW v \in Id, NEW top \in Nat, top <= T[v] PROVE NoNew(N, E, H, N, F, G, v, top)
  <2> SUFFICES ASSUME NEW u \in DOMAIN G, NEW m \in Nat, u < top, Own(G, u, m), Acked(N, F, G, v, u, m)
               PROVE  u \in DOMAIN H /\ m <= Len(H[u]) /\ Acked(N, E, H, v, u, m)
    BY DEF NoNew
  <2>1. ~(u = t /\ v = i)
    BY <1>2, <1>11
  <2>2. u \in DOMAIN H /\ Acked(N, E, H, v, u, m)
    BY <1>9, <2>1
  <2>3. m <= Len(H[u])
    BY <1>3, <2>2 DEF Own
  <2> QED BY <2>2, <2>3
<1>12. /\ VotesOK(N, G)
       /\ \A x \in N : x.msg.type = "Voted" /\ x.msg.granted /\ x.msg.term \notin DOMAIN G => Granted(T, N, F, G, x)
       /\ \A u \in DOMAIN H : TermOf(T, N, F, G, u)
       /\ ChosenOK(N, F, G, C)
  <2>1. N \subseteq N /\ E \subseteq F /\ \A v \in Id : T[v] \in Nat
    BY <1>2
  <2>2. \A v \in Id, top \in Nat : top <= T[v] => NoNew(N, E, H, N, F, G, v, top)
    BY <1>11
  <2> HIDE DEF F
  <2>3. N \subseteq N /\ E \subseteq F
    BY <2>1
  <2> QED BY <1>1, <1>5, <1>6, <2>1, <2>2, <2>3, AllGrow, ZenonT(60)
<1>13. GrantsOK(T, N, F, G)
  BY <1>1, <1>12 DEF GrantsOK
<1>14. ASSUME NEW v \in V PROVE t <= T[v] /\ Inherits(N, E, H, v, t, A)
  <2>1. CASE v = i
    <3> SUFFICES ASSUME NEW u \in DOMAIN H, NEW m \in Nat, u < t, Own(H, u, m), Acked(N, E, H, i, u, m)
                 PROVE  Safe(H, A, u, m, t - 1)
      BY <1>2, <2>1 DEF Inherits
    <3>1. Safe(H, A, u, m, t)
      <4>1. m <= Len(H[u])
        BY <1>2 DEF Own
      <4> QED BY <1>1, <4>1 DEF AcksOK
    <3>2. ASSUME Lost(H, u, m, t) PROVE Lost(H, u, m, t - 1)
      <4>1. PICK w \in DOMAIN H : u < w /\ w <= t /\ ~Agree(H[w], H[u], m)
        BY <3>2 DEF Lost
      <4>2. w <= t - 1
        <5>1. w \in Nat /\ w # t
          BY <1>2
        <5> QED BY <1>2, <4>1, <5>1
      <4> QED BY <4>1, <4>2 DEF Lost
    <3> QED BY <3>1, <3>2 DEF Safe
  <2>2. CASE v # i
    <3>1. PICK x \in N : x.from = v /\ x.to = i /\ x.msg.type = "Voted" /\ x.msg.term = t /\ x.msg.granted
      BY <2>2
    <3>2. Granted(T, N, E, H, x)
      BY <1>1, <3>1 DEF GrantsOK
    <3>3. PICK w \in N : IsVote(w, i, t) /\ Inherits(N, E, H, v, t, Through(H, w.msg.last))
      BY <3>1, <3>2 DEF Granted
    <3>4. w.msg.last = LogLast(A)
      BY <3>3
    <3>5. Through(H, LogLast(A)) = A
      BY <1>1, <1>2, ThroughItself
    <3> QED BY <3>1, <3>2, <3>3, <3>4, <3>5 DEF Granted
  <2> QED BY <2>1, <2>2
<1>15. TermOf(T, N, F, G, t)
  <2>1. ASSUME NEW v \in V PROVE t <= T[v] /\ Inherits(N, F, G, v, t, A)
    <3>1. t <= T[v] /\ Inherits(N, E, H, v, t, A) /\ A \in Seq(Entries)
      BY <1>2, <1>14
    <3>2. NoNew(N, E, H, N, F, G, v, t)
      BY <1>2, <1>11, <3>1
    <3>3. Agree(A, A, Len(A))
      BY <1>2 DEF Agree
    <3> HIDE DEF F, A
    <3> QED BY <1>1, <1>5, <1>6, <3>1, <3>2, <3>3, InheritsStays
  <2> QED BY <2>1 DEF TermOf
<1>16. TermsOK(T, N, F, G)
  BY <1>12, <1>15 DEF TermsOK
<1> QED BY <1>5, <1>6, <1>7, <1>8, <1>10, <1>12, <1>13, <1>16 DEF AInv

-----------------------------------------------------------------------------
(* What holds of a node, its disk and the messages.                        *)

(* B is A with more entries of term t.                                     *)
Extends(A, B, t) ==
  Agree(A, B, Len(A)) /\ \A k \in 1..Len(B) : k > Len(A) => B[k].id = LogId(k, t)

(* B is what a follower makes of A at the request of the leader of t: the  *)
(* leader's log up to an entry that A lacked.                              *)
Adopted(A, B, H, t) ==
  /\ t \in DOMAIN H
  /\ \E k \in 1..Len(H[t]) : B = SubSeq(H[t], 1, k) /\ (k > Len(A) \/ A[k].id # H[t][k].id)

(* Those that have told leader i that they have its log through c.         *)
Supports(i, N, t, c) == {q \in Id : q = i \/ \E x \in N : IsAck(x, q, t, c)}

(* A matched position is zero, the leader's own, or acknowledged.          *)
MatchedSafe(i, n, N) ==
  \A s \in Slot :
    \/ n.matched[s] = 0
    \/ n.peers[s] = i /\ n.matched[s] <= Len(FullLog(n.st))
    \/ n.peers[s] \in Id /\ \E x \in N : IsAck(x, n.peers[s], n.st.term, n.matched[s])

(* A candidate's log is of earlier terms, it has not been elected, and all *)
(* its requests told the end of this log.                                  *)
Contends(i, n, N, E) ==
  LET M == FullLog(n.st)
      t == n.st.term
  IN  /\ \A k \in 1..Len(M) : M[k].id.term < t
      /\ [term |-> t, id |-> i] \notin E
      /\ \A w \in N : IsVote(w, i, t) => w.msg.last = LastId(n.st)

(* A node that has saved everything.                                       *)
Quiet(i, n, N, E, H) ==
  /\ n.role = "Leader" =>
       n.st.term \in DOMAIN H /\ FullLog(n.st) = H[n.st.term] /\ MatchedSafe(i, n, N)
  /\ n.role = "Candidate" => Contends(i, n, N, E)

(* A leader that may have more in memory than on disk d.                   *)
Leads(i, n, d, N, H, C) ==
  LET M == FullLog(n.st)
      t == n.st.term
      c == n.st.commit
  IN  /\ CP(n.st) /\ Whole(n.st) /\ n.matched \in [Slot -> 0..U64Max]
      /\ d.term = t /\ t \in DOMAIN H /\ FullLog(d) = H[t]
      /\ Extends(H[t], M, t) /\ MatchedSafe(i, n, N)
      /\ \/ Agree(M, C, c)
         \/ c \in 1..Len(M) /\ M[c].id.term = t /\ Quorum(FixedGroup, Supports(i, N, t, c))

(* Any other node.                                                         *)
Trails(i, n, d, N, E, H, C) ==
  LET M == FullLog(n.st)
      D == FullLog(d)
  IN  /\ CP(n.st) /\ Whole(n.st) /\ (M = D \/ Adopted(D, M, H, n.st.term)) /\ Agree(M, C, n.st.commit)
      /\ n.role = "Candidate" => M = D /\ Contends(i, n, N, E)

(* What is queued will be true once it is sent.                            *)
OutSafe(n, d, N, E, H, s, o) ==
  LET M == FullLog(n.st)
      t == n.st.term
  IN  /\ o.kind = "Replicated" /\ o.rejection = None =>
           /\ t \in DOMAIN H /\ o.index \in Nat /\ Agree(M, H[t], o.index)
           /\ [term |-> t, id |-> n.peers[s]] \in E
      /\ o.kind = "Voted" /\ o.granted =>
           M = FullLog(d) /\ \E w \in N : IsVote(w, n.peers[s], t) /\ UpToDate(w.msg.last, LastId(n.st))
      /\ o.kind = "Vote" => n.role = "Candidate"

Busy(i, n, d, N, E, H, C) ==
  /\ n.role = "Leader" => Leads(i, n, d, N, H, C)
  /\ n.role # "Leader" => Trails(i, n, d, N, E, H, C)
  /\ \A s \in Slot : n.outbox[s] # None => OutSafe(n, d, N, E, H, s, n.outbox[s])

DiskSafe(i, d, N, C) ==
  /\ Whole(d) /\ Agree(FullLog(d), C, d.commit)
  /\ \A w \in N : w.from = i /\ w.msg.type = "Vote" => w.msg.term <= d.term

(* A leader's messages tell of its log and of what is published, and an    *)
(* acknowledgement goes to the leader it is for.                           *)
MsgSafe(e, E, H, C) ==
  LET t == e.msg.term
      A == H[t]
  IN  /\ e.msg.type = "Append" =>
           /\ t \in DOMAIN H /\ Agree(A, C, e.msg.commit)
           /\ \/ e.msg.previous = Genesis
              \/ e.msg.previous.index \in 1..Len(A) /\ A[e.msg.previous.index].id = e.msg.previous
           /\ e.msg.entry # None =>
                e.msg.previous.index + 1 \in 1..Len(A) /\ e.msg.entry = A[e.msg.previous.index + 1]
      /\ e.msg.type = "Install" =>
           LET k == e.msg.snapshot.last.index
           IN  /\ t \in DOMAIN H /\ k \in 1..Len(A) /\ e.msg.snapshot.app = SubSeq(A, 1, k)
               /\ e.msg.snapshot.last = A[k].id /\ Agree(A, C, k)
      /\ e.msg.type = "Replicated" /\ e.msg.rejection = None => [term |-> t, id |-> e.to] \in E

-----------------------------------------------------------------------------
(* As the ledger, the messages and the published log grow.                 *)

(* What a message says stays true.                                         *)
LEMMA MsgStays ==
  ASSUME NEW e, MsgOK(e.msg), NEW H, NEW G, Ledger(H), Ledger(G), Grows(H, G), NEW E, NEW F, E \subseteq F,
         NEW C \in Seq(Entries), NEW B \in Seq(Entries), Agree(C, B, Len(C)), MsgSafe(e, E, H, C)
  PROVE  MsgSafe(e, F, G, B)
<1> DEFINE t == e.msg.term
<1>1. ASSUME t \in DOMAIN H
      PROVE  /\ H[t] \in Seq(Entries) /\ G[t] \in Seq(Entries) /\ t \in DOMAIN G
             /\ Len(H[t]) \in Nat /\ Len(G[t]) \in Nat
             /\ Len(H[t]) <= Len(G[t]) /\ \A k \in 1..Len(H[t]) : G[t][k] = H[t][k]
  BY <1>1 DEF Grows, Ledger, Rooted, Agree
<1>2. ASSUME t \in DOMAIN H, NEW m \in Nat, Agree(H[t], C, m) PROVE Agree(G[t], B, m)
  <2>1. PICK A, D : A = H[t] /\ D = G[t]
    OBVIOUS
  <2>2. /\ Len(A) \in Nat /\ Len(D) \in Nat /\ Len(A) <= Len(D) /\ \A k \in 1..Len(A) : D[k] = A[k]
    BY <1>1, <1>2, <2>1
  <2>3. /\ Len(C) \in Nat /\ Len(B) \in Nat /\ Len(C) <= Len(B) /\ \A k \in 1..Len(C) : C[k] = B[k]
    BY DEF Agree
  <2>4. m <= Len(A) /\ m <= Len(C) /\ \A k \in 1..m : A[k] = C[k]
    BY <1>2, <2>1 DEF Agree
  <2>5. \A k \in 1..m : k \in 1..Len(A) /\ k \in 1..Len(C)
    BY <2>2, <2>3, <2>4
  <2>6. \A k \in 1..m : D[k] = B[k]
    BY <2>2, <2>3, <2>4, <2>5
  <2>7. m <= Len(D) /\ m <= Len(B)
    BY <2>2, <2>3, <2>4
  <2> QED BY <2>1, <2>6, <2>7 DEF Agree
<1>3. ASSUME e.msg.type = "Append"
      PROVE  LET A == G[t] IN
             /\ t \in DOMAIN G /\ Agree(A, B, e.msg.commit)
             /\ \/ e.msg.previous = Genesis
                \/ e.msg.previous.index \in 1..Len(A) /\ A[e.msg.previous.index].id = e.msg.previous
             /\ e.msg.entry # None =>
                  e.msg.previous.index + 1 \in 1..Len(A) /\ e.msg.entry = A[e.msg.previous.index + 1]
  <2>1. /\ t \in DOMAIN H /\ Agree(H[t], C, e.msg.commit)
        /\ \/ e.msg.previous = Genesis
           \/ e.msg.previous.index \in 1..Len(H[t]) /\ H[t][e.msg.previous.index].id = e.msg.previous
        /\ e.msg.entry # None =>
             e.msg.previous.index + 1 \in 1..Len(H[t]) /\ e.msg.entry = H[t][e.msg.previous.index + 1]
    BY <1>3 DEF MsgSafe
  <2>2. e.msg.commit \in Nat
    BY <1>3 DEF MsgOK
  <2>3. Agree(G[t], B, e.msg.commit)
    BY <1>2, <2>1, <2>2
  <2> DEFINE p == e.msg.previous.index
             q == p + 1
  <2>4. \A k \in 1..Len(H[t]) : k \in 1..Len(G[t]) /\ G[t][k] = H[t][k]
    BY <1>1, <2>1
  <2> HIDE DEF q
  <2>5. e.msg.entry # None => q \in 1..Len(G[t]) /\ e.msg.entry = G[t][q]
    BY <2>1, <2>4, SMTT(30) DEF q
  <2> QED BY <1>1, <2>1, <2>3, <2>4, <2>5 DEF q
<1>4. ASSUME e.msg.type = "Install"
      PROVE  LET A == G[t]
                 k == e.msg.snapshot.last.index
             IN  /\ t \in DOMAIN G /\ k \in 1..Len(A) /\ e.msg.snapshot.app = SubSeq(A, 1, k)
                 /\ e.msg.snapshot.last = A[k].id /\ Agree(A, B, k)
  <2> DEFINE k == e.msg.snapshot.last.index
  <2>1. /\ t \in DOMAIN H /\ k \in 1..Len(H[t]) /\ e.msg.snapshot.app = SubSeq(H[t], 1, k)
        /\ e.msg.snapshot.last = H[t][k].id /\ Agree(H[t], C, k)
    BY <1>4 DEF MsgSafe
  <2> HIDE DEF k
  <2>2. k \in Nat /\ k \in 1..Len(G[t]) /\ G[t][k] = H[t][k]
    BY <1>1, <2>1
  <2>3. SubSeq(H[t], 1, k) = SubSeq(G[t], 1, k)
    BY <1>1, <2>1, <2>2
  <2> QED BY <1>1, <1>2, <2>1, <2>2, <2>3 DEF k
<1>5. e.msg.type = "Replicated" /\ e.msg.rejection = None => [term |-> t, id |-> e.to] \in F
  BY DEF MsgSafe
<1> QED BY <1>3, <1>4, <1>5 DEF MsgSafe

(* A node that does nothing stays as it is, whatever the others do.        *)
LEMMA QuietStays ==
  ASSUME NEW j, NEW n, NEW N, NEW M, N \subseteq M, NEW E, NEW F, E \subseteq F, NEW H, NEW G, Quiet(j, n, N, E, H),
         DOMAIN H \subseteq DOMAIN G, n.role = "Leader" => G[n.st.term] = H[n.st.term],
         \A w \in M \ N : w.from # j, \A x \in F \ E : x.id # j
  PROVE  Quiet(j, n, M, F, G)
<1>1. MatchedSafe(j, n, N) => MatchedSafe(j, n, M)
  BY DEF MatchedSafe
<1>2. ASSUME Contends(j, n, N, E) PROVE Contends(j, n, M, F)
  <2> DEFINE x == [term |-> n.st.term, id |-> j]
  <2>1. x.id = j /\ x \notin E
    BY <1>2 DEF Contends
  <2> HIDE DEF x
  <2>2. x \notin F
    BY <2>1
  <2>3. \A w \in M : IsVote(w, j, n.st.term) => w.msg.last = LastId(n.st)
    BY <1>2 DEF Contends, IsVote
  <2> QED BY <1>2, <2>2, <2>3 DEF Contends, x
<1> QED BY <1>1, <1>2 DEF Quiet

(* A disk stays safe while others send and publish.                        *)
LEMMA DiskStays ==
  ASSUME NEW j, NEW d, CP(d), NEW N, NEW M, NEW C \in Seq(Entries), NEW B \in Seq(Entries), Agree(C, B, Len(C)),
         DiskSafe(j, d, N, C), \A w \in M \ N : w.from # j
  PROVE  DiskSafe(j, d, M, B)
<1>1. FullLog(d) \in Seq(Entries) /\ d.commit \in Nat
  BY Shape, Reading DEF DiskSafe
<1>2. Agree(FullLog(d), B, d.commit)
  BY <1>1 DEF DiskSafe, Agree
<1>3. \A w \in M : w.from = j /\ w.msg.type = "Vote" => w.msg.term <= d.term
  BY DEF DiskSafe
<1> QED BY <1>2, <1>3 DEF DiskSafe

(* The same logs.                                                          *)
LEMMA SameLogs ==
  ASSUME NEW T, NEW L, NEW N, NEW E, NEW H, NEW C, AInv(T, L, N, E, H, C), NEW K, \A q \in Id : K[q] = L[q]
  PROVE  AInv(T, K, N, E, H, C)
<1>1. DisksOK(T, K, H) /\ AcksOK(T, K, N, E, H)
  BY DEF AInv, DisksOK, AcksOK
<1> QED BY <1>1 DEF AInv

(* The ledger G after node i has saved.                                    *)
SavedAs(i, r, U, K, N, E, H, C, G) ==
  /\ AInv(U, K, N, E, G, C) /\ Grows(H, G) /\ DOMAIN G = DOMAIN H
  /\ \A u \in DOMAIN H : [term |-> u, id |-> i] \notin E => G[u] = H[u]
  /\ r.role = "Leader" => G[r.st.term] = FullLog(r.st)
  /\ r.role # "Leader" => G = H

(* A save keeps what disks, messages and leaders have in common: a leader  *)
(* has appended to its log, another node has adopted a leader's.           *)
LEMMA SavesLog ==
  ASSUME NEW T, NEW L, NEW N, NEW E, NEW H, NEW C, AInv(T, L, N, E, H, C), FixedGroup \in Memberships,
         NEW i \in Id, NEW d, T[i] = d.term, L[i] = FullLog(d),
         NEW r, CP(r.st), d.term <= r.st.term, r.role = "Leader" => [term |-> r.st.term, id |-> i] \in E,
         Busy(i, r, d, N, E, H, C),
         NEW U, U[i] = r.st.term, \A q \in Id \ {i} : U[q] = T[q],
         NEW K, K[i] = FullLog(r.st), \A q \in Id \ {i} : K[q] = L[q]
  PROVE  \E G : SavedAs(i, r, U, K, N, E, H, C, G)
<1> DEFINE t == r.st.term
           M == FullLog(r.st)
           D == FullLog(d)
<1>1. Ledger(H) /\ DisksOK(T, L, H) /\ t \in Nat
  BY Measures DEF AInv
<1>2. AInv(U, L, N, E, H, C)
  <2>1. ASSUME NEW q \in Id PROVE U[q] \in Nat /\ T[q] <= U[q]
    <3>1. T[q] \in Nat
      BY <1>1 DEF DisksOK
    <3> QED BY <1>1, <3>1
  <2> QED BY <2>1, TermsRise
<1>3. CASE r.role = "Leader"
  <2>1. /\ Whole(r.st) /\ d.term = t /\ t \in DOMAIN H /\ D = H[t] /\ Extends(H[t], M, t)
    BY <1>3 DEF Busy, Leads
  <2>2. M \in Seq(Entries)
    BY <2>1, Shape
  <2> DEFINE GG == [u \in DOMAIN H |-> IF u = t THEN M ELSE H[u]]
  <2>3. DOMAIN GG = DOMAIN H /\ GG[t] = M /\ \A u \in DOMAIN H \ {t} : GG[u] = H[u]
    BY <2>1
  <2> HIDE DEF GG, M
  <2>4. t = U[i] /\ [term |-> t, id |-> i] \in E /\ L[i] = H[t] /\ K[i] = M
    BY <1>3, <2>1 DEF M
  <2>5. Agree(H[t], M, Len(H[t])) /\ \A k \in 1..Len(M) : k > Len(H[t]) => M[k].id = LogId(k, t)
    BY <2>1 DEF Extends, M
  <2> HIDE DEF t
  <2>6. AInv(U, K, N, E, GG, C)
    BY <1>2, <2>2, <2>3, <2>4, <2>5, LeaderAppends
  <2>7. Grows(H, GG)
    <3>1. ASSUME NEW u \in DOMAIN H
          PROVE  /\ Agree(H[u], GG[u], Len(H[u]))
                 /\ \A k \in 1..Len(GG[u]) : k > Len(H[u]) => GG[u][k].id.term = u
      <4>1. CASE u = t
        <5>1. ASSUME NEW k \in 1..Len(M), k > Len(H[t]) PROVE M[k].id.term = t
          <6>1. M[k].id = LogId(k, t)
            BY <2>5, <5>1
          <6> QED BY <6>1 DEF LogId
        <5>2. GG[u] = M /\ H[u] = H[t]
          BY <2>3, <4>1
        <5> QED BY <2>5, <4>1, <5>1, <5>2
      <4>2. CASE u # t
        <5>1. GG[u] = H[u] /\ H[u] \in Seq(Entries)
          BY <1>1, <2>3, <4>2 DEF Ledger, Rooted
        <5> QED BY <5>1 DEF Agree
      <4> QED BY <4>1, <4>2
    <3> QED BY <2>3, <3>1 DEF Grows
  <2>8. \A u \in DOMAIN H : [term |-> u, id |-> i] \notin E => GG[u] = H[u]
    BY <2>3, <2>4
  <2> QED BY <1>3, <2>3, <2>6, <2>7, <2>8 DEF t, M, SavedAs
<1>4. CASE r.role # "Leader"
  <2>1. M = D \/ Adopted(D, M, H, t)
    BY <1>4 DEF Busy, Trails
  <2>2. AInv(U, K, N, E, H, C)
    <3>1. CASE M = D
      <4>1. \A q \in Id : K[q] = L[q]
        BY <3>1
      <4> QED BY <1>2, <4>1, SameLogs
    <3>2. CASE Adopted(D, M, H, t)
      <4>1. PICK k \in 1..Len(H[t]) : M = SubSeq(H[t], 1, k) /\ (k > Len(D) \/ D[k].id # H[t][k].id)
        BY <3>2 DEF Adopted
      <4>2. t \in DOMAIN H
        BY <3>2 DEF Adopted
      <4>3. U[i] \in DOMAIN H /\ k \in 1..Len(H[U[i]]) /\ K[i] = SubSeq(H[U[i]], 1, k)
            /\ (k > Len(L[i]) \/ L[i][k].id # H[U[i]][k].id)
        BY <4>1, <4>2
      <4> QED BY <1>2, <4>3, DiskAdopts
    <3> QED BY <2>1, <3>1, <3>2
  <2>3. Grows(H, H)
    BY <1>1, GrowsItself
  <2> QED BY <1>4, <2>2, <2>3 DEF SavedAs
<1> QED BY <1>3, <1>4

-----------------------------------------------------------------------------
(* Saving and draining.                                                    *)

(* The messages a node of a fixed group takes from its outbox.             *)
LEMMA Described ==
  ASSUME NEW n, ~n.hooks, NEW s, NEW o, NEW m, m = MessageOf(n, s, o), m # None
  PROVE  /\ o.kind = "Vote" => m = [type |-> "Vote", term |-> n.st.term, last |-> LastId(n.st)]
         /\ o.kind = "Voted" => m = [type |-> "Voted", term |-> n.st.term, granted |-> o.granted]
         /\ o.kind = "Replicated" =>
              m = [type |-> "Replicated", term |-> n.st.term, index |-> o.index, rejection |-> o.rejection]
         /\ o.kind = "Replicate" =>
              \/ /\ n.st.snapshot # None
                 /\ m = [type |-> "Install", term |-> n.st.term, snapshot |-> n.st.snapshot]
              \/ /\ ~(n.next[s] <= Base(n.st).index) /\ IdAt(n.st, n.next[s] - 1) # None
                 /\ m = [type |-> "Append", term |-> n.st.term, commit |-> n.st.commit,
                         previous |-> IdAt(n.st, n.next[s] - 1), entry |-> Get(n.st, n.next[s])]
<1>1. o.kind = "Vote" => m = [type |-> "Vote", term |-> n.st.term, last |-> LastId(n.st)]
  BY DEF MessageOf
<1>2. o.kind = "Voted" => m = [type |-> "Voted", term |-> n.st.term, granted |-> o.granted]
  BY DEF MessageOf
<1>3. o.kind = "Replicated" =>
              m = [type |-> "Replicated", term |-> n.st.term, index |-> o.index, rejection |-> o.rejection]
  BY DEF MessageOf
<1>4. ASSUME o.kind = "Replicate", NeedsSnapshot(n.st, n.next[s])
      PROVE  n.st.snapshot # None /\ m = [type |-> "Install", term |-> n.st.term, snapshot |-> n.st.snapshot]
  BY <1>4 DEF MessageOf
<1>5. ASSUME o.kind = "Replicate", ~NeedsSnapshot(n.st, n.next[s])
      PROVE  /\ IdAt(n.st, n.next[s] - 1) # None
             /\ m = [type |-> "Append", term |-> n.st.term, commit |-> n.st.commit,
                     previous |-> IdAt(n.st, n.next[s] - 1), entry |-> Get(n.st, n.next[s])]
  BY <1>5 DEF MessageOf
<1> QED BY <1>1, <1>2, <1>3, <1>4, <1>5 DEF NeedsSnapshot

(* Where the messages come from.                                           *)
LEMMA FromOutbox ==
  ASSUME NEW i \in Id, NEW n, NEW d, NEW N, NEW E, Sound(i, n, d, N, E), NEW e \in Outgoing(n), e.msg # None
  PROVE  \E s \in Slot : /\ n.outbox[s] # None /\ e.from = i /\ e.to = n.peers[s] /\ ~n.hooks
                         /\ e.msg = MessageOf(n, s, n.outbox[s]) /\ Honest(n, N, s, n.outbox[s])
<1>1. n.id = i /\ n.extra = None /\ ~n.hooks
  BY DEF Sound, InGroup
<1>2. PICK s \in Slot : n.outbox[s] # None
                        /\ e = [from |-> n.id, to |-> n.peers[s], msg |-> MessageOf(n, s, n.outbox[s])]
  BY <1>1 DEF Outgoing
<1>3. Honest(n, N, s, n.outbox[s])
  BY <1>2 DEF Sound
<1>4. e.from = i /\ e.to = n.peers[s] /\ e.msg = MessageOf(n, s, n.outbox[s])
  BY <1>1, <1>2
<1> QED BY <1>1, <1>2, <1>3, <1>4

(* What a leader that has saved everything replicates.                     *)
LEMMA ReplicatesTruth ==
  ASSUME NEW n, CP(n.st), Whole(n.st), ~n.hooks, NEW s \in Slot, n.next[s] \in 1..U64Max,
         NEW G, Ledger(G), n.st.term \in DOMAIN G, G[n.st.term] = FullLog(n.st),
         NEW B \in Seq(Entries), Agree(FullLog(n.st), B, n.st.commit), NEW E,
         NEW o, o.kind = "Replicate", NEW e, e.msg = MessageOf(n, s, o), e.msg # None
  PROVE  MsgSafe(e, E, G, B)
<1> DEFINE M == FullLog(n.st)
           t == n.st.term
           b == Base(n.st).index
           q == n.next[s]
           p == q - 1
<1>1. /\ M \in Seq(Entries) /\ b \in Nat /\ Len(M) \in Nat /\ n.st.commit \in Nat /\ b <= n.st.commit
      /\ \A k \in 1..Len(M) : M[k].id.index = k
      /\ q \in Nat /\ q >= 1 /\ p \in Nat /\ p + 1 = q
  <2>1. Rooted(M, G)
    BY DEF Ledger
  <2>2. \A k \in 1..Len(M) : M[k].id.index = k
    BY <2>1 DEF Rooted
  <2>3. q \in Nat /\ q >= 1
    BY U64Assumption
  <2>4. p \in Nat /\ p + 1 = q
    BY <2>3
  <2>5. M \in Seq(Entries) /\ b \in Nat /\ n.st.commit \in Nat /\ b <= n.st.commit
    BY Shape, Reading
  <2> HIDE DEF q, M, p
  <2> QED BY <2>2, <2>3, <2>4, <2>5
<1>2. CASE /\ n.st.snapshot # None
           /\ e.msg = [type |-> "Install", term |-> n.st.term, snapshot |-> n.st.snapshot]
  <2> DEFINE app == n.st.snapshot.app
  <2>1. /\ b = n.st.snapshot.last.index /\ n.st.snapshot.last = Base(n.st) /\ n.st.snapshot \in Snapshots
    BY <1>2, Fields6 DEF Base, CP
  <2>2. app \in Seq(Entries) /\ Len(app) = b
    BY <1>2, <2>1 DEF Snapshots, Whole
  <2>3. b \in 1..Len(M) /\ (\A k \in 1..b : M[k] = app[k]) /\ M[b].id = Base(n.st)
    <3>1. /\ Len(M) = b + Len(n.st.entries) /\ Len(n.st.entries) \in Nat
          /\ b \in 1..b /\ (\A k \in 1..b : M[k] = app[k])
          /\ b # 0 => M[b].id = Base(n.st)
      BY <1>2, Shape
    <3> HIDE DEF M, b, app
    <3> QED BY <1>1, <3>1
  <2> HIDE DEF M, b, app
  <2>4. app = SubSeq(M, 1, b)
    <3> DEFINE P == SubSeq(M, 1, b)
    <3>1. P \in Seq(Entries) /\ Len(P) = b /\ \A k \in 1..b : P[k] = M[k]
      BY <1>1, <2>3
    <3> HIDE DEF P
    <3>2. \A k \in 1..b : P[k] = app[k]
      BY <2>3, <3>1
    <3>3. P = app
      BY <2>2, <3>1, <3>2
    <3> QED BY <3>3 DEF P
  <2>5. Agree(M, B, b)
    <3>1. Agree(M, B, n.st.commit)
      BY DEF M
    <3> QED BY <1>1, <3>1, Agreeing
  <2>6. e.msg.type = "Install" /\ e.msg.term = t /\ e.msg.snapshot.app = app /\ e.msg.snapshot.last = Base(n.st) /\ e.msg.snapshot.last.index = b
    BY <1>2, <2>1 DEF app
  <2>7. t \in DOMAIN G /\ G[t] = M
    BY DEF M
  <2> HIDE DEF t
  <2> QED BY <2>3, <2>4, <2>5, <2>6, <2>7 DEF MsgSafe
<1>3. CASE /\ ~(q <= b) /\ IdAt(n.st, p) # None
           /\ e.msg = [type |-> "Append", term |-> n.st.term, commit |-> n.st.commit,
                       previous |-> IdAt(n.st, p), entry |-> Get(n.st, q)]
  <2>1. /\ p > Len(M) \/ p < b => IdAt(n.st, p) = None
        /\ b <= p /\ p <= Len(M) /\ p # 0 => IdAt(n.st, p) = M[p].id
        /\ b = 0 => IdAt(n.st, 0) = Genesis
        /\ b < q /\ q <= Len(M) => Get(n.st, q) = M[q]
        /\ q > Len(M) => Get(n.st, q) = None
    BY <1>1, Reading
  <2>2. /\ e.msg.type = "Append" /\ e.msg.term = t /\ e.msg.commit = n.st.commit
        /\ e.msg.previous = IdAt(n.st, p) /\ e.msg.entry = Get(n.st, q)
    BY <1>3
  <2>3. t \in DOMAIN G /\ G[t] = M /\ Agree(M, B, e.msg.commit)
    BY <2>2
  <2> HIDE DEF M, b, q, p, t
  <2>4. e.msg.previous.index = p /\ (e.msg.previous = Genesis \/ (p \in 1..Len(M) /\ M[p].id = e.msg.previous))
    <3>1. CASE p = 0
      <4>1. b = 0
        BY <1>1, <1>3, <2>1, <3>1
      <4> QED BY <2>1, <2>2, <3>1, <4>1 DEF Genesis
    <3>2. CASE p # 0
      <4>1. b <= p /\ p <= Len(M) /\ p \in 1..Len(M)
        BY <1>1, <1>3, <2>1, <3>2
      <4> QED BY <1>1, <2>1, <2>2, <3>2, <4>1
    <3> QED BY <3>1, <3>2
  <2>5. e.msg.entry # None => p + 1 \in 1..Len(M) /\ e.msg.entry = M[p + 1]
    <3>1. e.msg.entry # None => q <= Len(M)
      BY <1>1, <2>1, <2>2
    <3> QED BY <1>1, <1>3, <2>1, <2>2, <3>1
  <2> QED BY <2>2, <2>3, <2>4, <2>5 DEF MsgSafe
<1>4. \/ /\ n.st.snapshot # None
         /\ e.msg = [type |-> "Install", term |-> n.st.term, snapshot |-> n.st.snapshot]
      \/ /\ ~(q <= b) /\ IdAt(n.st, p) # None
         /\ e.msg = [type |-> "Append", term |-> n.st.term, commit |-> n.st.commit,
                     previous |-> IdAt(n.st, p), entry |-> Get(n.st, q)]
  BY Described
<1> QED BY <1>2, <1>3, <1>4

(* What a save publishes is decided, or was published before.              *)
LEMMA Commits ==
  ASSUME NEW T, NEW L, NEW N, NEW E, NEW H, NEW C, AInv(T, L, N, E, H, C), FixedGroup \in Memberships,
         NEW i \in Id, NEW st, CP(st), Whole(st), NEW t, t = st.term, NEW M, M = FullLog(st), NEW c, c = st.commit,
         \/ Agree(M, C, c)
         \/ /\ t \in DOMAIN H /\ H[t] = M /\ [term |-> t, id |-> i] \in E
            /\ c \in 1..Len(M) /\ M[c].id.term = t /\ Quorum(FixedGroup, Supports(i, N, t, c))
  PROVE  LET B == Longest(C, Committed(st)) IN
         AInv(T, L, N, E, H, B) /\ Agree(C, B, Len(C)) /\ Agree(M, B, c) /\ B \in Seq(Entries)
<1> DEFINE P == SubSeq(M, 1, c)
<1>1. M \in Seq(Entries) /\ c \in Nat /\ Committed(st) = P /\ c <= Len(M) /\ C \in Seq(Entries)
  <2>1. M \in Seq(Entries)
    BY Shape
  <2>2. c \in Nat /\ AppliedThrough(st, c) = P /\ c <= Len(M)
    BY Reading
  <2>3. C \in Seq(Entries)
    BY DEF AInv, ChosenOK
  <2> QED BY <2>1, <2>2, <2>3 DEF Committed
<1>2. P \in Seq(Entries) /\ Len(P) = c /\ \A k \in 1..c : P[k] = M[k]
  BY <1>1
<1> HIDE DEF P
<1>3. CASE Agree(M, C, c)
  <2>1. c <= Len(C) /\ \A k \in 1..c : P[k] = C[k]
    BY <1>2, <1>3 DEF Agree
  <2>2. Longest(C, P) = C
    <3>1. CASE Len(C) > c
      BY <1>2, <3>1 DEF Longest
    <3>2. CASE Len(C) = c
      <4>0. Len(C) = Len(P) /\ P \in Seq(Entries) /\ C \in Seq(Entries) /\ \A k \in 1..Len(P) : P[k] = C[k]
        BY <1>1, <1>2, <2>1, <3>2
      <4>1. P = C
        BY <4>0
      <4> QED BY <4>1 DEF Longest
    <3> QED BY <1>1, <2>1, <3>1, <3>2
  <2>3. Agree(C, C, Len(C))
    BY <1>1 DEF Agree
  <2> QED BY <1>1, <1>3, <2>2, <2>3
<1>4. CASE /\ t \in DOMAIN H /\ H[t] = M /\ [term |-> t, id |-> i] \in E
           /\ c \in 1..Len(M) /\ M[c].id.term = t /\ Quorum(FixedGroup, Supports(i, N, t, c))
  <2>1. Own(H, t, c)
    BY <1>4 DEF Own
  <2>2. Supports(i, N, t, c) \subseteq {q \in Id : Acked(N, E, H, q, t, c)}
    BY <1>1, <1>4 DEF Supports, Acked
  <2>3. Decided(N, E, H, t, c)
    BY <1>4, <2>1, <2>2, QuorumGrows DEF Decided
  <2>4. Agree(P, H[t], c)
    BY <1>1, <1>2, <1>4 DEF Agree
  <2> DEFINE B == Longest(C, P)
  <2>5. AInv(T, L, N, E, H, B) /\ Agree(C, B, Len(C)) /\ Agree(P, B, c) /\ B \in Seq(Entries)
    BY <1>1, <1>2, <1>4, <2>3, <2>4, Chooses
  <2> HIDE DEF B
  <2>6. Agree(M, B, c)
    BY <1>1, <1>2, <2>5 DEF Agree
  <2> QED BY <1>1, <2>5, <2>6 DEF B
<1> QED BY <1>3, <1>4

(* What a node sends once it has saved.                                    *)
LEMMA SendsFromDisk ==
  ASSUME NEW T, NEW L, NEW N, NEW E, NEW H, NEW C, AInv(T, L, N, E, H, C),
         NEW i \in Id, NEW d, L[i] = FullLog(d),
         NEW r, CP(r.st), Whole(r.st), Sound(i, r, d, N, E), Busy(i, r, d, N, E, H, C),
         NEW U, U[i] = r.st.term, NEW K, K[i] = FullLog(r.st),
         NEW G, Ledger(G), Grows(H, G), r.role # "Leader" => G = H,
         NEW e \in Outgoing(r), e.msg # None
  PROVE  FromDisk(U, K, N, G, i, e)
<1> DEFINE t == r.st.term
           M == FullLog(r.st)
<1>1. PICK s \in Slot : /\ r.outbox[s] # None /\ e.from = i /\ e.to = r.peers[s] /\ ~r.hooks
                        /\ e.msg = MessageOf(r, s, r.outbox[s]) /\ Honest(r, N, s, r.outbox[s])
  BY FromOutbox
<1> DEFINE o == r.outbox[s]
<1>2. o.kind \in {"Vote", "Voted", "Replicate", "Replicated"} /\ OutSafe(r, d, N, E, H, s, o)
  BY <1>1 DEF Honest, Busy
<1>3. LastId(r.st) = LogLast(M) /\ M \in Seq(Entries)
  BY Reading, Shape
<1>4. /\ o.kind = "Vote" => e.msg.type = "Vote" /\ e.msg.term = t /\ e.msg.last = LastId(r.st)
      /\ o.kind = "Voted" => e.msg.type = "Voted" /\ e.msg.term = t /\ e.msg.granted = o.granted
      /\ o.kind = "Replicated" =>
           e.msg.type = "Replicated" /\ e.msg.term = t /\ e.msg.index = o.index /\ e.msg.rejection = o.rejection
      /\ o.kind = "Replicate" => e.msg.type \in {"Install", "Append"} /\ e.msg.term = t
  <2> DEFINE m == e.msg
  <2>1. /\ o.kind = "Vote" => m = [type |-> "Vote", term |-> r.st.term, last |-> LastId(r.st)]
        /\ o.kind = "Voted" => m = [type |-> "Voted", term |-> r.st.term, granted |-> o.granted]
        /\ o.kind = "Replicated" =>
              m = [type |-> "Replicated", term |-> r.st.term, index |-> o.index, rejection |-> o.rejection]
        /\ o.kind = "Replicate" =>
              \/ m = [type |-> "Install", term |-> r.st.term, snapshot |-> r.st.snapshot]
              \/ m = [type |-> "Append", term |-> r.st.term, commit |-> r.st.commit,
                         previous |-> IdAt(r.st, r.next[s] - 1), entry |-> Get(r.st, r.next[s])]
    BY <1>1, Described
  <2> HIDE DEF m, o
  <2>2. /\ o.kind = "Vote" => m.type = "Vote" /\ m.term = t /\ m.last = LastId(r.st)
        /\ o.kind = "Voted" => m.type = "Voted" /\ m.term = t /\ m.granted = o.granted
        /\ o.kind = "Replicated" =>
             m.type = "Replicated" /\ m.term = t /\ m.index = o.index /\ m.rejection = o.rejection
        /\ o.kind = "Replicate" => m.type \in {"Install", "Append"} /\ m.term = t
    BY <2>1
  <2> QED BY <2>2 DEF m
<1> HIDE DEF o
<1>5. e.msg.term = t
  BY <1>2, <1>4
<1>6. ASSUME e.msg.type = "Replicated", e.msg.rejection = None
      PROVE  t \in DOMAIN G /\ e.msg.index \in Nat /\ Agree(M, G[t], e.msg.index)
  <2>1. o.kind = "Replicated" /\ o.rejection = None /\ e.msg.index = o.index
    BY <1>2, <1>4, <1>6
  <2>2. t \in DOMAIN H /\ o.index \in Nat /\ Agree(M, H[t], o.index)
    BY <1>2, <2>1 DEF OutSafe
  <2>3. t \in DOMAIN G
    BY <2>2 DEF Grows
  <2>4. Ledger(H)
    BY DEF AInv
  <2> HIDE DEF M, t
  <2>5. Agree(M, G[t], o.index)
    BY <1>3, <2>2, <2>4, Growing
  <2> QED BY <2>1, <2>2, <2>3, <2>5
<1>7. ASSUME e.msg.type = "Vote" PROVE Placed(G, e.msg.last, t)
  <2>1. o.kind = "Vote" /\ e.msg.last = LogLast(M)
    BY <1>2, <1>3, <1>4, <1>7
  <2>2. r.role = "Candidate" /\ G = H
    BY <1>2, <2>1 DEF OutSafe
  <2>3. M = L[i] /\ \A k \in 1..Len(M) : M[k].id.term < t
    BY <2>2 DEF Busy, Trails, Contends
  <2>4. Ledger(G) /\ Rooted(M, G)
    BY <2>2, <2>3 DEF AInv, DisksOK
  <2> HIDE DEF M, t
  <2>5. M = <<>> \/ (LogLast(M) = M[Len(M)].id /\ LogLast(M).index = Len(M) /\ LogLast(M).term \in DOMAIN G
                          /\ Agree(M, G[LogLast(M).term], Len(M)))
    BY <2>4, ThroughItself
  <2>6. CASE M = <<>>
    BY <2>1, <2>6 DEF LogLast, Placed
  <2>7. CASE M # <<>>
    <3> DEFINE k == Len(M)
    <3>1. k \in 1..Len(M)
      BY <1>3, <2>7
    <3>2. LogLast(M).term < t
      BY <2>3, <2>5, <2>7, <3>1
    <3>3. k \in 1..Len(G[LogLast(M).term]) /\ G[LogLast(M).term][k] = M[k]
      <4> DEFINE A == G[LogLast(M).term]
      <4>1. Agree(M, A, k) /\ A \in Seq(Entries)
        BY <2>4, <2>5, <2>7 DEF Ledger, Rooted
      <4> HIDE DEF A, k
      <4>2. k \in 1..Len(A) /\ A[k] = M[k]
        BY <3>1, <4>1 DEF Agree
      <4> QED BY <4>2 DEF A
    <3> QED BY <2>1, <2>5, <2>7, <3>2, <3>3 DEF Placed
  <2> QED BY <2>6, <2>7
<1>8. ASSUME e.msg.type = "Voted", e.msg.granted
      PROVE  \E w \in N : IsVote(w, e.to, t) /\ UpToDate(w.msg.last, LogLast(M))
  <2>1. o.kind = "Voted" /\ o.granted
    BY <1>2, <1>4, <1>8
  <2> QED BY <1>1, <1>2, <1>3, <2>1 DEF OutSafe
<1> QED BY <1>1, <1>5, <1>6, <1>7, <1>8 DEF FromDisk

(* The ledger G, messages N \cup S and published log B after node i has    *)
(* saved and drained.                                                      *)
FlushedAs(i, r, U, K, N, S, E, H, C, B, G) ==
  /\ AInv(U, K, N \cup S, E, G, B) /\ Grows(H, G) /\ DOMAIN G = DOMAIN H
  /\ \A u \in DOMAIN H : [term |-> u, id |-> i] \notin E => G[u] = H[u]
  /\ C \in Seq(Entries) /\ B \in Seq(Entries) /\ Agree(C, B, Len(C))
  /\ DiskSafe(i, r.st, N \cup S, B) /\ Quiet(i, r, N \cup S, E, G)
  /\ \A e \in N \cup S : MsgSafe(e, E, G, B)
  /\ \A e \in S : e.from = i

(* Saving and draining: what the disks, the messages and the published log *)
(* have in common stays, and the node has saved everything.                *)
LEMMA Flush ==
  ASSUME NEW T, NEW L, NEW N, NEW E, NEW H, NEW C, AInv(T, L, N, E, H, C), FixedGroup \in Memberships,
         NEW i \in Id, NEW d, T[i] = d.term, L[i] = FullLog(d), CP(d), DiskSafe(i, d, N, C),
         NEW r, OK(d, r), Sound(i, r, d, N, E), Busy(i, r, d, N, E, H, C),
         \A e \in N : MsgOK(e.msg) /\ MsgSafe(e, E, H, C),
         NEW U, U[i] = r.st.term, \A q \in Id \ {i} : U[q] = T[q],
         NEW K, K[i] = FullLog(r.st), \A q \in Id \ {i} : K[q] = L[q],
         NEW S, \A e \in S : e \in Outgoing(r) /\ e.msg # None
  PROVE  LET B == Longest(C, Committed(r.st)) IN
         \E G : FlushedAs(i, r, U, K, N, S, E, H, C, B, G)
<1> DEFINE t == r.st.term
           M == FullLog(r.st)
           c == r.st.commit
           B == Longest(C, Committed(r.st))
           W == N \cup S
<1>1. /\ CP(r.st) /\ Whole(r.st) /\ (r.role = "Leader" => [term |-> t, id |-> i] \in E)
      /\ d.term <= t /\ t \in Nat /\ d.term \in Nat /\ r.next \in [Slot -> 1..U64Max]
      /\ M \in Seq(Entries)
  <2>1. CP(r.st) /\ Whole(r.st)
    BY DEF Busy, Leads, Trails
  <2>2. r.role = "Leader" => [term |-> t, id |-> i] \in E
    BY DEF Sound
  <2>3. d.term <= t
    BY DEF Sound, Follows
  <2>4. t \in Nat /\ d.term \in Nat
    BY <2>1, Measures
  <2>5. r.next \in [Slot -> 1..U64Max]
    BY DEF OK, Typed
  <2> QED BY <2>1, <2>2, <2>3, <2>4, <2>5, Shape
<1>0. \E G : SavedAs(i, r, U, K, N, E, H, C, G)
  BY <1>1, SavesLog, ZenonT(60)
<1>2. PICK G : /\ AInv(U, K, N, E, G, C) /\ Grows(H, G) /\ DOMAIN G = DOMAIN H
               /\ \A u \in DOMAIN H : [term |-> u, id |-> i] \notin E => G[u] = H[u]
               /\ r.role = "Leader" => G[r.st.term] = FullLog(r.st)
               /\ r.role # "Leader" => G = H
  BY <1>0 DEF SavedAs
<1>3. Ledger(H) /\ Ledger(G) /\ C \in Seq(Entries)
  BY <1>2 DEF AInv, ChosenOK
<1>4. \A e \in S : FromDisk(U, K, N, G, i, e)
  BY <1>1, <1>2, <1>3, SendsFromDisk
<1>5. AInv(U, K, W, E, G, C)
  BY <1>2, <1>4, Sends
<1>6. \/ Agree(M, C, c)
      \/ /\ t \in DOMAIN G /\ G[t] = M /\ [term |-> t, id |-> i] \in E
         /\ c \in 1..Len(M) /\ M[c].id.term = t /\ Quorum(FixedGroup, Supports(i, W, t, c))
  <2>1. CASE r.role = "Leader"
    <3>1. /\ t \in DOMAIN H
          /\ \/ Agree(M, C, c)
             \/ c \in 1..Len(M) /\ M[c].id.term = t /\ Quorum(FixedGroup, Supports(i, N, t, c))
      BY <2>1 DEF Busy, Leads
    <3>2. Supports(i, N, t, c) \subseteq Supports(i, W, t, c)
      BY DEF Supports
    <3>3. Quorum(FixedGroup, Supports(i, N, t, c)) => Quorum(FixedGroup, Supports(i, W, t, c))
      BY <3>2, QuorumGrows
    <3> QED BY <1>1, <1>2, <2>1, <3>1, <3>3
  <2>2. CASE r.role # "Leader"
    BY <2>2 DEF Busy, Trails
  <2> QED BY <2>1, <2>2
<1>7. AInv(U, K, W, E, G, B) /\ Agree(C, B, Len(C)) /\ Agree(M, B, c) /\ B \in Seq(Entries)
  <2> HIDE DEF W
  <2> QED BY <1>1, <1>5, <1>6, Commits
<1> HIDE DEF B
<1>8. \A e \in S : e.from = i /\ e.msg.term = t
  BY <1>4 DEF FromDisk
<1>9. DiskSafe(i, r.st, W, B)
  <2>1. ASSUME NEW w \in W, w.from = i, w.msg.type = "Vote" PROVE w.msg.term <= t
    <3>1. CASE w \in S
      BY <1>1, <1>8, <3>1
    <3>2. CASE w \in N
      <4>1. w.msg.term <= d.term /\ w.msg.term \in Nat
        BY <2>1, <3>2, U64Assumption DEF DiskSafe, MsgOK
      <4> QED BY <1>1, <4>1
    <3> QED BY <3>1, <3>2
  <2> QED BY <1>1, <1>7, <2>1 DEF DiskSafe
<1>10. Quiet(i, r, W, E, G)
  <2>1. ASSUME r.role = "Leader" PROVE t \in DOMAIN G /\ M = G[t] /\ MatchedSafe(i, r, W)
    <3>1. t \in DOMAIN H /\ MatchedSafe(i, r, N)
      BY <2>1 DEF Busy, Leads
    <3>2. MatchedSafe(i, r, W)
      BY <3>1 DEF MatchedSafe
    <3> QED BY <1>2, <2>1, <3>1, <3>2
  <2>2. ASSUME r.role = "Candidate" PROVE Contends(i, r, W, E)
    <3>1. Contends(i, r, N, E)
      BY <2>2 DEF Busy, Trails
    <3>2. ASSUME NEW w \in S, IsVote(w, i, t) PROVE w.msg.last = LastId(r.st)
      <4>1. w \in Outgoing(r) /\ w.msg # None
        OBVIOUS
      <4>2. PICK s \in Slot : /\ r.outbox[s] # None /\ w.from = i /\ w.to = r.peers[s] /\ ~r.hooks
                        /\ w.msg = MessageOf(r, s, r.outbox[s]) /\ Honest(r, N, s, r.outbox[s])
        BY <4>1, FromOutbox
      <4> DEFINE o == r.outbox[s]
                 m == w.msg
      <4>3. m.type = "Vote" /\ o.kind \in {"Vote", "Voted", "Replicate", "Replicated"}
        BY <3>2, <4>2 DEF IsVote, Honest
      <4>4. /\ o.kind = "Vote" => m = [type |-> "Vote", term |-> r.st.term, last |-> LastId(r.st)]
            /\ o.kind = "Voted" => m = [type |-> "Voted", term |-> r.st.term, granted |-> o.granted]
            /\ o.kind = "Replicated" =>
                  m = [type |-> "Replicated", term |-> r.st.term, index |-> o.index, rejection |-> o.rejection]
            /\ o.kind = "Replicate" =>
                  \/ m = [type |-> "Install", term |-> r.st.term, snapshot |-> r.st.snapshot]
                  \/ m = [type |-> "Append", term |-> r.st.term, commit |-> r.st.commit,
                             previous |-> IdAt(r.st, r.next[s] - 1), entry |-> Get(r.st, r.next[s])]
        BY <4>1, <4>2, Described
      <4> HIDE DEF o, m
      <4>5. m.last = LastId(r.st)
        BY <4>3, <4>4
      <4> QED BY <4>5 DEF m
    <3> QED BY <3>1, <3>2 DEF Contends
  <2> QED BY <2>1, <2>2 DEF Quiet
<1>11. ASSUME NEW e \in W PROVE MsgSafe(e, E, G, B)
  <2>1. CASE e \in N
    <3>1. MsgOK(e.msg) /\ MsgSafe(e, E, H, C)
      BY <2>1
    <3> QED BY <1>2, <1>3, <1>7, <3>1, MsgStays
  <2>2. CASE e \in S
    <3>1. e \in Outgoing(r) /\ e.msg # None
      BY <2>2
    <3>2. PICK s \in Slot : /\ r.outbox[s] # None /\ e.from = i /\ e.to = r.peers[s] /\ ~r.hooks
                            /\ e.msg = MessageOf(r, s, r.outbox[s]) /\ Honest(r, N, s, r.outbox[s])
      BY <3>1, FromOutbox
    <3> DEFINE o == r.outbox[s]
               m == e.msg
    <3>3. o.kind \in {"Vote", "Voted", "Replicate", "Replicated"} /\ OutSafe(r, d, N, E, H, s, o)
      BY <3>2 DEF Honest, Busy
    <3>4. CASE o.kind = "Replicate"
      <4>1. r.role = "Leader"
        BY <3>2, <3>4 DEF Honest
      <4>2. t \in DOMAIN G /\ G[t] = M /\ r.next[s] \in 1..U64Max
        BY <1>1, <1>2, <4>1, SMTT(30) DEF Busy, Leads
      <4> HIDE DEF o
      <4> QED BY <1>1, <1>3, <1>7, <3>1, <3>2, <3>4, <4>2, ReplicatesTruth DEF o
    <3>5. CASE o.kind # "Replicate"
      <4>1. /\ o.kind = "Vote" => m = [type |-> "Vote", term |-> r.st.term, last |-> LastId(r.st)]
            /\ o.kind = "Voted" => m = [type |-> "Voted", term |-> r.st.term, granted |-> o.granted]
            /\ o.kind = "Replicated" =>
                  m = [type |-> "Replicated", term |-> r.st.term, index |-> o.index, rejection |-> o.rejection]
        BY <3>1, <3>2, Described
      <4> HIDE DEF m, o
      <4>2. /\ m.type \notin {"Append", "Install"} /\ m.term = t
            /\ m.type = "Replicated" => o.kind = "Replicated" /\ m.rejection = o.rejection
        BY <3>3, <3>5, <4>1
      <4>3. m.type = "Replicated" /\ m.rejection = None => [term |-> t, id |-> e.to] \in E
        BY <3>2, <3>3, <4>2 DEF OutSafe
      <4> QED BY <4>2, <4>3 DEF MsgSafe, m
    <3> QED BY <3>4, <3>5
  <2> QED BY <2>1, <2>2
<1>12. /\ AInv(U, K, W, E, G, B) /\ Grows(H, G) /\ DOMAIN G = DOMAIN H
       /\ \A u \in DOMAIN H : [term |-> u, id |-> i] \notin E => G[u] = H[u]
       /\ C \in Seq(Entries) /\ B \in Seq(Entries) /\ Agree(C, B, Len(C))
       /\ DiskSafe(i, r.st, W, B) /\ Quiet(i, r, W, E, G)
       /\ \A e \in W : MsgSafe(e, E, G, B)
       /\ \A e \in S : e.from = i
  BY <1>2, <1>3, <1>7, <1>8, <1>9, <1>10, <1>11
<1>13. FlushedAs(i, r, U, K, N, S, E, H, C, B, G)
  BY <1>12 DEF FlushedAs, W
<1> QED BY <1>13 DEF B

-----------------------------------------------------------------------------
(* Operations of a leader.                                                 *)

(* In a fixed group refresh_membership changes nothing.                    *)
LEMMA RefreshSame ==
  ASSUME FixedGroups, NEW sc \in DOMAIN Scenarios, NEW n, InGroup(n)
  PROVE  LET r == RefreshMembership(n) IN DOMAIN r = NodeFields /\ \A f \in NodeFields : r[f] = n[f]
<1> DEFINE x == [n EXCEPT !.membership = FixedGroup]
<1>1. DOMAIN x = NodeFields /\ x.membership = FixedGroup /\ \A f \in NodeFields \ {"membership"} : x[f] = n[f]
  BY DEF InGroup, NodeFields
<1>2. n.membership = FixedGroup
  BY DEF InGroup
<1>3. \A f \in NodeFields : x[f] = n[f]
  BY <1>1, <1>2
<1> HIDE DEF x
<1>4. x.peers = FixedGroup.slots /\ (x.role = "Leader" => IsVoter(FixedGroup, x.id))
  BY <1>3 DEF InGroup, NodeFields
<1>5. MembershipAt(n, LastId(n.st).index) = [index |-> 0, membership |-> FixedGroup]
  BY DEF MembershipAt, InGroup
<1>6. TrackAll(x, FixedGroup.slots) = x
  BY <1>4, TrackAllKeeps
<1>7. RefreshMembership(n) = StepDownIfRemoved(x, 0)
  BY <1>5, <1>6 DEF RefreshMembership, Adopt, x
<1>8. StepDownIfRemoved(x, 0) = x
  BY <1>1, <1>4 DEF StepDownIfRemoved
<1> QED BY <1>1, <1>3, <1>7, <1>8

(* A greater commit index.                                                 *)
LEMMA CommitCP ==
  ASSUME NEW st, CP(st), NEW c \in Nat, st.commit <= c, c <= LastId(st).index
  PROVE  LET r == [st EXCEPT !.commit = c] IN
         /\ CP(r) /\ r.commit = c /\ r.term = st.term /\ r.vote = st.vote
         /\ r.snapshot = st.snapshot /\ r.entries = st.entries /\ DOMAIN r = StFields
<1> DEFINE r == [st EXCEPT !.commit = c]
<1>1. /\ st.term \in 0..U64Max /\ st.vote \in Id \cup {None} /\ st.cap \in Nat
      /\ st.snapshot \in Snapshots \cup {None} /\ st.entries \in Seq(Entries)
      /\ st = [term |-> st.term, vote |-> st.vote, commit |-> st.commit,
               snapshot |-> st.snapshot, entries |-> st.entries, cap |-> st.cap]
  BY Fields6 DEF CP
<1>2. c \in 0..U64Max /\ (st.term = 0 => st.vote = None)
  <2>1. LastId(st).index \in Nat /\ LastId(st).index <= U64Max /\ (st.term = 0 => st.vote = None)
    BY Measures
  <2> QED BY <2>1, U64Assumption
<1>3. /\ r.term = st.term /\ r.vote = st.vote /\ r.commit = c /\ r.cap = st.cap
      /\ r.snapshot = st.snapshot /\ r.entries = st.entries /\ DOMAIN r = StFields
      /\ r = [term |-> st.term, vote |-> st.vote, commit |-> c,
              snapshot |-> st.snapshot, entries |-> st.entries, cap |-> st.cap]
  BY <1>1 DEF StFields
<1>4. r \in Checkpoints
  BY <1>1, <1>2, <1>3 DEF Checkpoints
<1> HIDE DEF r
<1>5. st.term <= st.term /\ st.cap <= st.cap
  BY <1>1, U64Assumption
<1>6. CP(r)
  BY <1>1, <1>2, <1>3, <1>4, <1>5, HardChanged
<1> QED BY <1>3, <1>6 DEF r

(* commit_to                                                               *)
LEMMA CommitFields ==
  ASSUME FixedGroups, NEW sc \in DOMAIN Scenarios, NEW n, InGroup(n), CP(n.st),
         NEW index \in Nat, index <= LastId(n.st).index
  PROVE  LET r == CommitTo(n, index) IN
         /\ DOMAIN r = NodeFields /\ \A f \in NodeFields \ {"st", "dirty"} : r[f] = n[f]
         /\ index <= n.st.commit => r = n
         /\ CP(r.st) /\ r.st.commit = Max2(n.st.commit, index) /\ r.st.term = n.st.term /\ r.st.vote = n.st.vote
         /\ r.st.snapshot = n.st.snapshot /\ r.st.entries = n.st.entries
<1> DEFINE x == [n EXCEPT !.st.commit = index, !.dirty = TRUE]
           r == CommitTo(n, index)
<1>1. n.st.commit \in Nat /\ index \in Nat
  BY Measures
<1>2. CASE index > n.st.commit
  <2> DEFINE y == [n.st EXCEPT !.commit = index]
  <2>1. /\ CP(y) /\ y.commit = index /\ y.term = n.st.term /\ y.vote = n.st.vote
        /\ y.snapshot = n.st.snapshot /\ y.entries = n.st.entries /\ DOMAIN y = StFields
    BY <1>1, <1>2, CommitCP
  <2>2. DOMAIN x = NodeFields /\ x.st = y /\ x.dirty /\ \A f \in NodeFields \ {"st", "dirty"} : x[f] = n[f]
    BY DEF InGroup, NodeFields
  <2> HIDE DEF x, y
  <2>3. InGroup(x)
    <3>1. \A f \in NodeFields \ Log : x[f] = n[f]
      BY <2>2 DEF NodeFields, Log
    <3>2. Keeps(n, x)
      BY <2>1, <2>2, <3>1, LogKeeps
    <3> QED BY <3>2 DEF Keeps
  <2>4. r = RefreshMembership(x)
    BY <1>2 DEF CommitTo, x
  <2>5. DOMAIN r = NodeFields /\ \A f \in NodeFields : r[f] = x[f]
    BY <2>3, <2>4, RefreshSame
  <2>6. r.st = y
    BY <2>2, <2>5 DEF NodeFields
  <2>7. Max2(n.st.commit, index) = index
    BY <1>1, <1>2 DEF Max2
  <2> HIDE DEF r
  <2>8. /\ DOMAIN r = NodeFields /\ \A f \in NodeFields \ {"st", "dirty"} : r[f] = n[f]
    BY <2>2, <2>5
  <2> QED BY <1>1, <1>2, <2>1, <2>6, <2>7, <2>8 DEF r
<1>3. CASE ~(index > n.st.commit)
  <2>1. r = n
    BY <1>3 DEF CommitTo
  <2>2. Max2(n.st.commit, index) = n.st.commit
    BY <1>1, <1>3 DEF Max2
  <2> QED BY <2>1, <2>2 DEF InGroup
<1> QED BY <1>2, <1>3

(* A leader leads on when its log and its counts stay.                     *)
LEMMA LeadsSame ==
  ASSUME NEW i, NEW n, NEW d, NEW N, NEW H, NEW C, Leads(i, n, d, N, H, C),
         NEW r, r.st = n.st, r.matched = n.matched, r.peers = n.peers
  PROVE  Leads(i, r, d, N, H, C)
<1>1. MatchedSafe(i, r, N)
  BY DEF Leads, MatchedSafe
<1> QED BY <1>1 DEF Leads

(* What has been counted up to the position of a quorum is acknowledged.   *)
LEMMA QuorumSupports ==
  ASSUME FixedGroups, NEW sc \in DOMAIN Scenarios, NEW i \in Id, NEW n, InGroup(n),
         NEW N, \A x \in N : MsgOK(x.msg), MatchedSafe(i, n, N), n.matched \in [Slot -> 0..U64Max],
         Acknowledged(n) \in Nat, Acknowledged(n) # 0
  PROVE  Quorum(FixedGroup, Supports(i, N, n.st.term, Acknowledged(n)))
<1>0. PICK p : p = Acknowledged(n)
  OBVIOUS
<1> DEFINE f == [id \in Id |-> Matched(n, id)]
           S == FixedGroup.voters
           R == {id \in Id : f[id] >= p}
           t == n.st.term
<1>1. FixedGroup \in Memberships /\ ~IsJoint(FixedGroup)
  BY Group
<1>2. S \in SUBSET Id /\ S # {}
  <2>1. S \in SUBSET Id
    BY <1>1 DEF Memberships
  <2>2. FixedGroup \in Configs
    BY GenesisAssumption DEF FixedGroups
  <2> QED BY <2>1, <2>2 DEF Configs
<1>3. \A id \in Id : Matched(n, id) \in Nat /\ (Matched(n, id) # 0 =>
         \E s \in Slot : n.peers[s] = id /\ n.matched[s] = Matched(n, id))
  <2> SUFFICES ASSUME NEW id \in Id
               PROVE  Matched(n, id) \in Nat /\ (Matched(n, id) # 0 =>
                        \E s \in Slot : n.peers[s] = id /\ n.matched[s] = Matched(n, id))
    OBVIOUS
  <2>1. CASE SlotOf(n.peers, id) = 0
    BY <2>1 DEF Matched
  <2>2. CASE SlotOf(n.peers, id) # 0
    <3>1. PICK s \in Slot : s = SlotOf(n.peers, id) /\ n.peers[s] = id
      BY <2>2, SlotFound
    <3>2. Matched(n, id) = n.matched[s]
      BY <2>2, <3>1 DEF Matched
    <3>3. n.matched[s] \in Nat
      BY U64Assumption
    <3> QED BY <3>1, <3>2, <3>3
  <2> QED BY <2>1, <2>2
<1>4. f \in [Id -> Nat]
  BY <1>3
<1>5. p = MajorityIndex(S, f)
  BY <1>0, <1>1 DEF Acknowledged, QuorumIndex, InGroup
<1> HIDE DEF f
<1>6. p \in Nat /\ p # 0 /\ p <= p
  BY <1>0
<1>7. Majority(S, R)
  BY <1>2, <1>4, <1>5, <1>6, MajorityIndexIsGreatest
<1>8. Quorum(FixedGroup, R)
  BY <1>1, <1>7 DEF Quorum
<1>9. R \subseteq Supports(i, N, t, p)
  <2> SUFFICES ASSUME NEW q \in Id, f[q] >= p PROVE q \in Supports(i, N, t, p)
    OBVIOUS
  <2>1. f[q] = Matched(n, q) /\ f[q] \in Nat /\ f[q] # 0
    BY <1>4, <1>6 DEF f
  <2>2. PICK s \in Slot : n.peers[s] = q /\ n.matched[s] = f[q]
    BY <1>3, <2>1
  <2>3. q = i \/ \E x \in N : IsAck(x, q, t, f[q])
    BY <2>1, <2>2 DEF MatchedSafe
  <2>4. ASSUME NEW x \in N, IsAck(x, q, t, f[q]) PROVE IsAck(x, q, t, p)
    <3>1. x.msg.index \in Nat
      BY <2>4 DEF IsAck, MsgOK
    <3>2. f[q] <= x.msg.index
      BY <2>4 DEF IsAck
    <3>3. p <= x.msg.index
      BY <1>6, <2>1, <3>1, <3>2
    <3> QED BY <2>4, <3>3 DEF IsAck
  <2> QED BY <2>3, <2>4 DEF Supports
<1>10. Quorum(FixedGroup, Supports(i, N, t, p))
  BY <1>1, <1>8, <1>9, QuorumGrows
<1> QED BY <1>0, <1>10

(* advance_commit                                                          *)
LEMMA LeadsAdvance ==
  ASSUME FixedGroups, NEW sc \in DOMAIN Scenarios, NEW i \in Id, NEW n, InGroup(n), Typed(n),
         NEW d, NEW N, \A x \in N : MsgOK(x.msg), NEW H, NEW C, Leads(i, n, d, N, H, C)
  PROVE  Leads(i, AdvanceCommit(n), d, N, H, C)
<1>0. PICK p : p = Acknowledged(n)
  OBVIOUS
<1> DEFINE M == FullLog(n.st)
           t == n.st.term
           r == CommitTo(n, p)
<1>1. CASE ~Advances(n)
  BY <1>1 DEF AdvanceCommit
<1>2. CASE Advances(n)
  <2>1. CP(n.st) /\ Whole(n.st) /\ MatchedSafe(i, n, N) /\ n.matched \in [Slot -> 0..U64Max]
    BY DEF Leads
  <2>2. p \in Nat /\ p > n.st.commit /\ IdAt(n.st, p) # None /\ IdAt(n.st, p).term = t
    BY <1>0, <1>2, AcknowledgedTyped DEF Advances, MayCommit
  <2>3. /\ M \in Seq(Entries) /\ LastId(n.st).index = Len(M) /\ Base(n.st).index \in Nat /\ Len(M) \in Nat
        /\ n.st.commit \in Nat /\ Base(n.st).index <= n.st.commit
    BY <2>1, Shape, Reading
  <2>4. /\ p > Len(M) => IdAt(n.st, p) = None
        /\ Base(n.st).index < p /\ p <= Len(M) => IdAt(n.st, p) = M[p].id
    BY <2>1, <2>2, Reading
  <2>5. p \in 1..Len(M) /\ M[p].id.term = t /\ p <= LastId(n.st).index /\ p # 0
    <3> HIDE DEF M
    <3> QED BY <2>2, <2>3, <2>4
  <2>6. Quorum(FixedGroup, Supports(i, N, t, p))
    BY <1>0, <2>1, <2>2, <2>5, QuorumSupports
  <2>7. /\ \A f \in NodeFields \ {"st", "dirty"} : r[f] = n[f]
        /\ CP(r.st) /\ r.st.commit = Max2(n.st.commit, p) /\ r.st.term = t
        /\ r.st.snapshot = n.st.snapshot /\ r.st.entries = n.st.entries
    BY <2>1, <2>2, <2>5, CommitFields
  <2>8. r.matched = n.matched /\ r.peers = n.peers /\ r.st.commit = p
    <3>1. Max2(n.st.commit, p) = p
      BY <2>2, <2>3 DEF Max2
    <3> HIDE DEF r
    <3> QED BY <2>7, <3>1 DEF NodeFields
  <2>9. AdvanceCommit(n) = r
    BY <1>0, <1>2 DEF AdvanceCommit
  <2> HIDE DEF r
  <2>10. FullLog(r.st) = M /\ Whole(r.st)
    BY <2>1, <2>7, LogStays
  <2>11. MatchedSafe(i, r, N)
    BY <2>1, <2>7, <2>8, <2>10 DEF MatchedSafe
  <2>12. Leads(i, r, d, N, H, C)
    BY <2>1, <2>5, <2>6, <2>7, <2>8, <2>10, <2>11 DEF Leads
  <2> QED BY <2>9, <2>12
<1> QED BY <1>1, <1>2

(* The leader counts its own log.                                          *)
LEMMA LeadsMatchSelf ==
  ASSUME NEW i \in Id, NEW n, InGroup(n), n.id = i, NEW d, NEW N, NEW H, NEW C, Leads(i, n, d, N, H, C),
         NEW index \in Nat, index <= Len(FullLog(n.st))
  PROVE  LET r == MatchSelf(n, index) IN Leads(i, r, d, N, H, C)
<1> DEFINE r == MatchSelf(n, index)
           l == Local(n)
<1>1. CASE l = 0
  BY <1>1 DEF MatchSelf
<1>2. CASE l # 0
  <2>1. l \in Slot /\ n.peers[l] = i
    BY <1>2, SlotFound DEF Local
  <2>2. CP(n.st) /\ Whole(n.st) /\ MatchedSafe(i, n, N) /\ n.matched \in [Slot -> 0..U64Max]
    BY DEF Leads
  <2>3. index \in 0..U64Max
    <3>1. LastId(n.st).index = Len(FullLog(n.st)) /\ LastId(n.st).index \in Nat /\ LastId(n.st).index <= U64Max
      BY <2>2, Shape, Measures
    <3> QED BY <3>1, U64Assumption
  <2> HIDE DEF l
  <2>4. r = [n EXCEPT !.matched[l] = index]
    BY <1>2 DEF MatchSelf, l
  <2>5. r.st = n.st /\ r.peers = n.peers /\ r.matched = [n.matched EXCEPT ![l] = index]
    BY <2>4 DEF InGroup, NodeFields
  <2> HIDE DEF r
  <2>6. r.matched \in [Slot -> 0..U64Max] /\ r.matched[l] = index /\ \A s \in Slot \ {l} : r.matched[s] = n.matched[s]
    BY <2>1, <2>2, <2>3, <2>5
  <2>7. MatchedSafe(i, r, N)
    <3>1. ASSUME NEW s \in Slot
          PROVE  \/ r.matched[s] = 0
                 \/ r.peers[s] = i /\ r.matched[s] <= Len(FullLog(r.st))
                 \/ r.peers[s] \in Id /\ \E x \in N : IsAck(x, r.peers[s], r.st.term, r.matched[s])
      <4>1. CASE s = l
        BY <2>1, <2>5, <2>6, <4>1
      <4>2. CASE s # l
        BY <2>2, <2>5, <2>6, <4>2 DEF MatchedSafe
      <4> QED BY <4>1, <4>2
    <3> QED BY <3>1 DEF MatchedSafe
  <2>8. Leads(i, r, d, N, H, C)
    BY <2>5, <2>6, <2>7 DEF Leads
  <2> QED BY <2>8 DEF r
<1> QED BY <1>1, <1>2

(* The leader appends entries of its term.                                 *)
LEMMA LeadsExtend ==
  ASSUME NEW i \in Id, NEW n, NEW d, NEW N, NEW H, NEW C, Leads(i, n, d, N, H, C), Ledger(H),
         NEW batch \in Seq(Entries), Len(n.st.entries) + Len(batch) <= n.st.cap,
         Follows1(n.st, Len(n.st.entries), batch),
         \A k \in 1..Len(batch) : batch[k].id = LogId(LastId(n.st).index + k, n.st.term),
         NEW r, r.st = Suffixed(n.st, Len(n.st.entries), batch), r.matched = n.matched, r.peers = n.peers
  PROVE  /\ Leads(i, r, d, N, H, C) /\ LastId(r.st).index = LastId(n.st).index + Len(batch)
         /\ Len(FullLog(r.st)) = LastId(n.st).index + Len(batch)
<1> DEFINE M == FullLog(n.st)
           F == FullLog(r.st)
           t == n.st.term
           c == n.st.commit
           k == Len(n.st.entries)
           b == Base(n.st).index
           A == H[t]
<1>1. /\ CP(n.st) /\ Whole(n.st) /\ n.matched \in [Slot -> 0..U64Max]
      /\ d.term = t /\ t \in DOMAIN H /\ FullLog(d) = A
      /\ Extends(A, M, t) /\ MatchedSafe(i, n, N)
      /\ \/ Agree(M, C, c)
         \/ c \in 1..Len(M) /\ M[c].id.term = t /\ Quorum(FixedGroup, Supports(i, N, t, c))
  BY DEF Leads
<1>2. /\ b \in Nat /\ k \in Nat /\ k \in 0..k /\ c <= b + k /\ c \in Nat /\ LastId(n.st).index = b + k
  BY <1>1, Measures
<1>3. M \in Seq(Entries) /\ Len(M) = b + k
  BY <1>1, Shape
<1>4. /\ CP(r.st) /\ Whole(r.st) /\ r.st.term = t /\ r.st.commit = c
      /\ F \in Seq(Entries) /\ Len(F) = (b + k) + Len(batch)
      /\ \A j \in 1..b + k : F[j] = M[j]
      /\ \A j \in 1..Len(batch) : F[(b + k) + j] = batch[j]
  <2>1. PICK z : z = Suffixed(n.st, k, batch)
    OBVIOUS
  <2>2. /\ CP(z) /\ Whole(z) /\ z.term = t /\ z.commit = c
        /\ FullLog(z) \in Seq(Entries) /\ Len(FullLog(z)) = (b + k) + Len(batch)
        /\ \A j \in 1..b + k : FullLog(z)[j] = M[j]
        /\ \A j \in 1..Len(batch) : FullLog(z)[(b + k) + j] = batch[j]
    BY <1>1, <1>2, <2>1, LogSuffixed
  <2>3. r.st = z
    BY <2>1
  <2> QED BY <2>2, <2>3
<1>5. LastId(r.st).index = Len(F)
  BY <1>4, Shape
<1>6. A \in Seq(Entries)
  BY <1>1 DEF Ledger, Rooted
<1>7. Len(batch) \in Nat /\ \A j \in 1..Len(batch) : batch[j].id = LogId((b + k) + j, t)
  <2>1. Len(batch) \in Nat
    OBVIOUS
  <2>2. LastId(n.st).index = b + k
    BY <1>2
  <2> QED BY <2>1, <2>2
<1> HIDE DEF M, F, t, c, k, b, A
<1> DEFINE m == b + k
<1>8. m \in Nat /\ Len(M) = m /\ Len(F) = m + Len(batch)
  BY <1>2, <1>3, <1>4
<1>9. Extends(A, F, t)
  <2>1. Agree(A, M, Len(A)) /\ \A j \in 1..Len(M) : j > Len(A) => M[j].id = LogId(j, t)
    BY <1>1 DEF Extends
  <2>2. Agree(A, F, Len(A))
    BY <1>3, <1>4, <1>6, <1>7, <1>8, <2>1 DEF Agree
  <2>3. ASSUME NEW j \in 1..Len(F), j > Len(A) PROVE F[j].id = LogId(j, t)
    <3>1. CASE j <= m
      BY <1>4, <1>8, <2>1, <2>3, <3>1
    <3>2. CASE ~(j <= m)
      <4> DEFINE h == j - m
      <4>1. h \in 1..Len(batch) /\ j = m + h
        BY <1>7, <1>8, <3>2
      <4> HIDE DEF h
      <4>2. F[m + h] = batch[h] /\ batch[h].id = LogId(m + h, t)
        BY <1>4, <1>7, <4>1
      <4> QED BY <4>1, <4>2
    <3> QED BY <3>1, <3>2
  <2> QED BY <2>2, <2>3 DEF Extends
<1>10. MatchedSafe(i, r, N)
  <2>1. r.matched = n.matched /\ r.peers = n.peers /\ r.st.term = n.st.term /\ Len(FullLog(n.st)) <= Len(FullLog(r.st))
        /\ Len(FullLog(n.st)) \in Nat /\ Len(FullLog(r.st)) \in Nat
    BY <1>4, <1>7, <1>8 DEF M, F, t
  <2>2. \A s \in Slot : n.matched[s] \in Nat
    BY <1>1, U64Assumption
  <2>3. \A s \in Slot : n.matched[s] <= Len(FullLog(n.st)) => n.matched[s] <= Len(FullLog(r.st))
    BY <2>1, <2>2
  <2> QED BY <1>1, <2>1, <2>3 DEF MatchedSafe
<1>11. \/ Agree(F, C, c)
       \/ c \in 1..Len(F) /\ F[c].id.term = t /\ Quorum(FixedGroup, Supports(i, N, t, c))
  <2>1. CASE Agree(M, C, c)
    <3>1. Agree(F, C, c)
      BY <1>2, <1>4, <1>7, <1>8, <2>1 DEF Agree
    <3> QED BY <3>1
  <2>2. CASE c \in 1..Len(M) /\ M[c].id.term = t /\ Quorum(FixedGroup, Supports(i, N, t, c))
    BY <1>4, <1>7, <1>8, <2>2
  <2> QED BY <1>1, <2>1, <2>2
<1>12. Leads(i, r, d, N, H, C)
  BY <1>1, <1>4, <1>9, <1>10, <1>11 DEF Leads, F, t, c, A
<1> QED BY <1>2, <1>4, <1>5, <1>12 DEF F

(* barrier                                                                 *)
LEMMA LeadsBarrier ==
  ASSUME FixedGroups, NEW sc \in DOMAIN Scenarios, NEW i \in Id, NEW n, InGroup(n), Typed(n), n.id = i, n.st.term # 0,
         NEW d, NEW N, \A x \in N : MsgOK(x.msg), NEW H, Ledger(H), NEW C, Leads(i, n, d, N, H, C)
  PROVE  Leads(i, Barrier(n), d, N, H, C)
<1>0. PICK st : st = n.st
  OBVIOUS
<1> DEFINE index == LastId(st).index + 1
           e == Entry(index, st.term, None)
           x == [n EXCEPT !.st = Push(@, e), !.dirty = TRUE, !.logFrom = index]
           k == Len(st.entries)
<1>1. CASE LastId(st).term = st.term \/ IsFull(st) \/ index > U64Max
  BY <1>0, <1>1 DEF Barrier
<1>2. CASE ~(LastId(st).term = st.term \/ IsFull(st) \/ index > U64Max)
  <2>1. /\ CP(st) /\ k \in Nat /\ Base(st).index \in Nat /\ LastId(st).index = Base(st).index + k
        /\ st.commit <= Base(st).index + k /\ LastId(st).term <= st.term /\ st.term \in Nat /\ st.term <= U64Max
        /\ LastId(st) \in LogIds /\ k <= st.cap /\ st.cap \in Nat
    <3>1. CP(st)
      BY <1>0 DEF Leads
    <3> QED BY <3>1, Measures
  <2>2. index \in 1..U64Max /\ k # st.cap
    BY <1>2, <2>1, U64Assumption DEF IsFull
  <2>3. e \in Entries /\ e.id = LogId(index, st.term) /\ e.id.index = index /\ e.id.term = st.term
    <3>1. LogId(index, st.term) \in LogIds
      BY <2>1, <2>2 DEF LogIds, LogId
    <3> QED BY <3>1 DEF Entry, Entries, LogId
  <2>4. IdAt(st, Base(st).index + k).term \in Nat /\ IdAt(st, Base(st).index + k).term <= st.term
    <3>1. IdAt(st, Base(st).index + k) = LastId(st)
      BY <2>1, Measures
    <3> QED BY <2>1, <3>1 DEF LogIds
  <2> DEFINE batch == <<e>>
  <2>5. /\ batch \in Seq(Entries) /\ Len(batch) = 1 /\ batch[1] = e
    <3> HIDE DEF e
    <3> QED BY <2>3
  <2>6. Follows1(st, k, batch) /\ k + Len(batch) <= st.cap
    <3>1. Base(st).index + k + 1 = index /\ st.term # 0
      BY <1>0, <2>1
    <3> HIDE DEF e, index, k, batch
    <3>2. k + Len(batch) <= st.cap
      BY <2>1, <2>2, <2>5
    <3>3. /\ batch[1].id.index = Base(st).index + k + 1 /\ Base(st).index + k + 1 <= U64Max
          /\ batch[1].id.term # 0 /\ batch[1].id.term <= st.term
          /\ batch[1].id.term >= IdAt(st, Base(st).index + k).term
      <4>1. batch[1].id.index = index /\ batch[1].id.term = st.term
        BY <2>3, <2>5
      <4>2. index <= U64Max /\ index \in Nat
        BY <2>2
      <4>3. st.term <= st.term /\ st.term >= IdAt(st, Base(st).index + k).term
        BY <2>1, <2>4
      <4> QED BY <3>1, <4>1, <4>2, <4>3
    <3>4. \A j \in 1..Len(batch) : j = 1
      BY <2>5
    <3>5. Follows1(st, k, batch)
      BY <3>3, <3>4 DEF Follows1
    <3> QED BY <3>2, <3>5
  <2>7. Push(st, e) = Suffixed(st, k, batch)
    <3> HIDE DEF e
    <3>1. k \in 0..k
      BY <2>1
    <3> QED BY <2>1, <2>3, <3>1, PushedOne
  <2>8. \A j \in 1..Len(batch) : batch[j].id = LogId(LastId(st).index + j, st.term)
    <3> HIDE DEF e, batch
    <3> QED BY <2>3, <2>5
  <2> HIDE DEF e, batch
  <2>9. /\ DOMAIN x = NodeFields /\ x.st = Push(st, e) /\ x.dirty /\ x.logFrom = index
        /\ \A f \in NodeFields \ {"st", "dirty", "logFrom"} : x[f] = n[f]
    BY <1>0 DEF Typed, NodeFields
  <2> HIDE DEF x
  <2>10. x.matched = n.matched /\ x.peers = n.peers /\ x.id = n.id
    BY <2>9 DEF NodeFields
  <2>11. Leads(i, x, d, N, H, C) /\ LastId(x.st).index = index /\ Len(FullLog(x.st)) = index
    <3>1. /\ Leads(i, x, d, N, H, C) /\ LastId(x.st).index = LastId(st).index + Len(batch)
          /\ Len(FullLog(x.st)) = LastId(st).index + Len(batch)
      <4>1. /\ Len(n.st.entries) + Len(batch) <= n.st.cap /\ Follows1(n.st, Len(n.st.entries), batch)
            /\ \A j \in 1..Len(batch) : batch[j].id = LogId(LastId(n.st).index + j, n.st.term)
            /\ x.st = Suffixed(n.st, Len(n.st.entries), batch)
        BY <1>0, <2>6, <2>7, <2>8, <2>9
      <4>2. batch \in Seq(Entries)
        BY <2>5
      <4>3. /\ Leads(i, x, d, N, H, C) /\ LastId(x.st).index = LastId(n.st).index + Len(batch)
            /\ Len(FullLog(x.st)) = LastId(n.st).index + Len(batch)
        BY <2>10, <4>1, <4>2, LeadsExtend
      <4> QED BY <1>0, <4>3
    <3> QED BY <2>5, <3>1
  <2>12. Keeps(n, x) /\ Typed(x)
    <3>1. DOMAIN x.st = StFields /\ x.st.term = n.st.term /\ x.st.vote = n.st.vote
      <4>1. DOMAIN n.st = StFields
        BY DEF InGroup
      <4> QED BY <1>0, <2>9, <4>1 DEF Push, StFields
    <3>2. \A f \in NodeFields \ Log : x[f] = n[f]
      BY <2>9 DEF NodeFields, Log
    <3>3. Keeps(n, x)
      BY <2>9, <3>1, <3>2, LogKeeps
    <3>4. Typed(x)
      BY <2>9, TypedOn DEF NodeFields
    <3> QED BY <3>3, <3>4
  <2> DEFINE y == MatchSelf(x, index)
  <2>13. InGroup(x) /\ x.id = i
    BY <2>10, <2>12 DEF Keeps
  <2>14. Keeps(x, y) /\ Beside(x, y)
    <3>1. index \in 0..U64Max
      BY <2>2
    <3> QED BY <2>12, <2>13, <3>1, MatchSelfKeeps, MatchSelfBeside
  <2>15. Leads(i, y, d, N, H, C)
    <3>1. index \in Nat /\ index <= Len(FullLog(x.st))
      BY <2>2, <2>11
    <3> HIDE DEF index
    <3> QED BY <2>11, <2>13, <3>1, LeadsMatchSelf
  <2>16. InGroup(y) /\ Typed(y)
    BY <2>14 DEF Keeps, Beside
  <2> HIDE DEF y
  <2>17. Leads(i, AdvanceCommit(y), d, N, H, C)
    BY <2>15, <2>16, LeadsAdvance
  <2>18. Barrier(n) = AdvanceCommit(y)
    BY <1>0, <1>2 DEF Barrier, y, x, e
  <2> QED BY <2>17, <2>18
<1> QED BY <1>1, <1>2

(* The same log, compacted or not.                                         *)
LEMMA LeadsLog ==
  ASSUME NEW i, NEW n, NEW d, NEW N, NEW H, NEW C, Leads(i, n, d, N, H, C),
         NEW r, CP(r.st), Whole(r.st), FullLog(r.st) = FullLog(n.st), r.st.term = n.st.term, r.st.commit = n.st.commit,
         r.matched = n.matched, r.peers = n.peers
  PROVE  Leads(i, r, d, N, H, C)
<1>1. MatchedSafe(i, r, N)
  BY DEF Leads, MatchedSafe
<1> QED BY <1>1 DEF Leads

(* Queueing a message for everybody changes nothing else.                  *)
LEMMA LeadsBroadcast ==
  ASSUME FixedGroups, NEW sc \in DOMAIN Scenarios, NEW i, NEW n, InGroup(n),
         NEW d, NEW N, NEW H, NEW C, Leads(i, n, d, N, H, C)
  PROVE  Leads(i, Broadcast(n), d, N, H, C)
<1> DEFINE ids == Ids(n.membership.slots)
           r == SendAll(n, ids, ReplicateOut)
<1>1. ids \in SUBSET Id
  BY Group DEF InGroup, Memberships
<1> HIDE DEF ids
<1>2. \A f \in NodeFields \ {"outbox"} : r[f] = n[f]
  BY <1>1, SendAllFields
<1>3. Broadcast(n) = r
  BY DEF Broadcast, ids
<1> HIDE DEF r
<1>4. r.st = n.st /\ r.matched = n.matched /\ r.peers = n.peers
  BY <1>2 DEF NodeFields
<1> QED BY <1>3, <1>4, LeadsSame

(* A leader only queues requests, which tell what it has saved.            *)
LEMMA LeaderBusy ==
  ASSUME NEW i, NEW n, Empties(n), n.role = "Leader", NEW r, Keeps(n, r),
         NEW d, NEW N, NEW E, NEW H, NEW C, Leads(i, r, d, N, H, C)
  PROVE  Busy(i, r, d, N, E, H, C)
<1>1. r.role = "Leader"
  BY DEF Keeps
<1>2. \A s \in Slot : r.outbox[s] # None => r.outbox[s] = ReplicateOut
  BY DEF Keeps, Empties
<1>3. ASSUME NEW s \in Slot, r.outbox[s] # None PROVE OutSafe(r, d, N, E, H, s, r.outbox[s])
  <2>1. r.outbox[s].kind = "Replicate"
    BY <1>2, <1>3 DEF ReplicateOut
  <2> QED BY <2>1 DEF OutSafe
<1> QED BY <1>1, <1>3 DEF Busy

(* A leader between operations.                                            *)
LEMMA StartLeads ==
  ASSUME NEW i, NEW n, NEW d, CP(d), n.st = d, Typed(n), n.role = "Leader",
         NEW N, NEW E, NEW H, Ledger(H), NEW C, Quiet(i, n, N, E, H), DiskSafe(i, d, N, C)
  PROVE  Leads(i, n, d, N, H, C)
<1> DEFINE M == FullLog(d)
           t == d.term
<1>1. t \in DOMAIN H /\ M = H[t] /\ MatchedSafe(i, n, N)
  BY DEF Quiet
<1>2. Whole(d) /\ Agree(M, C, d.commit)
  BY DEF DiskSafe
<1>3. M \in Seq(Entries)
  BY <1>2, Shape
<1>4. Extends(M, M, t)
  BY <1>3 DEF Extends, Agree
<1>5. n.matched \in [Slot -> 0..U64Max]
  BY DEF Typed
<1> QED BY <1>1, <1>2, <1>4, <1>5 DEF Leads

(* compact_with replaces a committed prefix by a snapshot of it.           *)
LEMMA CompactedLog ==
  ASSUME NEW d, NEW n, OK(d, n), Whole(n.st), NEW index \in Nat, CanCompact(n, index)
  PROVE  LET sn == [last |-> IdAt(n.st, index), app |-> AppliedThrough(n.st, index),
                    membership |-> MembershipAt(n, index).membership]
             r == Install(n.st, sn)
         IN  /\ CP(r) /\ Whole(r) /\ FullLog(r) = FullLog(n.st) /\ LastId(r) = LastId(n.st)
             /\ r.term = n.st.term /\ r.commit = n.st.commit /\ r.vote = n.st.vote
<1>0. PICK st : st = n.st
  OBVIOUS
<1> DEFINE sn == [last |-> IdAt(st, index), app |-> AppliedThrough(st, index),
                  membership |-> MembershipAt(n, index).membership]
           r == Install(st, sn)
           M == FullLog(st)
           b == Base(st).index
<1>1. /\ CP(st) /\ Whole(st) /\ index > b /\ index <= st.commit
  BY <1>0 DEF OK, Held, CanCompact
<1>2. /\ b \in Nat /\ Len(st.entries) \in Nat /\ LastId(st).index = b + Len(st.entries)
      /\ st.commit \in Nat /\ st.commit <= b + Len(st.entries) /\ st.term \in Nat
  BY <1>1, Measures
<1>3. M \in Seq(Entries) /\ Len(M) \in Nat /\ LastId(st).index = Len(M)
  BY <1>1, Shape
<1>4. index \in b + 1..b + Len(st.entries) /\ b < index /\ b <= index /\ index <= Len(M) /\ index # 0
  <2> HIDE DEF M, b
  <2> QED BY <1>1, <1>2, <1>3
<1>5. /\ IdAt(st, index) = M[index].id /\ AppliedThrough(st, index) = SubSeq(M, 1, index)
  BY <1>1, <1>4, Reading
<1>6. IdAt(st, index) \in LogIds /\ IdAt(st, index).index = index
      /\ IdAt(st, index).term # 0 /\ IdAt(st, index).term <= st.term
  <2>1. /\ Get(st, index) = st.entries[index - Base(st).index] /\ Get(st, index).id.index = index
        /\ IdAt(st, index) = Get(st, index).id /\ IdAt(st, index) \in LogIds
    BY <1>1, <1>4, Retained
  <2>2. index - Base(st).index \in 1..Len(st.entries)
    BY <1>2, <1>4
  <2>3. PICK j : j = index - Base(st).index
    OBVIOUS
  <2>4. st.entries[j].id.term # 0 /\ st.entries[j].id.term <= st.term
    BY <1>1, <2>2, <2>3 DEF CP, Restorable
  <2> QED BY <2>1, <2>3, <2>4
<1>7. sn \in Snapshots /\ sn.last = IdAt(st, index) /\ sn.last.index = index /\ sn.app = SubSeq(M, 1, index)
  <2>1. AppliedThrough(st, index) \in Seq(Entries)
    BY <1>1, <1>2, <1>4, AppliedTyped
  <2>2. MembershipAt(n, index).membership \in Configs
    BY <1>0, <1>1, MembershipTyped DEF OK, Typed
  <2> QED BY <1>5, <1>6, <2>1, <2>2 DEF Snapshots
<1> HIDE DEF sn
<1>8. Holds(st, sn.last) /\ Fits(st, sn)
  <2>1. Holds(st, sn.last)
    BY <1>6, <1>7 DEF Holds
  <2> QED BY <1>1, <1>6, <1>7, <2>1 DEF Fits
<1>9. Len(sn.app) = index /\ \A j \in 1..index : sn.app[j] = M[j]
  <2> HIDE DEF M
  <2> QED BY <1>3, <1>4, <1>7
<1>10. sn.app[sn.last.index].id = sn.last /\ Len(sn.app) = sn.last.index
  BY <1>4, <1>5, <1>7, <1>9
<1>11. /\ CP(r) /\ Whole(r) /\ r.term = st.term /\ r.commit = Max2(st.commit, index) /\ r.vote = st.vote
       /\ FullLog(r) \in Seq(Entries) /\ Len(FullLog(r)) = Len(M)
       /\ \A j \in 1..index : FullLog(r)[j] = sn.app[j]
       /\ \A j \in 1..Len(M) : j > index => FullLog(r)[j] = M[j]
  <2>1. PICK z : z = Install(st, sn)
    OBVIOUS
  <2>2. PICK k : k = sn.last.index
    OBVIOUS
  <2>3. /\ CP(z) /\ Whole(z) /\ z.term = st.term /\ z.commit = Max2(st.commit, k) /\ z.vote = st.vote
        /\ FullLog(z) \in Seq(Entries) /\ \A j \in 1..k : FullLog(z)[j] = sn.app[j]
        /\ Holds(st, sn.last) => Len(FullLog(z)) = Len(FullLog(st)) /\ \A j \in 1..Len(FullLog(st)) : j > k => FullLog(z)[j] = FullLog(st)[j]
    BY <1>1, <1>8, <1>10, <2>1, <2>2, LogInstalled
  <2>4. k = index
    BY <1>7, <2>2
  <2> QED BY <1>8, <2>1, <2>3, <2>4
<1>12. FullLog(r) = M
  <2> DEFINE F == FullLog(r)
  <2> HIDE DEF F, M, r
  <2>1. ASSUME NEW j \in 1..Len(M) PROVE F[j] = M[j]
    <3>1. CASE j <= index
      BY <1>9, <1>11, <3>1 DEF F
    <3>2. CASE ~(j <= index)
      BY <1>3, <1>11, <3>2 DEF F
    <3> QED BY <3>1, <3>2
  <2>2. F \in Seq(Entries) /\ Len(F) = Len(M) /\ M \in Seq(Entries)
    BY <1>3, <1>11 DEF F
  <2>3. F = M
    BY <2>1, <2>2
  <2> QED BY <2>3 DEF F
<1>13. LastId(r) = LastId(st)
  BY <1>1, <1>11, <1>12, Reading
<1>14. Max2(st.commit, index) = st.commit
  BY <1>1, <1>2 DEF Max2
<1> QED BY <1>0, <1>11, <1>12, <1>13, <1>14 DEF sn

(* Barrier and broadcast.                                                  *)
LEMMA HeartbeatBusy ==
  ASSUME FixedGroups, NEW sc \in DOMAIN Scenarios, NEW i \in Id, NEW n, InGroup(n), Typed(n), n.id = i, n.st.term # 0,
         Empties(n), n.role = "Leader",
         NEW d, NEW N, \A x \in N : MsgOK(x.msg), NEW E, NEW H, Ledger(H), NEW C, Leads(i, n, d, N, H, C)
  PROVE  Busy(i, Broadcast(Barrier(n)), d, N, E, H, C)
<1>1. Keeps(n, Barrier(n)) /\ InGroup(Barrier(n))
  BY BarrierKeeps DEF Keeps
<1>2. Leads(i, Barrier(n), d, N, H, C)
  BY LeadsBarrier
<1>3. Leads(i, Broadcast(Barrier(n)), d, N, H, C)
  BY <1>1, <1>2, LeadsBroadcast
<1>4. Keeps(n, n)
  BY DEF Keeps, InGroup
<1>5. Keeps(n, Broadcast(Barrier(n)))
  BY <1>4, LeaderKeeps
<1> QED BY <1>3, <1>5, LeaderBusy

(* A node that has saved everything, before an operation.                  *)
Ready(T, L, i, m, d, N, E, H, C) ==
  /\ AInv(T, L, N, E, H, C) /\ i \in Id /\ T[i] = d.term /\ L[i] = FullLog(d)
  /\ CP(d) /\ OK(d, m) /\ ~m.dirty /\ Sound(i, m, d, N, E) /\ Empties(m)
  /\ Quiet(i, m, N, E, H) /\ DiskSafe(i, d, N, C)
  /\ \A e \in N : MsgOK(e.msg) /\ MsgSafe(e, E, H, C)

(* What an operation may count on.                                         *)
LEMMA ReadyFacts ==
  ASSUME NEW T, NEW L, NEW i, NEW m, NEW d, NEW N, NEW E, NEW H, NEW C, Ready(T, L, i, m, d, N, E, H, C)
  PROVE  /\ i \in Id /\ m.st = d /\ CP(d) /\ Whole(d) /\ FullLog(d) \in Seq(Entries) /\ Typed(m) /\ InGroup(m) /\ m.id = i
         /\ Ledger(H) /\ Rooted(FullLog(d), H) /\ C \in Seq(Entries) /\ d.term \in Nat
         /\ Agree(FullLog(d), C, d.commit) /\ Empties(m) /\ (\A e \in N : MsgOK(e.msg))
         /\ m.role # "Follower" => d.term # 0
         /\ m.role = "Leader" => Leads(i, m, d, N, H, C)
         /\ m.role = "Candidate" => Contends(i, m, N, E)
<1>1. /\ i \in Id /\ m.st = d /\ CP(d) /\ Whole(d) /\ Typed(m) /\ InGroup(m) /\ m.id = i
      /\ Agree(FullLog(d), C, d.commit) /\ Empties(m) /\ (\A e \in N : MsgOK(e.msg))
      /\ m.role # "Follower" => d.term # 0
  BY DEF Ready, OK, Held, Sound, DiskSafe
<1>2. Ledger(H) /\ Rooted(L[i], H) /\ C \in Seq(Entries) /\ L[i] = FullLog(d) /\ Quiet(i, m, N, E, H)
  BY <1>1 DEF Ready, AInv, DisksOK, ChosenOK
<1>3. FullLog(d) \in Seq(Entries) /\ d.term \in Nat
  BY <1>1, Shape, Measures
<1>4. m.role = "Leader" => Leads(i, m, d, N, H, C)
  BY <1>1, <1>2, StartLeads DEF Ready
<1>5. m.role = "Candidate" => Contends(i, m, N, E)
  BY <1>2 DEF Quiet
<1> QED BY <1>1, <1>2, <1>3, <1>4, <1>5

(* propose_many                                                            *)
LEMMA ProposeBusy ==
  ASSUME FixedGroups, NEW sc \in DOMAIN Scenarios,
         NEW T, NEW L, NEW i, NEW n, NEW d, NEW N, NEW E, NEW H, NEW C, Ready(T, L, i, n, d, N, E, H, C),
         NEW values \in Seq(Proposals), CanPropose(n, Len(values))
  PROVE  Busy(i, ProposeMany(n, values), d, N, E, H, C)
<1>0. PICK st : st = n.st
  OBVIOUS
<1> DEFINE first == LastId(st).index + 1
           B == Batch(first, st.term, values)
           k == Len(st.entries)
           x == [n EXCEPT !.st.entries = @ \o B, !.dirty = TRUE, !.logFrom = first]
           y == RefreshMembership(x)
           top == first + Len(values) - 1
           z == MatchSelf(y, top)
<1>1. /\ i \in Id /\ Typed(n) /\ InGroup(n) /\ n.id = i /\ Ledger(H) /\ Empties(n) /\ (\A e \in N : MsgOK(e.msg))
      /\ n.role = "Leader" /\ Leads(i, n, d, N, H, C) /\ CP(st) /\ st.term # 0
      /\ Len(values) \in 1..Remaining(n) /\ LastId(st).index + Len(values) <= U64Max
  <2>1. n.role = "Leader" /\ Len(values) \in 1..Remaining(n) /\ LastId(st).index + Len(values) <= U64Max
    BY <1>0 DEF CanPropose
  <2> QED BY <1>0, <2>1, ReadyFacts
<1>2. k \in Nat /\ LastId(st).index \in Nat /\ st.cap \in Nat
  BY <1>1, Measures
<1>3. Len(values) # 0 /\ k + Len(values) <= st.cap
  BY <1>0, <1>1, <1>2 DEF Remaining
<1>4. /\ B \in Seq(Entries) /\ Len(B) = Len(values) /\ B # <<>> /\ Follows1(st, k, B)
      /\ [st EXCEPT !.entries = @ \o B] = Suffixed(st, k, B)
      /\ \A j \in 1..Len(B) : B[j].id = LogId(LastId(st).index + j, st.term)
  BY <1>1, <1>3, BatchFollows
<1>5. ProposeMany(n, values) = Broadcast(AdvanceCommit(z))
  BY <1>0 DEF ProposeMany, Batch
<1> HIDE DEF B
<1>6. /\ DOMAIN x = NodeFields /\ x.st = Suffixed(st, k, B) /\ x.dirty
      /\ \A f \in NodeFields \ {"st", "dirty", "logFrom"} : x[f] = n[f]
  <2>1. DOMAIN x = NodeFields /\ x.st = [st EXCEPT !.entries = @ \o B] /\ x.dirty
        /\ \A f \in NodeFields \ {"st", "dirty", "logFrom"} : x[f] = n[f]
    BY <1>0, <1>1 DEF Typed, NodeFields
  <2> QED BY <1>4, <2>1
<1> HIDE DEF x
<1>7. x.matched = n.matched /\ x.peers = n.peers /\ x.id = n.id
  BY <1>6 DEF NodeFields
<1>8. Leads(i, x, d, N, H, C) /\ Len(FullLog(x.st)) = top
  <2>1. /\ Len(n.st.entries) + Len(B) <= n.st.cap /\ Follows1(n.st, Len(n.st.entries), B)
        /\ \A j \in 1..Len(B) : B[j].id = LogId(LastId(n.st).index + j, n.st.term)
        /\ x.st = Suffixed(n.st, Len(n.st.entries), B)
    BY <1>0, <1>3, <1>4, <1>6
  <2>2. /\ i \in Id /\ Leads(i, n, d, N, H, C) /\ Ledger(H) /\ B \in Seq(Entries)
        /\ x.matched = n.matched /\ x.peers = n.peers
    BY <1>1, <1>4, <1>7
  <2>4. Leads(i, x, d, N, H, C) /\ Len(FullLog(x.st)) = LastId(n.st).index + Len(B)
    BY <2>1, <2>2, LeadsExtend
  <2>3. LastId(n.st).index + Len(B) = top
    <3>1. Len(B) = Len(values) /\ Len(values) \in Nat /\ LastId(st).index \in Nat
      BY <1>2, <1>4
    <3>2. LastId(st).index + Len(values) = top
      BY <3>1
    <3> QED BY <1>0, <3>1, <3>2
  <2> QED BY <2>4, <2>3
<1>9. Keeps(n, x) /\ InGroup(x) /\ Typed(x)
  <2>1. DOMAIN x.st = StFields /\ x.st.term = n.st.term /\ x.st.vote = n.st.vote
    <3>1. DOMAIN n.st = StFields
      BY <1>1 DEF InGroup
    <3> QED BY <1>0, <1>6, <3>1 DEF Suffixed, StFields
  <2>2. \A f \in NodeFields \ Log : x[f] = n[f]
    BY <1>6 DEF NodeFields, Log
  <2>3. Keeps(n, x)
    BY <1>1, <1>6, <2>1, <2>2, LogKeeps
  <2>4. Typed(x)
    BY <1>1, <1>6, TypedOn DEF NodeFields
  <2> QED BY <2>3, <2>4 DEF Keeps
<1>10. DOMAIN y = NodeFields /\ \A f \in NodeFields : y[f] = x[f]
  BY <1>9, RefreshSame
<1>11. Keeps(x, y)
  BY <1>9, RefreshKeeps
<1> HIDE DEF y
<1>12. y.st = x.st /\ y.matched = x.matched /\ y.peers = x.peers /\ y.id = i
  BY <1>1, <1>7, <1>10 DEF NodeFields
<1>13. Leads(i, y, d, N, H, C) /\ InGroup(y) /\ Typed(y)
  <2>1. Leads(i, y, d, N, H, C)
    BY <1>8, <1>12, LeadsSame
  <2>2. Typed(y)
    BY <1>9, <1>10, TypedOn
  <2> QED BY <1>11, <2>1, <2>2 DEF Keeps
<1>14. top \in Nat /\ top <= Len(FullLog(y.st)) /\ top \in 0..U64Max
  <2>1. top \in Nat /\ top \in 0..U64Max
    BY <1>1, <1>2, U64Assumption
  <2> HIDE DEF top
  <2> QED BY <1>8, <1>12, <2>1
<1> HIDE DEF top
<1>15. Leads(i, z, d, N, H, C)
  BY <1>1, <1>12, <1>13, <1>14, LeadsMatchSelf
<1>16. Keeps(y, z) /\ Typed(z)
  BY <1>13, <1>14, MatchSelfKeeps, MatchSelfBeside DEF Beside
<1> HIDE DEF z
<1>17. Keeps(n, z) /\ InGroup(z)
  <2>1. Keeps(n, y)
    BY <1>1, <1>9, <1>11, KeepsOn
  <2> QED BY <1>1, <1>13, <1>16, <2>1, KeepsOn DEF Keeps
<1>18. Leads(i, AdvanceCommit(z), d, N, H, C)
  BY <1>1, <1>15, <1>16, <1>17, LeadsAdvance
<1>19. Keeps(z, AdvanceCommit(z)) /\ InGroup(AdvanceCommit(z))
  BY <1>17, CommitKeeps DEF Keeps
<1>20. Leads(i, Broadcast(AdvanceCommit(z)), d, N, H, C)
  BY <1>18, <1>19, LeadsBroadcast
<1>21. Keeps(n, Broadcast(AdvanceCommit(z)))
  BY <1>1, <1>17, LeaderKeeps
<1> QED BY <1>1, <1>5, <1>20, <1>21, LeaderBusy

(* A follower or candidate that has queued nothing.                        *)
LEMMA TrailsBusy ==
  ASSUME NEW i, NEW r, Empties(r), r.role # "Leader",
         NEW d, NEW N, NEW E, NEW H, NEW C, Trails(i, r, d, N, E, H, C)
  PROVE  Busy(i, r, d, N, E, H, C)
BY DEF Empties, Busy

(* A node whose log is the one on its disk.                                *)
LEMMA StartTrails ==
  ASSUME NEW T, NEW L, NEW i, NEW m, NEW d, NEW N, NEW E, NEW H, NEW C, Ready(T, L, i, m, d, N, E, H, C),
         NEW r, CP(r.st), Whole(r.st), FullLog(r.st) = FullLog(d), r.st.commit = d.commit, r.role # "Leader",
         r.role = "Candidate" => Contends(i, r, N, E)
  PROVE  Trails(i, r, d, N, E, H, C)
<1>1. Agree(FullLog(d), C, d.commit)
  BY ReadyFacts
<1> QED BY <1>1 DEF Trails

(* compact_with                                                            *)
LEMMA CompactBusy ==
  ASSUME FixedGroups, NEW sc \in DOMAIN Scenarios,
         NEW T, NEW L, NEW i, NEW n, NEW d, NEW N, NEW E, NEW H, NEW C, Ready(T, L, i, n, d, N, E, H, C),
         NEW index \in Nat, CanCompact(n, index)
  PROVE  Busy(i, CompactWith(n, index), d, N, E, H, C)
<1> DEFINE sn == [last |-> IdAt(n.st, index), app |-> AppliedThrough(n.st, index),
                  membership |-> MembershipAt(n, index).membership]
           x == [n EXCEPT !.st = Install(@, sn), !.dirty = TRUE, !.snapChanged = TRUE]
<1>1. /\ i \in Id /\ n.st = d /\ CP(d) /\ Whole(d) /\ Typed(n) /\ InGroup(n) /\ n.id = i /\ Ledger(H) /\ Empties(n)
      /\ (\A e \in N : MsgOK(e.msg)) /\ (n.role # "Follower" => d.term # 0)
      /\ (n.role = "Leader" => Leads(i, n, d, N, H, C)) /\ (n.role = "Candidate" => Contends(i, n, N, E))
  BY ReadyFacts
<1>2. OK(d, n)
  BY DEF Ready
<1>3. PICK z : z = Install(n.st, sn)
  OBVIOUS
<1>4. /\ CP(z) /\ Whole(z) /\ FullLog(z) = FullLog(n.st) /\ LastId(z) = LastId(n.st)
      /\ z.term = n.st.term /\ z.commit = n.st.commit /\ z.vote = n.st.vote
  <2>1. Whole(n.st)
    BY <1>1
  <2> QED BY <1>2, <1>3, <2>1, CompactedLog
<1>5. CompactWith(n, index) = IF n.role = "Leader" THEN Broadcast(Barrier(x)) ELSE x
  BY DEF CompactWith
<1>6. /\ DOMAIN x = NodeFields /\ x.st = z /\ x.dirty
      /\ \A f \in NodeFields \ {"st", "dirty", "snapChanged"} : x[f] = n[f]
  BY <1>1, <1>3 DEF Typed, NodeFields
<1> HIDE DEF x, sn
<1>7. Keeps(n, x) /\ InGroup(x) /\ Typed(x)
  <2>1. DOMAIN x.st = StFields /\ x.st.term = n.st.term /\ x.st.vote = n.st.vote
    <3>1. DOMAIN z = StFields
      BY <1>4, Fields6 DEF CP, StFields
    <3> QED BY <1>4, <1>6, <3>1
  <2>2. \A f \in NodeFields \ Log : x[f] = n[f]
    BY <1>6 DEF NodeFields, Log
  <2>3. Keeps(n, x)
    BY <1>1, <1>6, <2>1, <2>2, LogKeeps
  <2>4. Typed(x)
    BY <1>1, <1>6, TypedOn DEF NodeFields
  <2> QED BY <2>3, <2>4 DEF Keeps
<1>8. x.matched = n.matched /\ x.peers = n.peers /\ x.id = n.id /\ x.role = n.role /\ Empties(x)
  BY <1>1, <1>6 DEF NodeFields, Empties
<1>9. CASE n.role = "Leader"
  <2>1. Leads(i, x, d, N, H, C)
    BY <1>1, <1>4, <1>6, <1>8, <1>9, LeadsLog
  <2>2. x.id = i /\ x.st.term # 0 /\ x.role = "Leader"
    BY <1>1, <1>4, <1>6, <1>8, <1>9
  <2>3. Busy(i, Broadcast(Barrier(x)), d, N, E, H, C)
    BY <1>1, <1>7, <1>8, <2>1, <2>2, HeartbeatBusy
  <2> QED BY <1>5, <1>9, <2>3
<1>10. CASE n.role # "Leader"
  <2>1. x.role = "Candidate" => Contends(i, x, N, E)
    BY <1>1, <1>4, <1>6, <1>8 DEF Contends
  <2>2. /\ CP(x.st) /\ Whole(x.st) /\ FullLog(x.st) = FullLog(d) /\ x.st.commit = d.commit /\ x.role # "Leader"
    BY <1>1, <1>4, <1>6, <1>8, <1>10
  <2>3. Trails(i, x, d, N, E, H, C)
    BY <2>1, <2>2, StartTrails
  <2> QED BY <1>5, <1>8, <1>10, <2>3, TrailsBusy
<1> QED BY <1>9, <1>10

(* replicated: what is counted has been told.                              *)
LEMMA ReplicatedBusy ==
  ASSUME FixedGroups, NEW sc \in DOMAIN Scenarios,
         NEW T, NEW L, NEW i, NEW m, NEW d, NEW N, NEW E, NEW H, NEW C, Ready(T, L, i, m, d, N, E, H, C),
         m.role = "Leader", NEW slot \in Slot, m.peers[slot] \in Id, NEW index \in Nat, NEW rejection,
         rejection = None => \E x \in N : IsAck(x, m.peers[slot], m.st.term, index)
  PROVE  Busy(i, Replicated(m, slot, index, rejection), d, N, E, H, C)
<1> DEFINE n == [m EXCEPT !.active = @ \cup {slot}]
           x(k) == [n EXCEPT !.next[slot] = k]
           y == [n EXCEPT !.matched[slot] = index, !.next[slot] = Max2(@, SaturatingSucc(index))]
           p == Progressed(y, slot, index)
           q == Resend(x(Retry(n, slot, rejection.next)), slot)
           near == index <= LastId(n.st).index /\ rejection = None
           res == Replicated(m, slot, index, rejection)
<1>1. res \in {n, q} \/ (near /\ res = p)
  <2> DEFINE old == index <= n.matched[slot]
             hit == index >= n.matched[slot] /\ index + 1 = n.next[slot]
             far == index > LastId(n.st).index \/ rejection = Full
  <2>1. res = CASE far -> n [] near -> (IF old THEN n ELSE p) [] OTHER -> (IF hit THEN q ELSE n)
    BY DEF Replicated
  <2> HIDE DEF old, hit, far, near, n, p, q, res
  <2> QED BY <2>1
<1>2. /\ i \in Id /\ m.st = d /\ CP(d) /\ Typed(m) /\ InGroup(m) /\ m.id = i /\ Ledger(H) /\ Empties(m)
      /\ (\A e \in N : MsgOK(e.msg)) /\ Leads(i, m, d, N, H, C)
  BY ReadyFacts
<1>3. Keeps(m, res)
  BY <1>2, ReplicatedKeeps
<1>4. DOMAIN n = NodeFields /\ \A f \in NodeFields \ {"active"} : n[f] = m[f]
  BY <1>2 DEF InGroup, NodeFields
<1> HIDE DEF n
<1>5. n.st = m.st /\ n.matched = m.matched /\ n.peers = m.peers /\ n.next = m.next
      /\ n.outbox = m.outbox /\ n.id = m.id /\ n.role = m.role
  BY <1>4 DEF NodeFields
<1>6. Leads(i, n, d, N, H, C)
  BY <1>2, <1>5, LeadsSame
<1>7. Typed(n) /\ InGroup(n)
  <2>1. Typed(n)
    BY <1>2, <1>4, TypedOn
  <2>2. \A f \in NodeFields \ Log : n[f] = m[f]
    BY <1>4 DEF NodeFields, Log
  <2>3. DOMAIN n.st = StFields /\ n.st.term = m.st.term /\ n.st.vote = m.st.vote /\ n.dirty = m.dirty
    BY <1>2, <1>4, <1>5 DEF InGroup, NodeFields
  <2>4. Keeps(m, n)
    BY <1>2, <1>4, <2>2, <2>3, LogKeeps
  <2> QED BY <2>1, <2>4 DEF Keeps
<1>8. Leads(i, q, d, N, H, C)
  <2> DEFINE k == Retry(n, slot, rejection.next)
             z == x(k)
  <2>1. DOMAIN z = NodeFields /\ \A f \in NodeFields \ {"next"} : z[f] = n[f]
    BY <1>4 DEF NodeFields
  <2> HIDE DEF z
  <2>2. q = [z EXCEPT !.outbox[slot] = ReplicateOut]
    BY DEF Resend, z
  <2>3. \A f \in NodeFields \ {"next", "outbox"} : q[f] = n[f]
    BY <2>1, <2>2 DEF NodeFields
  <2> HIDE DEF q
  <2>4. q.st = n.st /\ q.matched = n.matched /\ q.peers = n.peers
    BY <2>3 DEF NodeFields
  <2> QED BY <1>6, <2>4, LeadsSame
<1>9. near => Leads(i, p, d, N, H, C)
  <2> SUFFICES ASSUME near PROVE Leads(i, p, d, N, H, C)
    OBVIOUS
  <2>1. index \in 0..U64Max
    <3>1. LastId(n.st).index \in Nat /\ LastId(n.st).index <= U64Max
      BY <1>2, <1>5, Measures
    <3> QED BY <3>1, U64Assumption
  <2> DEFINE v == Max2(n.next[slot], SaturatingSucc(index))
  <2>2. v \in 1..U64Max
    <3>1. n.next[slot] \in 1..U64Max
      BY <1>7 DEF Typed
    <3> QED BY <2>1, <3>1, U64Assumption DEF Max2, Min2, SaturatingSucc
  <2>3. y = [n EXCEPT !.matched[slot] = index, !.next[slot] = v]
    OBVIOUS
  <2> HIDE DEF v, y
  <2>4. /\ DOMAIN y = NodeFields /\ y.matched = [n.matched EXCEPT ![slot] = index]
        /\ \A f \in NodeFields \ {"matched", "next"} : y[f] = n[f]
    BY <1>4, <2>3 DEF NodeFields
  <2>5. y.st = n.st /\ y.peers = n.peers /\ y.dirty = n.dirty
    BY <2>4 DEF NodeFields
  <2>6. Typed(y)
    <3>1. OutOK(ReplicateOut)
      BY PlainOut
    <3>2. Beside(n, [n EXCEPT !.matched[slot] = index, !.next[slot] = v])
      BY <1>7, <2>1, <2>2, <3>1, ProgressBeside
    <3> QED BY <2>3, <3>2 DEF Beside
  <2>7. InGroup(y)
    <3>1. \A f \in NodeFields \ Log : y[f] = n[f]
      BY <2>4 DEF NodeFields, Log
    <3>2. DOMAIN y.st = StFields /\ y.st.term = n.st.term /\ y.st.vote = n.st.vote
      BY <1>7, <2>5 DEF InGroup
    <3>3. Keeps(n, y)
      BY <1>7, <2>4, <2>5, <3>1, <3>2, LogKeeps
    <3> QED BY <3>3 DEF Keeps
  <2>8. Leads(i, y, d, N, H, C)
    <3>1. n.matched \in [Slot -> 0..U64Max] /\ MatchedSafe(i, n, N)
      BY <1>6 DEF Leads
    <3>2. y.matched \in [Slot -> 0..U64Max] /\ y.matched[slot] = index /\ \A s \in Slot \ {slot} : y.matched[s] = n.matched[s]
      BY <2>1, <2>4, <3>1
    <3>3. \E w \in N : IsAck(w, y.peers[slot], y.st.term, index)
      BY <1>5, <2>5
    <3>4. y.peers[slot] \in Id
      BY <1>5, <2>5
    <3>5. MatchedSafe(i, y, N)
      <4>1. ASSUME NEW s \in Slot
            PROVE  \/ y.matched[s] = 0
                   \/ y.peers[s] = i /\ y.matched[s] <= Len(FullLog(y.st))
                   \/ y.peers[s] \in Id /\ \E w \in N : IsAck(w, y.peers[s], y.st.term, y.matched[s])
        <5>1. CASE s = slot
          BY <3>2, <3>3, <3>4, <5>1
        <5>2. CASE s # slot
          BY <2>5, <3>1, <3>2, <5>2 DEF MatchedSafe
        <5> QED BY <5>1, <5>2
      <4> QED BY <4>1 DEF MatchedSafe
    <3> QED BY <1>6, <2>5, <3>2, <3>5 DEF Leads
  <2>9. Leads(i, Resend(y, slot), d, N, H, C)
    <3> DEFINE z == Resend(y, slot)
    <3>1. z.st = y.st /\ z.matched = y.matched /\ z.peers = y.peers
      BY <2>4 DEF Resend, NodeFields
    <3> HIDE DEF z
    <3>2. Leads(i, z, d, N, H, C)
      BY <2>8, <3>1, LeadsSame
    <3> QED BY <3>2 DEF z
  <2>10. Leads(i, Broadcast(AdvanceCommit(y)), d, N, H, C)
    <3>1. Leads(i, AdvanceCommit(y), d, N, H, C)
      BY <1>2, <2>6, <2>7, <2>8, LeadsAdvance
    <3>2. InGroup(AdvanceCommit(y))
      BY <2>7, CommitKeeps DEF Keeps
    <3> QED BY <3>1, <3>2, LeadsBroadcast
  <2>11. p \in {y, Resend(y, slot), Broadcast(AdvanceCommit(y))}
    BY DEF Progressed
  <2> QED BY <2>8, <2>9, <2>10, <2>11
<1> HIDE DEF p, q, near, res
<1>10. Leads(i, res, d, N, H, C)
  BY <1>1, <1>6, <1>8, <1>9
<1>11. Busy(i, res, d, N, E, H, C)
  BY <1>2, <1>3, <1>10, LeaderBusy
<1> QED BY <1>11 DEF res
=============================================================================
