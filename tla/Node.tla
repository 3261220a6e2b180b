-------------------------------- MODULE Node --------------------------------
(***************************************************************************)
(* jarl/src/node.rs and the operations jarl/src/cluster.rs adds to it.  A  *)
(* node is a record and every method an operator from node to node, so the *)
(* calls a handler makes stay inside the step of the handler.              *)
(*                                                                         *)
(* Arrays indexed by peer slot are functions on Slot, arrays of booleans   *)
(* are the sets of their true slots, and slot 0 stands for the index N of  *)
(* a sender that has no slot.  Time is abstract: "aged" says that          *)
(* leader_age has reached election_ticks, and a tick chooses which of its  *)
(* deadlines it reaches.  "hooks" says that the node serves a Cluster:     *)
(* membership hooks are present.                                           *)
(***************************************************************************)
EXTENDS Membership, LogState

CONSTANTS
  Value,      \* application commands
  MaxAppend   \* MAX_APPEND_ENTRIES

ASSUME MaxAppendAssumption == MaxAppend \in Nat \ {0}

Conflict(next) == [kind |-> "Conflict", next |-> next]
Full == [kind |-> "Full"]

(* Descriptors waiting in the outbox; the message is built when taken.     *)
PreVoteOut(campaign) == [kind |-> "PreVote", campaign |-> campaign]
PreVotedOut(campaign, granted) == [kind |-> "PreVoted", campaign |-> campaign, granted |-> granted]
VoteOut == [kind |-> "Vote"]
VotedOut(granted) == [kind |-> "Voted", granted |-> granted]
ReplicateOut == [kind |-> "Replicate"]
ReplicatedOut(index, rejection) == [kind |-> "Replicated", index |-> index, rejection |-> rejection]

Entry(index, term, value) == [id |-> LogId(index, term), value |-> value]

SlotOf(peers, id) ==
  LET S == {s \in Slot : peers[s] = id} IN IF S = {} THEN 0 ELSE First(S)
Local(n) == SlotOf(n.peers, n.id)
Matched(n, id) == IF SlotOf(n.peers, id) = 0 THEN 0 ELSE n.matched[SlotOf(n.peers, id)]

(* available: the host must have saved and drained the last operation.     *)
Available(n) == ~n.dirty /\ n.extra = None /\ \A s \in Slot : n.outbox[s] = None

-----------------------------------------------------------------------------
(* Membership as the log defines it.                                       *)

(* Positions in the retained log of the records up to index.               *)
RecordsThrough(st, index) ==
  {k \in DOMAIN st.entries : st.entries[k].id.index <= index /\ st.entries[k].value \in Memberships}

Latest(st, records) == st.entries[CHOOSE k \in records : \A j \in records : j <= k]

(* The configuration that the snapshot, or genesis, and the records define,*)
(* with the index where it was recorded.                                   *)
MembershipFrom(n, records) ==
  IF records # {}
  THEN [index |-> Latest(n.st, records).id.index, membership |-> Latest(n.st, records).value]
  ELSE [index |-> Base(n.st).index,
        membership |-> IF n.st.snapshot = None THEN n.bootstrap ELSE n.st.snapshot.membership]

(* The configuration in force at index.                                    *)
MembershipAt(n, index) ==
  IF n.hooks THEN MembershipFrom(n, RecordsThrough(n.st, index))
  ELSE [index |-> 0, membership |-> n.bootstrap]

Follow(n, leader) ==
  [n EXCEPT !.role = "Follower", !.prevoting = None, !.leader = leader,
            !.aged = @ /\ leader = None]

(* Mutant: the new member inherits the progress of the evicted one.        *)
TrackInPlace(n, id) ==
  LET s == First({t \in Slot : ~Includes(n.membership, n.peers[t])})
  IN  IF id = None \/ id \in Ids(n.peers) THEN n ELSE [n EXCEPT !.peers[s] = id]

(* Mutant: a slot is taken away from a member.                             *)
TrackAnywhere(n, id) ==
  LET s == First(Slot \ {Local(n)})
  IN  IF id = None \/ id \in Ids(n.peers) THEN n
      ELSE [n EXCEPT !.peers[s] = id, !.votes = @ \ {s}, !.active = @ \ {s},
                     !.next[s] = 1, !.matched[s] = 0, !.outbox[s] = None]

(* Give a member that has none the first slot that no member needs.        *)
Track(n, id) ==
  LET s == First({t \in Slot : ~Includes(n.membership, n.peers[t])})
  IN  IF id = None \/ id \in Ids(n.peers) THEN n
      ELSE [n EXCEPT !.peers[s] = id, !.votes = @ \ {s}, !.active = @ \ {s},
                     !.next[s] = 1, !.matched[s] = 0, !.outbox[s] = None]

(* A leader steps down once its removal has committed.                     *)
StepDownIfRemoved(n, index) ==
  IF n.role = "Leader" /\ ~IsVoter(n.membership, n.id) /\ index <= n.st.commit
  THEN Follow(n, None) ELSE n

(* Every member in turn.                                                   *)
TrackAll(n, ids) ==
  LET after[s \in 0..MAX] == IF s = 0 THEN n ELSE Track(after[s - 1], ids[s])
  IN  after[MAX]

Adopt(n, at) ==
  StepDownIfRemoved(
    TrackAll([n EXCEPT !.membership = at.membership], at.membership.slots), at.index)

RefreshMembership(n) == Adopt(n, MembershipAt(n, LastId(n.st).index))

-----------------------------------------------------------------------------
(* Commitment and replication.                                             *)

(* Mutant: a configuration that has just committed is not acted on.        *)
CommitToQuietly(n, index) ==
  IF index > n.st.commit THEN [n EXCEPT !.st.commit = index, !.dirty = TRUE] ELSE n

CommitTo(n, index) ==
  IF index > n.st.commit
  THEN RefreshMembership([n EXCEPT !.st.commit = index, !.dirty = TRUE])
  ELSE n

(* Mutant: entries of earlier terms are committed by counting replicas.    *)
MayCommitAnyTerm(n, index) == index > n.st.commit /\ IdAt(n.st, index) # None

(* What a quorum has acknowledged may commit if it is new and of the       *)
(* current term.                                                           *)
MayCommit(n, index) == /\ index > n.st.commit
                       /\ IdAt(n.st, index) # None
                       /\ IdAt(n.st, index).term = n.st.term

Acknowledged(n) == QuorumIndex(n.membership, [id \in Id |-> Matched(n, id)])
Advances(n) == MayCommit(n, Acknowledged(n))
AdvanceCommit(n) == IF Advances(n) THEN CommitTo(n, Acknowledged(n)) ELSE n

(* Record the leader's own log as matched, before it is durable.           *)
MatchSelf(n, index) == IF Local(n) = 0 THEN n ELSE [n EXCEPT !.matched[Local(n)] = index]

Barrier(n) ==
  LET index == LastId(n.st).index + 1
  IN  IF LastId(n.st).term = n.st.term \/ IsFull(n.st) \/ index > U64Max THEN n
      ELSE AdvanceCommit(MatchSelf(
             [n EXCEPT !.st = Push(@, Entry(index, n.st.term, None)),
                       !.dirty = TRUE, !.logFrom = index], index))

(* Queue a descriptor for every other peer that satisfies a test.          *)
SendAll(n, ids, out) ==
  [n EXCEPT !.outbox = [s \in Slot |-> IF s # Local(n) /\ n.peers[s] \in ids THEN out ELSE @[s]]]

Broadcast(n) == SendAll(n, Ids(n.membership.slots), ReplicateOut)
AskVoters(n, out) == SendAll(n, n.membership.voters \cup n.membership.old, out)

BecomeLeader(n) ==
  LET last == LastId(n.st).index
  IN  Broadcast(Barrier(MatchSelf(
        [n EXCEPT !.active = {}, !.role = "Leader", !.leader = n.id,
                  !.next = [s \in Slot |-> SaturatingSucc(last)],
                  !.matched = [s \in Slot |-> 0]], last)))

ElectionQuorum(n) == Quorum(n.membership, {n.peers[s] : s \in n.votes})

(* Mutant: the new term is not marked unsaved.                             *)
CandidateUnsaved(n, term) ==
  [n EXCEPT !.prevoting = None, !.st.term = term, !.st.vote = n.id,
            !.role = "Candidate", !.leader = None, !.votes = {Local(n)}]

Candidate(n, term) ==
  [n EXCEPT !.prevoting = None, !.st.term = term, !.st.vote = n.id, !.dirty = TRUE,
            !.role = "Candidate", !.leader = None, !.votes = {Local(n)}]

Contest(n) == IF ElectionQuorum(n) THEN BecomeLeader(n) ELSE AskVoters(n, VoteOut)

Campaign(n, term) == Contest(Candidate(n, term))

(* Mutant: an entry is known by its index alone.                           *)
HoldsIndex(st, id) == IdAt(st, id.index) # None

(* id_at(index) == Some(id)                                                *)
Holds(st, id) == IdAt(st, id.index) = id

(* Mutant: the membership cache is left as it was.                         *)
OverwriteStale(n, entry) ==
  LET index == entry.id.index
  IN  [n EXCEPT !.st = Push(Truncate(@, index), entry), !.dirty = TRUE,
                !.logFrom = IF @ = None THEN index ELSE Min2(@, index)]

(* Replace the log from an entry's index on by that entry.                 *)
Overwrite(n, entry) ==
  LET index == entry.id.index
  IN  [RefreshMembership([n EXCEPT !.st = Push(Truncate(@, index), entry)])
         EXCEPT !.dirty = TRUE, !.logFrom = IF @ = None THEN index ELSE Min2(@, index)]

(* Outcomes of an append: the node, the index to report, the rejection and *)
(* how far the log is known to agree with the leader's, 0 for a conflict.  *)
Accept(n, matched) == [n |-> n, index |-> matched, rejection |-> None, agreed |-> matched]
Refuse(n, index, why, agreed) == [n |-> n, index |-> index, rejection |-> why, agreed |-> agreed]

(* Where the leader should retry when the predecessor is missing.          *)
RetryHint(st, previous) ==
  IF previous.index < Base(st).index THEN SaturatingSucc(Base(st).index)
  ELSE Max2(Min2(previous.index, SaturatingSucc(LastId(st).index)), 1)

(* An entry whose predecessor is in the log.                               *)
PlaceEntry(n, previous, entry) ==
  LET index == entry.id.index
  IN  CASE Holds(n.st, entry.id) -> Accept(n, index)
        [] ~Holds(n.st, entry.id) /\ index <= n.st.commit ->
             Refuse(n, previous.index, Conflict(index), 0)
        [] ~Holds(n.st, entry.id) /\ index > n.st.commit
             /\ IsFull(n.st) /\ index > LastId(n.st).index ->
             Refuse(n, previous.index, Full, previous.index)
        [] OTHER -> Accept(Overwrite(n, entry), index)

Place(n, previous, entry) ==
  CASE ~Holds(n.st, previous) ->
         Refuse(n, previous.index, Conflict(RetryHint(n.st, previous)), 0)
    [] Holds(n.st, previous) /\ entry = None -> Accept(n, previous.index)
    [] OTHER -> PlaceEntry(n, previous, entry)

(* The leader's commit index counts as far as the logs agree.              *)
CommitAgreed(r, commit) == [r EXCEPT !.n = CommitTo(@, Min2(commit, r.agreed))]

(* append                                                                  *)
AppendOne(n, previous, entry, commit) == CommitAgreed(Place(n, previous, entry), commit)

(* The AppendBatch loop: it stops at the first rejection, and reports it   *)
(* only when nothing was accepted before it.                               *)
Extend(acc, entry, r) ==
  CASE r.rejection = None ->
         [n |-> r.n, index |-> r.index, rejection |-> None,
          previous |-> entry.id, accepted |-> TRUE, stopped |-> FALSE]
    [] r.rejection # None /\ acc.accepted -> [acc EXCEPT !.n = r.n, !.stopped = TRUE]
    [] OTHER -> [acc EXCEPT !.n = r.n, !.stopped = TRUE,
                            !.index = r.index, !.rejection = r.rejection]

AppendAll(n, previous, entries, commit) ==
  LET One(acc, entry) == IF acc.stopped THEN acc
                         ELSE Extend(acc, entry, AppendOne(acc.n, acc.previous, entry, commit))
      after[k \in 0..Len(entries)] ==
        IF k = 0 THEN [n |-> n, index |-> previous.index, rejection |-> None,
                       previous |-> previous, accepted |-> FALSE, stopped |-> FALSE]
        ELSE One(after[k - 1], entries[k])
  IN  after[Len(entries)]

(* Mutant: a dropped suffix is not reported to the host.                   *)
InstallFromKept(n, last) == n.logFrom

(* Where the pending write must start once a snapshot is installed: the    *)
(* whole suffix was dropped unless it continues the snapshot.              *)
InstallFrom(n, last) ==
  CASE Holds(n.st, last) -> n.logFrom
    [] ~Holds(n.st, last) /\ last.index < U64Max -> last.index + 1
    [] OTHER -> None

TakeSnapshot(n, snapshot) ==
  [RefreshMembership([n EXCEPT !.st = Install(@, snapshot),
                               !.logFrom = InstallFrom(n, snapshot.last)])
     EXCEPT !.snapChanged = TRUE, !.dirty = TRUE]

(* Install: refuse what contradicts committed history, take what is newer  *)
(* than the boundary and agrees with it, acknowledge the rest.             *)
InstallSnapshot(n, snapshot) ==
  LET last == snapshot.last
  IN  CASE last.index <= n.st.commit /\ IdAt(n.st, last.index) \notin {None, last} ->
             [n |-> n, index |-> last.index,
              rejection |-> Conflict(SaturatingSucc(Base(n.st).index))]
        [] last.index > Base(n.st).index /\ (last.index > n.st.commit \/ Holds(n.st, last)) ->
             [n |-> TakeSnapshot(n, snapshot), index |-> last.index, rejection |-> None]
        [] OTHER -> [n |-> n, index |-> last.index, rejection |-> None]

(* Mutant: a rejection may take the position back below what is matched.   *)
RetryUnclamped(n, s, wanted) == Min2(wanted, SaturatingSucc(LastId(n.st).index))

(* Where to probe after a conflict: clamp(matched + 1, last + 1).          *)
Retry(n, s, wanted) ==
  Max2(SaturatingSucc(n.matched[s]), Min2(wanted, SaturatingSucc(LastId(n.st).index)))

Resend(n, s) == [n EXCEPT !.outbox[s] = ReplicateOut]

(* A new acknowledgement: commit if it completes a quorum and tell         *)
(* everyone, else send the peer what it still lacks.                       *)
Progressed(n, s, index) ==
  CASE Advances(n) -> Broadcast(AdvanceCommit(n))
    [] ~Advances(n) /\ index < LastId(n.st).index -> Resend(n, s)
    [] OTHER -> n

(* replicated: a peer's acknowledgement or rejection reaches the leader.   *)
Replicated(n0, s, index, rejection) ==
  LET n == [n0 EXCEPT !.active = @ \cup {s}]
  IN  CASE index > LastId(n.st).index \/ rejection = Full -> n
        [] index <= LastId(n.st).index /\ rejection = None ->
             IF index <= n.matched[s] THEN n
             ELSE Progressed([n EXCEPT !.matched[s] = index,
                                       !.next[s] = Max2(@, SaturatingSucc(index))], s, index)
        [] OTHER -> IF index >= n.matched[s] /\ index + 1 = n.next[s]
                    THEN Resend([n EXCEPT !.next[s] = Retry(n, s, rejection.next)], s) ELSE n

-----------------------------------------------------------------------------
(* step                                                                    *)

ValidId(id, term) == id = Genesis \/ (id.index > 0 /\ id.term \in 1..term)
Chained(previous, entries, term) ==
  \A k \in DOMAIN entries :
    LET before == IF k = 1 THEN previous ELSE entries[k - 1].id
    IN  /\ ValidId(entries[k].id, term)
        /\ entries[k].id.index = before.index + 1
        /\ entries[k].id.term >= before.term

Valid(msg) ==
  IF msg.type = "PreVoted" THEN msg.campaign > 0
  ELSE /\ msg.term > 0
       /\ msg.type \in {"PreVote", "Vote"} => ValidId(msg.last, msg.term)
       /\ msg.type = "Append" =>
            /\ ValidId(msg.previous, msg.term)
            /\ msg.entry # None => Chained(msg.previous, <<msg.entry>>, msg.term)
       /\ msg.type = "AppendBatch" =>
            /\ ValidId(msg.previous, msg.term)
            /\ Chained(msg.previous, msg.entries, msg.term)
            /\ msg.entries # <<>>
       /\ msg.type = "Install" =>
            msg.snapshot.last.index > 0 /\ ValidId(msg.snapshot.last, msg.term)
       /\ msg.type = "Replicated" /\ msg.rejection \notin {None, Full} => msg.rejection.next > 0

Requests == {"Vote", "PreVote", "Append", "AppendBatch", "Install"}

(* A sender without a slot may only ask, and only in a Cluster.            *)
Accepts(n, env) ==
  /\ env.to = n.id
  /\ env.from # n.id
  /\ Available(n)
  /\ SlotOf(n.peers, env.from) # 0 \/ (n.hooks /\ env.msg.type \in Requests)
  /\ Valid(env.msg)

(* send and reply.                                                         *)
Send(n, slot, from, out) ==
  IF slot = 0 THEN [n EXCEPT !.extra = [to |-> from, out |-> out]]
  ELSE [n EXCEPT !.outbox[slot] = out]
Reply(r, slot, from) == Send(r.n, slot, from, ReplicatedOut(r.index, r.rejection))

(* What a request of an older term is told.                                *)
RefuseStale(n, slot, from, msg) ==
  LET refusal(index) == Send(n, slot, from, ReplicatedOut(index, Conflict(1)))
  IN  CASE msg.type = "Vote" -> Send(n, slot, from, VotedOut(FALSE))
        [] msg.type \in {"Append", "AppendBatch"} -> refusal(msg.previous.index)
        [] msg.type = "Install" -> refusal(msg.snapshot.last.index)
        [] OTHER -> n

OnPreVote(n, slot, from, msg) ==
  LET granted == /\ msg.term > n.st.term
                 /\ n.role # "Leader"
                 /\ n.aged
                 /\ UpToDate(msg.last, LastId(n.st))
  IN  Send(n, slot, from, PreVotedOut(msg.term, granted))

Count(n, slot) == [n EXCEPT !.votes = @ \cup {slot}]

OnPreVoted(n, slot, msg) ==
  CASE n.prevoting # msg.campaign \/ ~msg.granted -> n
    [] n.prevoting = msg.campaign /\ msg.granted /\ ElectionQuorum(Count(n, slot)) ->
         Campaign(Count(n, slot), msg.campaign)
    [] OTHER -> Count(n, slot)

(* Mutant: the vote already cast in this term is not looked at.            *)
OnVoteTwice(n, slot, from, msg) ==
  LET granted == UpToDate(msg.last, LastId(n.st))
      voted   == IF granted THEN [n EXCEPT !.st.vote = from, !.dirty = TRUE] ELSE n
  IN  Send(voted, slot, from, VotedOut(granted))

OnVote(n, slot, from, msg) ==
  LET granted == n.st.vote \in {None, from} /\ UpToDate(msg.last, LastId(n.st))
      voted   == IF granted /\ n.st.vote # from
                 THEN [n EXCEPT !.st.vote = from, !.dirty = TRUE] ELSE n
  IN  Send(voted, slot, from, VotedOut(granted))

OnVoted(n, slot, msg) ==
  CASE n.role # "Candidate" \/ ~msg.granted -> n
    [] n.role = "Candidate" /\ msg.granted /\ ElectionQuorum(Count(n, slot)) ->
         BecomeLeader(Count(n, slot))
    [] OTHER -> Count(n, slot)

(* Mutant: the leader of the old term is still hinted at.                  *)
AdoptTermKeepingLeader(n, term) ==
  IF term > n.st.term
  THEN Follow([n EXCEPT !.st.term = term, !.st.vote = None, !.dirty = TRUE], n.leader)
  ELSE n

(* A greater term is adopted before anything else is looked at.            *)
AdoptTerm(n, term) ==
  IF term > n.st.term
  THEN Follow([n EXCEPT !.st.term = term, !.st.vote = None, !.dirty = TRUE], None)
  ELSE n

Step(n0, env) ==
  LET msg    == env.msg
      from   == env.from
      slot   == SlotOf(n0.peers, from)    \* before the handler moves any slot
      n      == AdoptTerm(n0, msg.term)
      loyal  == Follow(n, from)
      quiet  == n0.hooks /\ msg.type = "Vote" /\ (n0.role = "Leader" \/ ~n0.aged)
  IN  CASE msg.type = "PreVote" -> OnPreVote(n0, slot, from, msg)
        [] quiet -> n0
        [] msg.type = "PreVoted" -> OnPreVoted(n, slot, msg)
        [] msg.type \notin {"PreVote", "PreVoted"} /\ ~quiet /\ msg.term < n.st.term ->
             RefuseStale(n, slot, from, msg)
        [] OTHER ->
             CASE msg.type = "Vote" -> OnVote(n, slot, from, msg)
               [] msg.type = "Voted" -> OnVoted(n, slot, msg)
               [] msg.type = "Append" ->
                    Reply(AppendOne(loyal, msg.previous, msg.entry, msg.commit), slot, from)
               [] msg.type = "AppendBatch" ->
                    Reply(AppendAll(loyal, msg.previous, msg.entries, msg.commit), slot, from)
               [] msg.type = "Install" -> Reply(InstallSnapshot(loyal, msg.snapshot), slot, from)
               [] msg.type = "Replicated" ->
                    IF n.role = "Leader" THEN Replicated(n, slot, msg.index, msg.rejection) ELSE n

-----------------------------------------------------------------------------
(* tick.  check: quorum_elapsed reaches election_ticks.  due: elapsed      *)
(* reaches heartbeat_ticks (leader) or the election deadline (others).     *)
(* ages: leader_age reaches election_ticks; the deadline is never earlier, *)
(* so a due election always ages.                                          *)

ActiveQuorum(n) == Quorum(n.membership, {n.id} \cup {n.peers[s] : s \in n.active})

(* Mutant: a leader that lost its quorum goes on.                          *)
LeaderTickStays(n, check, due) ==
  LET checked == IF n.hooks /\ check THEN [n EXCEPT !.active = {}] ELSE n
  IN  IF due THEN Broadcast(Barrier(checked)) ELSE checked

(* Mutant: heartbeats do not repeat what was sent before.                  *)
LeaderTickSilent(n, check, due) ==
  LET checked == IF n.hooks /\ check THEN [n EXCEPT !.active = {}] ELSE n
  IN  IF n.hooks /\ check /\ ~ActiveQuorum(n) THEN Follow(checked, None)
      ELSE IF due THEN Barrier(checked) ELSE checked

LeaderTick(n, check, due) ==
  LET checked == IF n.hooks /\ check THEN [n EXCEPT !.active = {}] ELSE n
  IN  IF n.hooks /\ check /\ ~ActiveQuorum(n) THEN Follow(checked, None)
      ELSE IF due THEN Broadcast(Barrier(checked)) ELSE checked

(* Mutant: the term is not checked for overflow.                           *)
MayCampaignBeyond(n) == IsVoter(n.membership, n.id)

(* The term it campaigns for exists: checked_add did not fail.             *)
MayCampaign(n) == IsVoter(n.membership, n.id) /\ n.st.term < U64Max

(* Mutant: a probe under way is not repeated.                              *)
ElectionTickOnce(n) ==
  LET term  == n.st.term + 1
      probe == [n EXCEPT !.role = "Follower", !.prevoting = term, !.votes = {Local(n)}]
  IN  IF ~n.hooks \/ ElectionQuorum(probe) THEN Campaign(n, term)
      ELSE IF n.prevoting = term THEN n ELSE AskVoters(probe, PreVoteOut(term))

ElectionTick(n) ==
  LET term  == n.st.term + 1
      probe == [n EXCEPT !.role = "Follower", !.prevoting = term, !.votes = {Local(n)}]
  IN  IF ~n.hooks \/ ElectionQuorum(probe) THEN Campaign(n, term)
      ELSE AskVoters(probe, PreVoteOut(term))

Tick(n0, check, due, ages) ==
  LET n == [n0 EXCEPT !.aged = @ \/ ages]
  IN  IF n.role = "Leader" THEN LeaderTick(n, check, due)
      ELSE IF due /\ MayCampaign(n) THEN ElectionTick(n) ELSE n

-----------------------------------------------------------------------------
(* Local operations.                                                       *)

Remaining(n) == n.st.cap - Len(n.st.entries)

(* propose_many: a batch is admitted whole or refused.                     *)
CanPropose(n, count) ==
  /\ Available(n)
  /\ n.role = "Leader"
  /\ count \in 1..Remaining(n)
  /\ LastId(n.st).index + count <= U64Max

ProposeMany(n, values) ==
  LET first == LastId(n.st).index + 1
      batch == [k \in 1..Len(values) |-> Entry(first + k - 1, n.st.term, values[k])]
      added == RefreshMembership([n EXCEPT !.st.entries = @ \o batch,
                                           !.dirty = TRUE, !.logFrom = first])
  IN  Broadcast(AdvanceCommit(MatchSelf(added, first + Len(values) - 1)))

(* Node::propose_batch, and Cluster::propose_batch, which keeps a reserve. *)
CanAdmit(n, count) == CanPropose(n, count) /\ (n.hooks => count <= Remaining(n) - 3)

(* The application state at index, which a host hands to compact: here the *)
(* entries applied, in their order.                                        *)
AppliedThrough(st, index) ==
  (IF st.snapshot = None THEN <<>> ELSE st.snapshot.app) \o
  SubSeq(st.entries, 1, index - Base(st).index)

(* Mutant: entries may be compacted before they are committed.             *)
CanCompactAny(n, index) == Available(n) /\ index \in (Base(n.st).index + 1)..LastId(n.st).index

CanCompact(n, index) == Available(n) /\ index > Base(n.st).index /\ index <= n.st.commit

CompactWith(n, index) ==
  LET snapshot == [last |-> IdAt(n.st, index), app |-> AppliedThrough(n.st, index),
                   membership |-> MembershipAt(n, index).membership]
      compacted == [n EXCEPT !.st = Install(@, snapshot), !.dirty = TRUE, !.snapChanged = TRUE]
  IN  IF n.role = "Leader" THEN Broadcast(Barrier(compacted)) ELSE compacted

(* change_available: the latest configuration is stable and committed, and *)
(* the leader has committed an entry of its own term.                      *)
ChangeAvailable(n) ==
  LET at == MembershipAt(n, LastId(n.st).index)
  IN  /\ Available(n) /\ n.role = "Leader"
      /\ ~IsJoint(at.membership) /\ at.index <= n.st.commit
      /\ IdAt(n.st, n.st.commit).term = n.st.term

CanSetLearners(n, learners) ==
  /\ ChangeAvailable(n)
  /\ Cardinality(n.membership.voters) + Len(learners) <= MAX
  /\ WithLearners(n.membership, learners) # None
  /\ Remaining(n) > 2
  /\ CanPropose(n, 1)
SetLearners(n, learners) == ProposeMany(n, <<WithLearners(n.membership, learners)>>)

CanReconfigure(n, target) ==
  /\ ChangeAvailable(n)
  /\ ~IsJoint(target)
  /\ \A id \in target.voters \ n.membership.voters :
       id \in n.membership.learners /\ Matched(n, id) >= LastId(n.st).index
  /\ Remaining(n) >= 3
  /\ Joint(n.membership, target) # None
  /\ CanPropose(n, 1)
Reconfigure(n, target) == ProposeMany(n, <<Joint(n.membership, target)>>)

(* Mutant: the joint configuration need not have committed.                *)
CanFinishEarly(n) ==
  CanPropose(n, 1) /\ IsJoint(MembershipAt(n, LastId(n.st).index).membership)

CanFinish(n) ==
  LET at == MembershipAt(n, LastId(n.st).index)
  IN  CanPropose(n, 1) /\ IsJoint(at.membership) /\ at.index <= n.st.commit
FinishReconfiguration(n) == ProposeMany(n, <<Finalized(n.membership)>>)

GrowNode(n, cap) == [n EXCEPT !.st = Grow(@, cap)]

-----------------------------------------------------------------------------
(* The host's side: saving, draining, restarting.                          *)

Pending(n) == Write(n.st, n.logFrom, n.snapChanged)
Persisted(n) == [n EXCEPT !.dirty = FALSE, !.logFrom = None, !.snapChanged = FALSE]

(* Mutant: the boundary itself is taken to be in the log.                  *)
NeedsSnapshotBelow(st, next) == next < Base(st).index

(* Replication from next needs an entry that compaction has dropped.       *)
NeedsSnapshot(st, next) == next <= Base(st).index

(* next_message: the message of one descriptor, None when it yields none.  *)
MessageOf(n, slot, out) ==
  LET st   == n.st
      next == n.next[slot]
      upTo == Min2(next + MaxAppend - 1, LastId(st).index)
  IN  CASE out.kind = "PreVote" -> [type |-> "PreVote", term |-> out.campaign, last |-> LastId(st)]
        [] out.kind = "PreVoted" -> [type |-> "PreVoted", term |-> st.term,
                                     campaign |-> out.campaign, granted |-> out.granted]
        [] out.kind = "Vote" -> [type |-> "Vote", term |-> st.term, last |-> LastId(st)]
        [] out.kind = "Voted" -> [type |-> "Voted", term |-> st.term, granted |-> out.granted]
        [] out.kind = "Replicated" -> [type |-> "Replicated", term |-> st.term,
                                       index |-> out.index, rejection |-> out.rejection]
        [] out.kind = "Replicate" /\ NeedsSnapshot(st, next) ->
             IF st.snapshot = None THEN None
             ELSE [type |-> "Install", term |-> st.term, snapshot |-> st.snapshot]
        [] out.kind = "Replicate" /\ ~NeedsSnapshot(st, next) /\ IdAt(st, next - 1) = None -> None
        [] OTHER ->
             IF n.hooks /\ next < U64Max /\ Get(st, next + 1) # None
             THEN [type |-> "AppendBatch", term |-> st.term, commit |-> st.commit,
                   previous |-> IdAt(st, next - 1),
                   entries |-> [k \in 1..(upTo - next + 1) |-> Get(st, next + k - 1)]]
             ELSE [type |-> "Append", term |-> st.term, commit |-> st.commit,
                   previous |-> IdAt(st, next - 1), entry |-> Get(st, next)]

(* Everything the drain loop takes from the outbox, in envelopes.  Only    *)
(* replies to a sender without a slot wait in extra.                       *)
Outgoing(n) ==
  {[from |-> n.id, to |-> n.peers[s], msg |-> MessageOf(n, s, n.outbox[s])] :
     s \in {t \in Slot : n.outbox[t] # None}} \cup
  (IF n.extra = None THEN {}
   ELSE {[from |-> n.id, to |-> n.extra.to, msg |-> MessageOf(n, 1, n.extra.out)]})
Drained(n) == [n EXCEPT !.outbox = [s \in Slot |-> None], !.extra = None]

(* The arrays [1; N] and [0; N].                                           *)
Ones == [s \in Slot |-> 1]
Zeros == [s \in Slot |-> 0]

(* build: a follower that remembers nothing but its checkpoint.            *)
Build(id, st, genesis, hooks) ==
  RefreshMembership(
    [id |-> id, st |-> st, bootstrap |-> genesis, hooks |-> hooks,
     role |-> "Follower", leader |-> None, membership |-> genesis,
     peers |-> genesis.slots, votes |-> {}, active |-> {},
     next |-> Ones, matched |-> Zeros,
     outbox |-> [s \in Slot |-> None], extra |-> None,
     dirty |-> FALSE, logFrom |-> None, snapChanged |-> FALSE,
     prevoting |-> None, aged |-> TRUE])
=============================================================================
