------------------------------ MODULE LogProofs ------------------------------
(***************************************************************************)
(* The logs of a group whose membership is fixed, over every operation,    *)
(* save, message, crash and restart: RaftSafety, Durability,               *)
(* MatchedIsDurable, AcksReachTheirLeader and the refinement of            *)
(* ReplicatedLog.                                                          *)
(*                                                                         *)
(* The argument is about a ledger H that no variable holds: H[t] is the    *)
(* log that the leader of term t has on disk, which only grows.  The       *)
(* invariant LInv says that some ledger explains the state.  AInv is its   *)
(* core: every entry of a log comes from the leader of its term with all   *)
(* that was before it (Rooted); an acknowledged entry stays with the node  *)
(* that acknowledged it, unless a later leader lacks it (AcksOK, Safe);    *)
(* and each leader had a quorum of voters whose acknowledged entries it    *)
(* has, with the same exception (TermsOK, Inherits).  The least leader     *)
(* without a decided entry refutes itself (Decisive), so there is none.    *)
(* RaftProofs shows what single operations and messages do to these facts; *)
(* here are elections, whole steps of the group, and the theorems.         *)
(***************************************************************************)
EXTENDS RaftProofs

(* A checkpoint with another hard state.                                   *)
Stamped(st, t, v) == [st EXCEPT !.term = t, !.vote = v]

(* A later term, or a vote, over the same log.                             *)
LEMMA TermCP ==
  ASSUME NEW st, CP(st), NEW t \in Nat, st.term <= t, t <= U64Max, NEW v \in Id \cup {None}, t = 0 => v = None
  PROVE  LET r == Stamped(st, t, v) IN
         /\ CP(r) /\ r.commit = st.commit /\ r.term = t /\ r.vote = v /\ DOMAIN r = StFields
         /\ FullLog(r) = FullLog(st) /\ LastId(r) = LastId(st) /\ (Whole(st) => Whole(r))
<1> DEFINE r == Stamped(st, t, v)
<1>2. /\ st.commit \in Nat /\ st.commit <= LastId(st).index /\ st.commit <= st.commit /\ st.cap <= st.cap
      /\ st \in Checkpoints /\ st.cap \in Nat
  BY Measures
<1>4. t \in 0..U64Max
  BY U64Assumption
<1>3. /\ r \in Checkpoints /\ r.term = t /\ r.vote = v /\ r.commit = st.commit /\ r.cap = st.cap
      /\ r.snapshot = st.snapshot /\ r.entries = st.entries
  BY <1>2, <1>4 DEF Checkpoints, Stamped
<1> HIDE DEF r
<1>5. DOMAIN r = StFields
  BY <1>3, Fields6 DEF StFields
<1>6. CP(r)
  BY <1>2, <1>3, <1>4, HardChanged
<1>7. FullLog(r) = FullLog(st) /\ LastId(r) = LastId(st) /\ (Whole(st) => Whole(r))
  BY <1>3, LogStays
<1> QED BY <1>3, <1>5, <1>6, <1>7 DEF r

(* Asking the voters of a fixed group.                                     *)
LEMMA AskedFields ==
  ASSUME FixedGroups, NEW sc \in DOMAIN Scenarios, NEW c, InGroup(c)
  PROVE  LET r == AskVoters(c, VoteOut) IN
         /\ \A f \in NodeFields \ {"outbox"} : r[f] = c[f]
         /\ \A s \in Slot : r.outbox[s] = c.outbox[s] \/ r.outbox[s] = VoteOut
<1> DEFINE ids == c.membership.voters \cup c.membership.old
           r == SendAll(c, ids, VoteOut)
<1>1. ids \in SUBSET Id
  BY Group DEF IsJoint, Memberships, InGroup
<1>2. AskVoters(c, VoteOut) = r
  BY DEF AskVoters
<1> HIDE DEF ids
<1>3. /\ DOMAIN r = NodeFields /\ \A f \in NodeFields \ {"outbox"} : r[f] = c[f]
      /\ DOMAIN r.outbox = Slot
      /\ \A s \in Slot : r.outbox[s] = c.outbox[s] \/ (r.outbox[s] = VoteOut /\ c.peers[s] \in Id)
  BY <1>1, SendAllFields
<1> QED BY <1>2, <1>3

(* campaign in a group where nobody is a quorum alone.                     *)
LEMMA CampaignBusy ==
  ASSUME FixedGroups, NEW sc \in DOMAIN Scenarios,
         NEW T, NEW L, NEW i \in Id, NEW d, NEW N, NEW E, NEW H, NEW C, AInv(T, L, N, E, H, C),
         T[i] = d.term, L[i] = FullLog(d), CP(d), DiskSafe(i, d, N, C), \A e \in N : MsgOK(e.msg),
         NEW n, n.st = d, InGroup(n), n.id = i, Empties(n), MayCampaign(n)
  PROVE  Busy(i, Campaign(n, n.st.term + 1), d, N, E, H, C) /\ Campaign(n, n.st.term + 1).role = "Candidate"
<1>0. PICK term : term = n.st.term + 1
  OBVIOUS
<1> DEFINE c == Candidate(n, term)
           r == AskVoters(c, VoteOut)
<1>1. /\ FixedGroup \in Memberships /\ FixedGroup.old = {} /\ FixedGroup.voters \in SUBSET Id
      /\ FixedGroup.voters \subseteq Ids(FixedGroup.slots) /\ DOMAIN FixedGroup.slots = Slot
  BY Group DEF IsJoint, Memberships
<1>2. d.term \in Nat /\ term \in Nat /\ term <= U64Max /\ d.term <= term /\ d.term < term /\ term # 0
  <2>1. d.term \in Nat
    BY Measures
  <2> QED BY <1>0, <2>1, U64Assumption DEF MayCampaign
<1>3. n.peers = FixedGroup.slots /\ \E s \in Slot : n.peers[s] = i
  BY <1>1 DEF Ids, InGroup, MayCampaign, IsVoter
<1>4. Local(n) \in Slot /\ n.peers[Local(n)] = i
  BY <1>3, SlotFound DEF Local
<1>5. /\ DOMAIN c = NodeFields /\ c.st = [n.st EXCEPT !.term = term, !.vote = n.id]
      /\ c.role = "Candidate" /\ c.votes = {Local(n)}
      /\ \A f \in NodeFields \ {"prevoting", "st", "dirty", "role", "leader", "votes"} : c[f] = n[f]
  BY DEF Candidate, InGroup, NodeFields
<1> HIDE DEF c
<1>6. /\ CP(c.st) /\ c.st.commit = d.commit /\ c.st.term = term /\ DOMAIN c.st = StFields
      /\ FullLog(c.st) = FullLog(d) /\ LastId(c.st) = LastId(d) /\ Whole(c.st)
  <2> DEFINE z == Stamped(d, term, i)
  <2>2. /\ CP(z) /\ z.commit = d.commit /\ z.term = term /\ DOMAIN z = StFields
        /\ FullLog(z) = FullLog(d) /\ LastId(z) = LastId(d) /\ (Whole(d) => Whole(z))
    <3>1. i \in Id \cup {None} /\ (term = 0 => i = None)
      BY <1>2
    <3> QED BY <1>2, <3>1, TermCP
  <2>3. c.st = z /\ Whole(d)
    BY <1>5 DEF DiskSafe, Stamped
  <2> HIDE DEF z
  <2> QED BY <2>2, <2>3
<1>7. /\ c.id = i /\ c.bootstrap = n.bootstrap /\ c.hooks = n.hooks
      /\ c.membership = n.membership /\ c.peers = n.peers
      /\ c.outbox = n.outbox /\ c.extra = n.extra
  BY <1>5 DEF NodeFields
<1>8. InGroup(c)
  BY <1>5, <1>6, <1>7 DEF InGroup, MayCampaign
<1>9. ~ElectionQuorum(c)
  <2>1. {c.peers[s] : s \in c.votes} = {i}
    BY <1>4, <1>5, <1>7
  <2>2. ElectionQuorum(c) <=> Quorum(FixedGroup, {i})
    BY <2>1, <1>8 DEF ElectionQuorum, InGroup
  <2> QED BY <2>2 DEF FixedGroups
<1>10. Campaign(n, term) = r
  BY <1>9 DEF Campaign, Contest, c
<1>12. /\ \A f \in NodeFields \ {"outbox"} : r[f] = c[f]
       /\ \A s \in Slot : r.outbox[s] = c.outbox[s] \/ r.outbox[s] = VoteOut
  BY <1>8, AskedFields
<1> HIDE DEF r
<1>13. r.role = "Candidate" /\ r.st = c.st
  BY <1>5, <1>12 DEF NodeFields
<1>14. \A s \in Slot : r.outbox[s] # None => r.outbox[s] = VoteOut
  BY <1>7, <1>12 DEF Empties
<1>15. Contends(i, r, N, E)
  <2>1. \A k \in 1..Len(FullLog(d)) : FullLog(d)[k].id.term <= d.term /\ FullLog(d)[k].id.term \in Nat
    <3>1. FullLog(d) \in Seq(Entries)
      BY Shape DEF DiskSafe
    <3>2. \A k \in 1..Len(L[i]) : L[i][k].id.term <= T[i]
      BY DEF AInv, DisksOK
    <3> QED BY <3>1, <3>2, EntryTyped
  <2>2. \A k \in 1..Len(FullLog(d)) : FullLog(d)[k].id.term < term
    BY <1>2, <2>1
  <2>3. [term |-> term, id |-> i] \notin E
    <3>1. \A x \in E : x.term <= T[x.id]
      BY DEF AInv, LeadersOK
    <3>2. [term |-> term, id |-> i] \in E => term <= T[i]
      BY <3>1
    <3> QED BY <1>2, <3>2
  <2>4. ASSUME NEW w \in N, IsVote(w, i, term) PROVE FALSE
    <3>1. w.from = i /\ w.msg.type = "Vote" /\ w.msg.term = term
      BY <2>4 DEF IsVote
    <3>2. term <= d.term
      BY <3>1 DEF DiskSafe
    <3> QED BY <1>2, <3>2
  <2>5. FullLog(r.st) = FullLog(d) /\ r.st.term = term
    BY <1>6, <1>13
  <2> QED BY <2>2, <2>3, <2>4, <2>5 DEF Contends
<1>16. Trails(i, r, d, N, E, H, C)
  <2>1. Agree(FullLog(d), C, d.commit)
    BY DEF DiskSafe
  <2>2. CP(r.st) /\ Whole(r.st) /\ FullLog(r.st) = FullLog(d) /\ r.st.commit = d.commit
    BY <1>6, <1>13
  <2> QED BY <1>15, <2>1, <2>2 DEF Trails
<1>17. ASSUME NEW s \in Slot, r.outbox[s] # None PROVE OutSafe(r, d, N, E, H, s, r.outbox[s])
  <2>1. r.outbox[s] = VoteOut
    BY <1>14, <1>17
  <2> QED BY <1>13, <2>1 DEF OutSafe, VoteOut
<1>18. Busy(i, r, d, N, E, H, C)
  BY <1>13, <1>16, <1>17 DEF Busy
<1> QED BY <1>0, <1>10, <1>13, <1>18

(* tick                                                                    *)
LEMMA TickBusy ==
  ASSUME FixedGroups, NEW sc \in DOMAIN Scenarios,
         NEW T, NEW L, NEW i, NEW m, NEW d, NEW N, NEW E, NEW H, NEW C, Ready(T, L, i, m, d, N, E, H, C),
         NEW check, NEW due, NEW ages
  PROVE  LET r == Tick(m, check, due, ages) IN
         Busy(i, r, d, N, E, H, C) /\ (r.role = "Leader" => m.role = "Leader" /\ r.st.term = m.st.term /\ r.id = i)
<1> DEFINE n == [m EXCEPT !.aged = @ \/ ages]
<1>1. Tick(m, check, due, ages) =
        IF n.role = "Leader" THEN LeaderTick(n, check, due)
        ELSE IF due /\ MayCampaign(n) THEN ElectionTick(n) ELSE n
  BY DEF Tick
<1>2. /\ i \in Id /\ m.st = d /\ CP(d) /\ Whole(d) /\ Typed(m) /\ InGroup(m) /\ m.id = i /\ Ledger(H) /\ Empties(m)
      /\ (\A e \in N : MsgOK(e.msg)) /\ (m.role # "Follower" => d.term # 0)
      /\ (m.role = "Leader" => Leads(i, m, d, N, H, C)) /\ (m.role = "Candidate" => Contends(i, m, N, E))
  BY ReadyFacts
<1>3. DOMAIN n = NodeFields /\ \A f \in NodeFields \ {"aged"} : n[f] = m[f]
  BY <1>2 DEF InGroup, NodeFields
<1> HIDE DEF n
<1>4. /\ n.st = m.st /\ n.matched = m.matched /\ n.peers = m.peers /\ n.id = m.id /\ n.role = m.role
      /\ n.outbox = m.outbox /\ n.dirty = m.dirty /\ n.hooks = m.hooks
  BY <1>3 DEF NodeFields
<1>5. Typed(n) /\ InGroup(n) /\ Empties(n) /\ ~n.hooks
  <2>1. Typed(n)
    BY <1>2, <1>3, TypedOn
  <2>2. \A f \in NodeFields \ Log : n[f] = m[f]
    BY <1>3 DEF NodeFields, Log
  <2>3. DOMAIN n.st = StFields /\ n.st.term = m.st.term /\ n.st.vote = m.st.vote /\ n.dirty = m.dirty
    BY <1>2, <1>4 DEF InGroup
  <2>4. Keeps(m, n)
    BY <1>2, <1>3, <2>2, <2>3, LogKeeps
  <2> QED BY <1>2, <1>4, <2>1, <2>4 DEF Keeps, Empties, InGroup
<1>6. Keeps(n, n)
  BY <1>5 DEF Keeps, InGroup
<1>7. CASE n.role = "Leader"
  <2>1. LeaderTick(n, check, due) = IF due THEN Broadcast(Barrier(n)) ELSE n
    BY <1>5 DEF LeaderTick
  <2>2. Leads(i, n, d, N, H, C)
    BY <1>2, <1>4, <1>7, LeadsSame
  <2>3. Busy(i, n, d, N, E, H, C)
    BY <1>5, <1>6, <1>7, <2>2, LeaderBusy
  <2>4. n.id = i /\ n.st.term # 0
    BY <1>2, <1>4, <1>7
  <2>5. Busy(i, Broadcast(Barrier(n)), d, N, E, H, C)
    BY <1>2, <1>5, <1>7, <2>2, <2>4, HeartbeatBusy
  <2>6. Keeps(n, Broadcast(Barrier(n)))
    BY <1>5, <1>6, <1>7, LeaderKeeps
  <2>7. LET r == Broadcast(Barrier(n)) IN r.st.term = n.st.term /\ r.id = n.id
    BY <2>6 DEF Keeps
  <2> QED BY <1>1, <1>2, <1>4, <1>7, <2>1, <2>3, <2>5, <2>7
<1>8. CASE n.role # "Leader" /\ due /\ MayCampaign(n)
  <2>1. ElectionTick(n) = Campaign(n, n.st.term + 1)
    BY <1>5 DEF ElectionTick
  <2>2. AInv(T, L, N, E, H, C) /\ T[i] = d.term /\ L[i] = FullLog(d) /\ DiskSafe(i, d, N, C)
    BY DEF Ready
  <2>3. n.st = d /\ n.id = i
    BY <1>2, <1>4
  <2>4. Busy(i, Campaign(n, n.st.term + 1), d, N, E, H, C) /\ Campaign(n, n.st.term + 1).role = "Candidate"
    BY <1>2, <1>5, <1>8, <2>2, <2>3, CampaignBusy
  <2> QED BY <1>1, <1>8, <2>1, <2>4
<1>9. CASE n.role # "Leader" /\ ~(due /\ MayCampaign(n))
  <2>1. n.role = "Candidate" => Contends(i, n, N, E)
    BY <1>2, <1>4 DEF Contends
  <2>2. CP(n.st) /\ Whole(n.st) /\ FullLog(n.st) = FullLog(d) /\ n.st.commit = d.commit
    BY <1>2, <1>4
  <2>3. Trails(i, n, d, N, E, H, C)
    BY <1>9, <2>1, <2>2, StartTrails
  <2> QED BY <1>1, <1>5, <1>9, <2>3, TrailsBusy
<1> QED BY <1>7, <1>8, <1>9

-----------------------------------------------------------------------------
(* Messages.                                                               *)

(* Only the role, the log, the counts and the outbox matter.               *)
LEMMA BusySame ==
  ASSUME NEW i, NEW n, NEW d, NEW N, NEW E, NEW H, NEW C, Busy(i, n, d, N, E, H, C),
         NEW r, r.st = n.st, r.matched = n.matched, r.peers = n.peers, r.role = n.role, r.outbox = n.outbox
  PROVE  Busy(i, r, d, N, E, H, C)
<1>1. r.role = "Leader" => Leads(i, r, d, N, H, C)
  BY LeadsSame DEF Busy
<1>2. r.role # "Leader" => Trails(i, r, d, N, E, H, C)
  BY DEF Busy, Trails, Contends
<1>3. \A s \in Slot : r.outbox[s] # None => OutSafe(r, d, N, E, H, s, r.outbox[s])
  BY DEF Busy, OutSafe
<1> QED BY <1>1, <1>2, <1>3 DEF Busy

(* A descriptor is queued.                                                 *)
LEMMA SendBusy ==
  ASSUME NEW i, NEW n, InGroup(n), Empties(n), NEW d, NEW N, NEW E, NEW H, NEW C, Busy(i, n, d, N, E, H, C),
         NEW slot \in Slot, NEW from, NEW out, OutSafe(n, d, N, E, H, slot, out)
  PROVE  LET r == Send(n, slot, from, out) IN Busy(i, r, d, N, E, H, C) /\ r.role = n.role /\ r.st = n.st
<1> DEFINE r == Send(n, slot, from, out)
<1>1. slot # 0
  BY MaxAssumption DEF Slot
<1>2. r = [n EXCEPT !.outbox[slot] = out]
  BY <1>1 DEF Send
<1>3. /\ r.st = n.st /\ r.matched = n.matched /\ r.peers = n.peers /\ r.role = n.role
      /\ r.outbox[slot] = out /\ \A s \in Slot \ {slot} : r.outbox[s] = n.outbox[s]
  BY <1>2 DEF InGroup, NodeFields
<1> HIDE DEF r
<1>4. r.role = "Leader" => Leads(i, r, d, N, H, C)
  BY <1>3, LeadsSame DEF Busy
<1>5. r.role # "Leader" => Trails(i, r, d, N, E, H, C)
  BY <1>3 DEF Busy, Trails, Contends
<1>6. ASSUME NEW s \in Slot, r.outbox[s] # None PROVE OutSafe(r, d, N, E, H, s, r.outbox[s])
  <2>1. s = slot
    BY <1>3, <1>6 DEF Empties
  <2> QED BY <1>3, <2>1 DEF OutSafe
<1>7. Busy(i, r, d, N, E, H, C)
  BY <1>4, <1>5, <1>6 DEF Busy
<1> QED BY <1>3, <1>7 DEF r

(* Refusals claim nothing.                                                 *)
LEMMA RefusalSafe ==
  ASSUME NEW n, NEW d, NEW N, NEW E, NEW H, NEW s, NEW index
  PROVE  /\ OutSafe(n, d, N, E, H, s, VotedOut(FALSE))
         /\ \A why \in Rejections : OutSafe(n, d, N, E, H, s, ReplicatedOut(index, why))
<1>1. \A why \in Rejections : why # None
  BY NothingAssumption
<1>2. OutSafe(n, d, N, E, H, s, VotedOut(FALSE))
  BY DEF OutSafe, VotedOut
<1>3. ASSUME NEW why \in Rejections PROVE OutSafe(n, d, N, E, H, s, ReplicatedOut(index, why))
  BY <1>1 DEF OutSafe, ReplicatedOut
<1> QED BY <1>2, <1>3

(* A node with the log of its disk, perhaps in a later term.               *)
Poised(i, n, d, N, E, H, C) ==
  /\ InGroup(n) /\ n.id = i /\ Empties(n) /\ OK(d, n) /\ d.term <= n.st.term
  /\ CP(n.st) /\ Whole(n.st) /\ FullLog(n.st) = FullLog(d) /\ LastId(n.st) = LastId(d) /\ n.st.commit = d.commit
  /\ Busy(i, n, d, N, E, H, C)

(* Adopting a term.                                                        *)
LEMMA AdoptBusy ==
  ASSUME FixedGroups, NEW sc \in DOMAIN Scenarios,
         NEW T, NEW L, NEW i, NEW m, NEW d, NEW N, NEW E, NEW H, NEW C, Ready(T, L, i, m, d, N, E, H, C),
         NEW term \in 0..U64Max
  PROVE  LET n == AdoptTerm(m, term) IN
         /\ Poised(i, n, d, N, E, H, C) /\ n.peers = m.peers
         /\ n = m \/ (n.role = "Follower" /\ n.st.term = term /\ d.term < term)
<1> DEFINE n == AdoptTerm(m, term)
<1>1. /\ i \in Id /\ m.st = d /\ CP(d) /\ Whole(d) /\ Typed(m) /\ InGroup(m) /\ m.id = i /\ Empties(m) /\ d.term \in Nat
      /\ (m.role = "Leader" => Leads(i, m, d, N, H, C)) /\ (m.role = "Candidate" => Contends(i, m, N, E))
  BY ReadyFacts
<1>2. Sound(i, m, d, N, E) /\ OK(d, m)
  BY DEF Ready
<1>3. Sound(i, n, d, N, E) /\ Empties(n) /\ n.peers = m.peers /\ OK(d, n)
  BY <1>1, <1>2, AdoptSound, AdoptTermOK
<1>4. CASE term > m.st.term
  <2> DEFINE z == Stamped(d, term, None)
  <2>1. term \in Nat /\ term <= U64Max /\ d.term <= term /\ term # 0 /\ d.term < term
    BY <1>1, <1>4, U64Assumption
  <2>2. /\ CP(z) /\ z.commit = d.commit /\ z.term = term
        /\ FullLog(z) = FullLog(d) /\ LastId(z) = LastId(d) /\ (Whole(d) => Whole(z))
    <3>1. None \in Id \cup {None} /\ (term = 0 => None = None)
      OBVIOUS
    <3> QED BY <1>1, <2>1, <3>1, TermCP
  <2>3. n = Follow([m EXCEPT !.st.term = term, !.st.vote = None, !.dirty = TRUE], None)
    BY <1>4 DEF AdoptTerm
  <2>4. n.st = z /\ n.role = "Follower"
    BY <1>1, <2>3 DEF Follow, InGroup, NodeFields, Stamped
  <2> HIDE DEF n, z
  <2>5. Trails(i, n, d, N, E, H, C)
    BY <1>1, <2>2, <2>4, StartTrails
  <2>6. Busy(i, n, d, N, E, H, C)
    BY <1>3, <2>4, <2>5, TrailsBusy
  <2>7. InGroup(n) /\ n.id = i
    BY <1>3 DEF Sound
  <2>8. Poised(i, n, d, N, E, H, C)
    BY <1>1, <1>3, <2>1, <2>2, <2>4, <2>6, <2>7 DEF Poised
  <2> QED BY <1>3, <2>1, <2>2, <2>4, <2>8 DEF n
<1>5. CASE ~(term > m.st.term)
  <2>1. n = m
    BY <1>5 DEF AdoptTerm
  <2>2. Busy(i, m, d, N, E, H, C)
    <3>1. CASE m.role = "Leader"
      <4>1. Keeps(m, m)
        BY <1>1 DEF Keeps, InGroup
      <4> QED BY <1>1, <3>1, <4>1, LeaderBusy
    <3>2. CASE m.role # "Leader"
      <4>1. Trails(i, m, d, N, E, H, C)
        BY <1>1, <3>2, StartTrails
      <4> QED BY <1>1, <3>2, <4>1, TrailsBusy
    <3> QED BY <3>1, <3>2
  <2>3. Poised(i, m, d, N, E, H, C)
    BY <1>1, <1>2, <2>2 DEF Poised
  <2> QED BY <2>1, <2>3
<1> QED BY <1>4, <1>5

(* A request of an older term.                                             *)
LEMMA RefuseBusy ==
  ASSUME NEW i, NEW n, NEW d, NEW N, NEW E, NEW H, NEW C, Poised(i, n, d, N, E, H, C),
         NEW slot \in Slot, NEW from, NEW msg
  PROVE  LET r == RefuseStale(n, slot, from, msg) IN
         Busy(i, r, d, N, E, H, C) /\ r.role = n.role /\ r.st = n.st
<1> DEFINE a == Send(n, slot, from, VotedOut(FALSE))
           b(index) == Send(n, slot, from, ReplicatedOut(index, Conflict(1)))
           r == RefuseStale(n, slot, from, msg)
<1>1. InGroup(n) /\ Empties(n) /\ Busy(i, n, d, N, E, H, C)
  BY DEF Poised
<1>2. Conflict(1) \in Rejections
  BY DEF Conflict, Rejections
<1>3. Busy(i, a, d, N, E, H, C) /\ a.role = n.role /\ a.st = n.st
  <2>0. PICK o : o = VotedOut(FALSE)
    OBVIOUS
  <2>1. OutSafe(n, d, N, E, H, slot, o)
    BY <2>0, RefusalSafe
  <2>2. LET y == Send(n, slot, from, o) IN Busy(i, y, d, N, E, H, C) /\ y.role = n.role /\ y.st = n.st
    BY <1>1, <2>1, SendBusy
  <2> QED BY <2>0, <2>2
<1>4. \A index : Busy(i, b(index), d, N, E, H, C) /\ b(index).role = n.role /\ b(index).st = n.st
  <2> TAKE index
  <2>1. OutSafe(n, d, N, E, H, slot, ReplicatedOut(index, Conflict(1)))
    BY <1>2, RefusalSafe
  <2> QED BY <1>1, <2>1, SendBusy
<1>5. r \in {a, b(msg.previous.index), b(msg.snapshot.last.index), n}
  <2> HIDE DEF a
  <2> QED BY DEF RefuseStale, a
<1> HIDE DEF a, b, r
<1>6. Busy(i, r, d, N, E, H, C) /\ r.role = n.role /\ r.st = n.st
  BY <1>1, <1>3, <1>4, <1>5
<1> QED BY <1>6 DEF r

(* A vote changes no log, and is granted to an up-to-date request.         *)
LEMMA OnVoteBusy ==
  ASSUME NEW i, NEW n, NEW d, NEW N, NEW E, NEW H, NEW C, Poised(i, n, d, N, E, H, C),
         NEW slot \in Slot, NEW from \in Id, n.peers[slot] = from, n.st.term # 0,
         NEW env \in N, IsVote(env, from, n.st.term)
  PROVE  LET r == OnVote(n, slot, from, env.msg) IN
         Busy(i, r, d, N, E, H, C) /\ r.role = n.role /\ r.st.term = n.st.term
<1> DEFINE granted == n.st.vote \in {None, from} /\ UpToDate(env.msg.last, LastId(n.st))
           x == [n EXCEPT !.st.vote = from, !.dirty = TRUE]
           voted == IF granted /\ n.st.vote # from THEN x ELSE n
           r == OnVote(n, slot, from, env.msg)
<1>1. /\ InGroup(n) /\ Empties(n) /\ Busy(i, n, d, N, E, H, C) /\ CP(n.st) /\ Whole(n.st)
      /\ FullLog(n.st) = FullLog(d) /\ LastId(n.st) = LastId(d)
  BY DEF Poised
<1>2. r = Send(voted, slot, from, VotedOut(granted))
  BY DEF OnVote
<1>3. n.st.term \in Nat /\ n.st.term <= U64Max
  BY <1>1, Measures
<1> DEFINE z == Stamped(n.st, n.st.term, from)
<1>4. /\ CP(z) /\ z.commit = n.st.commit /\ z.term = n.st.term
      /\ FullLog(z) = FullLog(n.st) /\ LastId(z) = LastId(n.st) /\ (Whole(n.st) => Whole(z))
  <2>1. PICK t : t = n.st.term
    OBVIOUS
  <2>2. t \in Nat /\ t <= U64Max /\ n.st.term <= t /\ from \in Id \cup {None} /\ (t = 0 => from = None)
    BY <1>3, <2>1
  <2>3. LET y == Stamped(n.st, t, from) IN
        /\ CP(y) /\ y.commit = n.st.commit /\ y.term = t
        /\ FullLog(y) = FullLog(n.st) /\ LastId(y) = LastId(n.st) /\ (Whole(n.st) => Whole(y))
    BY <1>1, <2>2, TermCP
  <2> QED BY <2>1, <2>3
<1>5. /\ DOMAIN x = NodeFields /\ x.st = [n.st EXCEPT !.vote = from] /\ x.dirty
      /\ \A f \in NodeFields \ {"st", "dirty"} : x[f] = n[f]
  BY <1>1 DEF InGroup, NodeFields
<1>6. x.st = z
  <2>1. PICK st : st = n.st
    OBVIOUS
  <2>2. st = [term |-> st.term, vote |-> st.vote, commit |-> st.commit,
              snapshot |-> st.snapshot, entries |-> st.entries, cap |-> st.cap]
    BY <1>1, <2>1, Fields6 DEF CP
  <2>3. [st EXCEPT !.vote = from] = [st EXCEPT !.term = st.term, !.vote = from]
    BY <2>2
  <2> QED BY <1>5, <2>1, <2>3 DEF Stamped
<1> HIDE DEF x, z
<1>7. /\ x.matched = n.matched /\ x.peers = n.peers /\ x.role = n.role /\ x.outbox = n.outbox /\ x.id = n.id
  BY <1>5 DEF NodeFields
<1>8. InGroup(x) /\ Empties(x)
  <2>1. x.bootstrap = n.bootstrap /\ x.membership = n.membership /\ x.hooks = n.hooks /\ x.extra = n.extra
    BY <1>5 DEF NodeFields
  <2>2. DOMAIN x.st = StFields
    BY <1>1, <1>5 DEF InGroup
  <2> QED BY <1>1, <1>5, <1>7, <2>1, <2>2 DEF InGroup, Empties
<1>9. Busy(i, x, d, N, E, H, C)
  <2>1. CASE x.role = "Leader"
    <3>1. Leads(i, n, d, N, H, C)
      BY <1>1, <1>7, <2>1 DEF Busy
    <3>2. Leads(i, x, d, N, H, C)
      BY <1>1, <1>4, <1>6, <1>7, <3>1, LeadsLog
    <3> QED BY <1>8, <2>1, <3>2 DEF Busy, Empties
  <2>2. CASE x.role # "Leader"
    <3>1. Trails(i, n, d, N, E, H, C)
      BY <1>1, <1>7, <2>2 DEF Busy
    <3>2. x.role = "Candidate" => Contends(i, x, N, E)
      <4>1. n.role = "Candidate" => Contends(i, n, N, E)
        BY <3>1 DEF Trails
      <4> QED BY <1>4, <1>6, <1>7, <4>1 DEF Contends
    <3>3. Trails(i, x, d, N, E, H, C)
      BY <1>1, <1>4, <1>6, <3>1, <3>2 DEF Trails
    <3> QED BY <1>8, <2>2, <3>3, TrailsBusy
  <2> QED BY <2>1, <2>2
<1>10. /\ InGroup(voted) /\ Empties(voted) /\ Busy(i, voted, d, N, E, H, C) /\ voted.peers = n.peers /\ voted.role = n.role
       /\ FullLog(voted.st) = FullLog(d) /\ LastId(voted.st) = LastId(n.st) /\ voted.st.term = n.st.term
  BY <1>1, <1>4, <1>6, <1>7, <1>8, <1>9
<1> HIDE DEF voted
<1>11. OutSafe(voted, d, N, E, H, slot, VotedOut(granted))
  BY <1>10 DEF OutSafe, VotedOut
<1> HIDE DEF granted
<1>12. LET y == Send(voted, slot, from, VotedOut(granted)) IN Busy(i, y, d, N, E, H, C) /\ y.role = voted.role /\ y.st = voted.st
  BY <1>10, <1>11, SendBusy
<1> QED BY <1>2, <1>10, <1>12

(* A follower that has the log of its disk, or has adopted the leader's.   *)
Seated(d, H, C, n, x) ==
  /\ Keeps(n, x) /\ CP(x.st) /\ Whole(x.st) /\ x.st.term = n.st.term /\ x.peers = n.peers
  /\ FullLog(x.st) = FullLog(d) \/ Adopted(FullLog(d), FullLog(x.st), H, n.st.term)
  /\ Agree(FullLog(x.st), C, x.st.commit)

(* What a request of the leader of n's term tells.                         *)
Offered(n, H, previous, entry) ==
  LET t == n.st.term
      A == H[t]
      k == previous.index
  IN  /\ t \in DOMAIN H /\ previous \in LogIds
      /\ previous = Genesis \/ (k \in 1..Len(A) /\ A[k].id = previous)
      /\ entry # None => k + 1 \in 1..Len(A) /\ entry = A[k + 1] /\ Continues(n.st, previous, entry)

(* A log that holds an identity of the leader's log agrees with it so far. *)
LEMMA HoldsAgrees ==
  ASSUME NEW st, CP(st), Whole(st), NEW H, Ledger(H), Rooted(FullLog(st), H), NEW t \in DOMAIN H,
         NEW id \in LogIds, Holds(st, id), id = Genesis \/ (id.index \in 1..Len(H[t]) /\ H[t][id.index].id = id)
  PROVE  id.index \in Nat /\ Agree(FullLog(st), H[t], id.index) /\ id.index <= LastId(st).index
<1> DEFINE F == FullLog(st)
           A == H[t]
<1>1. /\ id.index \in Nat
      /\ Holds(st, id) => Base(st).index <= id.index /\ id.index <= Len(F) /\ (id.index # 0 => F[id.index].id = id) /\ (id.index = 0 => id = Genesis)
  BY Holding
<1>2. F \in Seq(Entries) /\ A \in Seq(Entries) /\ Rooted(A, H)
  BY DEF Rooted, Ledger
<1>3. LastId(st).index = Len(F)
  BY Shape
<1> HIDE DEF F, A
<1>4. CASE id.index = 0
  <2>1. Len(F) \in Nat /\ Len(A) \in Nat
    BY <1>2
  <2> QED BY <1>1, <1>3, <1>4, <2>1 DEF Agree, F, A
<1>5. CASE id.index # 0
  <2>1. PICK k : k = id.index
    OBVIOUS
  <2>2. Len(F) \in Nat /\ k \in Nat
    BY <1>1, <1>2, <2>1
  <2>3. k \in 1..Len(F) /\ F[k].id = id /\ k <= Len(F)
    BY <1>1, <1>5, <2>1, <2>2
  <2>4. k \in 1..Len(A) /\ A[k].id = id
    <3>1. id # Genesis
      BY <1>5 DEF Genesis
    <3> QED BY <2>1, <3>1 DEF A
  <2>5. F[k].id.term = A[k].id.term
    BY <2>3, <2>4
  <2>6. Rooted(F, H) /\ k \in Nat
    BY <1>1, <2>1 DEF F
  <2>7. Agree(F, A, k)
    BY <1>2, <2>3, <2>4, <2>5, <2>6, Matching
  <2> QED BY <1>1, <1>3, <2>1, <2>3, <2>7 DEF F, A
<1> QED BY <1>4, <1>5

(* The log is replaced from an entry that the leader has and it has not.   *)
LEMMA OverwriteSeated ==
  ASSUME FixedGroups, NEW sc \in DOMAIN Scenarios,
         NEW d, CP(d), NEW n, OK(d, n), InGroup(n), Whole(n.st), FullLog(n.st) = FullLog(d),
         NEW H, Ledger(H), Rooted(FullLog(d), H), NEW C \in Seq(Entries), Agree(FullLog(d), C, n.st.commit),
         NEW previous, NEW entry, Offered(n, H, previous, entry), entry # None,
         Holds(n.st, previous), ~Holds(n.st, entry.id),
         entry.id.index > n.st.commit, ~(IsFull(n.st) /\ entry.id.index > LastId(n.st).index)
  PROVE  LET x == Overwrite(n, entry) IN
         Seated(d, H, C, n, x) /\ Agree(FullLog(x.st), H[n.st.term], entry.id.index)
<1>0. PICK st : st = n.st
  OBVIOUS
<1> DEFINE x == Overwrite(n, entry)
           k == previous.index - Base(st).index
           D == FullLog(d)
           t == st.term
           A == H[t]
           batch == <<entry>>
<1>1. CP(st) /\ Whole(st) /\ FullLog(st) = D /\ st.commit = n.st.commit
  BY <1>0 DEF OK, Held
<1>2. /\ t \in DOMAIN H /\ previous \in LogIds /\ Continues(st, previous, entry) /\ entry = A[previous.index + 1]
      /\ previous.index + 1 \in 1..Len(A)
      /\ previous = Genesis \/ (previous.index \in 1..Len(A) /\ A[previous.index].id = previous)
  BY <1>0 DEF Offered
<1>3. /\ k \in 0..Len(st.entries) /\ entry.id.index = Base(st).index + k + 1
      /\ Follows1(st, k, batch)
  BY <1>0, <1>1, <1>2, Placing
<1>4. x.st = Suffixed(st, k, batch)
  BY <1>0, <1>2, OverwriteOK
<1>5. Keeps(n, x)
  BY OverwriteKeeps
<1>6. previous.index \in Nat /\ Agree(D, A, previous.index)
  <2>1. Rooted(FullLog(st), H) /\ Holds(st, previous)
    BY <1>0, <1>1
  <2>2. previous.index \in Nat /\ Agree(FullLog(st), H[t], previous.index)
    BY <1>1, <1>2, <2>1, HoldsAgrees
  <2> QED BY <1>1, <2>2
<1>7. /\ Base(st).index \in Nat /\ Len(st.entries) \in Nat /\ st.commit \in Nat /\ st.cap \in Nat /\ Len(st.entries) <= st.cap
      /\ LastId(st).index = Base(st).index + Len(st.entries)
  BY <1>1, Measures
<1>8. entry \in Entries /\ entry.id \in LogIds
  BY <1>2 DEF Continues, Entries
<1>9. batch \in Seq(Entries) /\ Len(batch) = 1 /\ batch[1] = entry
  BY <1>8
<1> HIDE DEF batch, x
<1>10. Base(st).index + k = previous.index /\ st.commit <= Base(st).index + k /\ k + Len(batch) <= st.cap /\ entry.id.index = previous.index + 1
  <2>1. Base(st).index + k = previous.index
    BY <1>6, <1>7
  <2>2. entry.id.index = previous.index + 1
    BY <1>3, <2>1
  <2>3. st.commit <= previous.index
    BY <1>0, <1>6, <1>7, <2>2
  <2>4. k + 1 <= st.cap
    <3>1. CASE k < Len(st.entries)
      BY <1>3, <1>7, <3>1
    <3>2. CASE k = Len(st.entries)
      <4>1. entry.id.index > LastId(st).index
        BY <1>6, <1>7, <2>1, <2>2, <3>2
      <4>2. Len(st.entries) # st.cap
        BY <1>0, <4>1 DEF IsFull
      <4> QED BY <1>7, <3>2, <4>2
    <3> QED BY <1>3, <1>7, <3>1, <3>2
  <2> QED BY <1>9, <2>1, <2>2, <2>3, <2>4
<1> DEFINE M == FullLog(x.st)
           p == previous.index
<1>11. /\ CP(x.st) /\ Whole(x.st) /\ x.st.term = t /\ x.st.commit = st.commit
       /\ M \in Seq(Entries) /\ p <= Len(D) /\ Len(M) = p + 1
       /\ \A j \in 1..p : M[j] = D[j]
       /\ M[p + 1] = entry
  <2>0. PICK k0 : k0 = k
    OBVIOUS
  <2> HIDE DEF k
  <2>1. PICK z : z = Suffixed(st, k0, batch)
    OBVIOUS
  <2>2. st.commit <= Base(st).index + k0 /\ k0 + Len(batch) <= st.cap /\ Follows1(st, k0, batch) /\ k0 \in 0..Len(st.entries)
    BY <1>3, <1>10, <2>0
  <2>3. /\ CP(z) /\ Whole(z) /\ z.term = st.term /\ z.commit = st.commit
        /\ FullLog(z) \in Seq(Entries) /\ Base(st).index + k0 <= Len(FullLog(st)) /\ Len(FullLog(z)) = Base(st).index + k0 + Len(batch)
        /\ \A j \in 1..Base(st).index + k0 : FullLog(z)[j] = FullLog(st)[j]
        /\ \A j \in 1..Len(batch) : FullLog(z)[Base(st).index + k0 + j] = batch[j]
    BY <1>1, <1>9, <2>1, <2>2, LogSuffixed, ZenonT(60)
  <2>4. x.st = z /\ Base(st).index + k0 = p
    BY <1>4, <1>10, <2>0, <2>1
  <2>5. /\ FullLog(z) \in Seq(Entries) /\ p <= Len(D) /\ Len(FullLog(z)) = p + Len(batch)
        /\ \A j \in 1..p : FullLog(z)[j] = D[j]
        /\ \A j \in 1..Len(batch) : FullLog(z)[p + j] = batch[j]
    BY <1>1, <2>3, <2>4
  <2>6. FullLog(z)[p + 1] = entry
    BY <1>9, <2>5
  <2> QED BY <1>9, <2>3, <2>4, <2>5, <2>6
<1> HIDE DEF k
<1>12. D \in Seq(Entries) /\ A \in Seq(Entries)
  BY <1>2 DEF Ledger, Rooted
<1> HIDE DEF M, D, A, t
<1>13. p \in Nat /\ p + 1 <= Len(A) /\ \A j \in 1..p : D[j] = A[j]
  BY <1>2, <1>6 DEF Agree
<1>14. M = SubSeq(A, 1, p + 1) /\ Agree(M, A, p + 1)
  <2>1. ASSUME NEW j \in 1..Len(M) PROVE M[j] = A[j]
    <3>1. CASE j <= p
      BY <1>11, <1>13, <3>1
    <3>2. CASE ~(j <= p)
      <4>1. j = p + 1
        BY <1>11, <1>13, <3>2
      <4> QED BY <1>2, <1>11, <4>1
    <3> QED BY <3>1, <3>2
  <2>2. Len(M) = p + 1 /\ M \in Seq(Entries)
    BY <1>11
  <2>3. SubSeq(A, 1, p + 1) \in Seq(Entries) /\ Len(SubSeq(A, 1, p + 1)) = p + 1
        /\ \A j \in 1..p + 1 : SubSeq(A, 1, p + 1)[j] = A[j]
    BY <1>12, <1>13
  <2>4. M = SubSeq(A, 1, p + 1)
    <3> DEFINE Q == SubSeq(A, 1, p + 1)
    <3> HIDE DEF Q
    <3>1. Q \in Seq(Entries) /\ Len(Q) = Len(M) /\ \A j \in 1..Len(M) : M[j] = Q[j]
      BY <2>1, <2>2, <2>3 DEF Q
    <3>2. M = Q
      BY <2>2, <3>1
    <3> QED BY <3>2 DEF Q
  <2>5. Agree(M, A, p + 1)
    BY <1>13, <2>1, <2>2 DEF Agree
  <2> QED BY <2>4, <2>5
<1>15. p + 1 > Len(D) \/ D[p + 1].id # A[p + 1].id
  <2>1. CASE p + 1 <= Len(D)
    <3>1. /\ entry.id.index \in Nat
          /\ ~Holds(st, entry.id) /\ Base(st).index <= entry.id.index /\ entry.id.index <= Len(FullLog(st)) /\ entry.id.index # 0
               => FullLog(st)[entry.id.index].id # entry.id
      BY <1>1, <1>8, Holding
    <3>2. Base(st).index <= p
      <4>1. Holds(st, previous)
        BY <1>0
      <4> QED BY <1>1, <1>2, <4>1, HoldsBelow
    <3>3. Base(st).index <= p + 1 /\ p + 1 # 0
      BY <1>7, <1>13, <3>2
    <3>4. D[p + 1].id # entry.id
      BY <1>0, <1>1, <1>10, <2>1, <3>1, <3>3
    <3> QED BY <1>2, <3>4
  <2>2. CASE ~(p + 1 <= Len(D))
    BY <1>12, <1>13, <2>2
  <2> QED BY <2>1, <2>2
<1>16. Adopted(D, M, H, t)
  <2>1. p + 1 \in 1..Len(A)
    BY <1>2
  <2> QED BY <1>2, <1>14, <1>15, <2>1 DEF Adopted, A
<1>17. Agree(M, C, x.st.commit)
  <2>1. Agree(D, C, st.commit) /\ st.commit <= p
    BY <1>0, <1>10 DEF D
  <2> QED BY <1>7, <1>11, <1>12, <1>13, <2>1 DEF Agree
<1>18. x.peers = n.peers
  BY <1>5 DEF Keeps, InGroup
<1>19. Seated(d, H, C, n, x)
  BY <1>0, <1>5, <1>11, <1>16, <1>17, <1>18 DEF Seated, M, D, t
<1>20. Agree(FullLog(x.st), H[n.st.term], entry.id.index)
  BY <1>0, <1>10, <1>14 DEF M, A, t
<1> QED BY <1>19, <1>20 DEF x

(* What append makes of a request before it commits.                       *)
LEMMA PlaceSeated ==
  ASSUME FixedGroups, NEW sc \in DOMAIN Scenarios,
         NEW d, CP(d), NEW n, OK(d, n), InGroup(n), Whole(n.st), FullLog(n.st) = FullLog(d),
         NEW H, Ledger(H), Rooted(FullLog(d), H), NEW C \in Seq(Entries), Agree(FullLog(d), C, n.st.commit),
         NEW previous, NEW entry, Offered(n, H, previous, entry)
  PROVE  LET p == Place(n, previous, entry) IN
         /\ DOMAIN p = {"n", "index", "rejection", "agreed"} /\ Seated(d, H, C, n, p.n)
         /\ p.agreed \in Nat /\ Agree(FullLog(p.n.st), H[n.st.term], p.agreed)
         /\ p.rejection = None => p.index = p.agreed
<1> DEFINE p == Place(n, previous, entry)
           t == n.st.term
           D == FullLog(d)
<1>1. CP(n.st) /\ n.st.commit \in Nat
  <2>1. CP(n.st)
    BY DEF OK, Held
  <2> QED BY <2>1, Measures
<1>2. t \in DOMAIN H /\ previous \in LogIds
  BY DEF Offered
<1>3. Seated(d, H, C, n, n)
  <2>1. Keeps(n, n)
    BY DEF Keeps, InGroup
  <2> QED BY <1>1, <2>1 DEF Seated
<1>4. Agree(FullLog(n.st), H[t], 0)
  <2>1. D \in Seq(Entries) /\ H[t] \in Seq(Entries)
    BY <1>2 DEF Ledger, Rooted
  <2>2. Len(D) \in Nat /\ Len(H[t]) \in Nat
    BY <2>1
  <2> QED BY <2>2 DEF Agree
<1>5. Holds(n.st, previous) => previous.index \in Nat /\ Agree(FullLog(n.st), H[t], previous.index)
  <2> SUFFICES ASSUME Holds(n.st, previous) PROVE previous.index \in Nat /\ Agree(FullLog(n.st), H[t], previous.index)
    OBVIOUS
  <2>1. previous = Genesis \/ (previous.index \in 1..Len(H[t]) /\ H[t][previous.index].id = previous)
    BY DEF Offered
  <2>2. Rooted(FullLog(n.st), H)
    OBVIOUS
  <2> QED BY <1>1, <1>2, <2>1, <2>2, HoldsAgrees
<1>6. \A why \in Rejections : why # None
  BY NothingAssumption
<1>7. CASE ~Holds(n.st, previous)
  <2>1. RetryHint(n.st, previous) \in Nat
    <3>1. Base(n.st).index \in Nat /\ LastId(n.st).index \in Nat /\ previous.index \in Nat
      BY <1>1, <1>2, Measures DEF LogIds
    <3> QED BY <3>1, U64Assumption DEF RetryHint, SaturatingSucc, Min2, Max2
  <2>2. p = [n |-> n, index |-> previous.index, rejection |-> Conflict(RetryHint(n.st, previous)), agreed |-> 0]
    BY <1>7 DEF Place, Refuse
  <2>3. Conflict(RetryHint(n.st, previous)) \in Rejections
    BY <2>1 DEF Conflict, Rejections
  <2> QED BY <1>3, <1>4, <1>6, <2>2, <2>3
<1>8. CASE Holds(n.st, previous) /\ entry = None
  <2>1. p = [n |-> n, index |-> previous.index, rejection |-> None, agreed |-> previous.index]
    BY <1>8 DEF Place, Accept
  <2> QED BY <1>3, <1>5, <1>8, <2>1
<1>9. CASE Holds(n.st, previous) /\ entry # None
  <2> DEFINE index == entry.id.index
  <2>1. p = PlaceEntry(n, previous, entry)
    BY <1>9 DEF Place
  <2>2. /\ Continues(n.st, previous, entry) /\ entry.id \in LogIds /\ index \in Nat /\ index = previous.index + 1
        /\ index \in 1..Len(H[t]) /\ entry = H[t][index]
    <3>1. /\ Continues(n.st, previous, entry) /\ previous.index + 1 \in 1..Len(H[t]) /\ entry = H[t][previous.index + 1]
      BY <1>9 DEF Offered
    <3>2. entry.id \in LogIds /\ index = previous.index + 1
      BY <3>1 DEF Continues, Entries
    <3>3. index \in Nat
      BY <3>2, U64Assumption DEF LogIds
    <3> QED BY <3>1, <3>2, <3>3
  <2>3. CASE Holds(n.st, entry.id)
    <3>1. p = [n |-> n, index |-> index, rejection |-> None, agreed |-> index]
      BY <2>1, <2>3 DEF PlaceEntry, Accept
    <3>2. Agree(FullLog(n.st), H[t], index)
      <4>1. entry.id.index \in 1..Len(H[t]) /\ H[t][entry.id.index].id = entry.id
        BY <2>2
      <4>2. Rooted(FullLog(n.st), H)
        OBVIOUS
      <4> QED BY <1>1, <1>2, <2>2, <2>3, <4>1, <4>2, HoldsAgrees
    <3> HIDE DEF index
    <3> QED BY <1>3, <2>2, <3>1, <3>2
  <2>4. CASE ~Holds(n.st, entry.id) /\ index <= n.st.commit
    <3>1. p = [n |-> n, index |-> previous.index, rejection |-> Conflict(index), agreed |-> 0]
      BY <1>1, <2>1, <2>2, <2>4 DEF PlaceEntry, Refuse
    <3>2. Conflict(index) \in Rejections
      BY <2>2 DEF Conflict, Rejections
    <3> QED BY <1>3, <1>4, <1>6, <3>1, <3>2
  <2>5. CASE ~Holds(n.st, entry.id) /\ index > n.st.commit /\ IsFull(n.st) /\ index > LastId(n.st).index
    <3>1. p = [n |-> n, index |-> previous.index, rejection |-> Full, agreed |-> previous.index]
      BY <1>1, <2>1, <2>2, <2>5 DEF PlaceEntry, Refuse
    <3>2. Full # None
      BY <1>6 DEF Rejections
    <3> QED BY <1>3, <1>5, <1>9, <3>1, <3>2
  <2>6. CASE ~Holds(n.st, entry.id) /\ index > n.st.commit /\ ~(IsFull(n.st) /\ index > LastId(n.st).index)
    <3>1. p = [n |-> Overwrite(n, entry), index |-> index, rejection |-> None, agreed |-> index]
      BY <1>1, <2>1, <2>2, <2>6 DEF PlaceEntry, Accept
    <3>2. LET x == Overwrite(n, entry) IN Seated(d, H, C, n, x) /\ Agree(FullLog(x.st), H[n.st.term], entry.id.index)
      BY <1>9, <2>6, OverwriteSeated
    <3> QED BY <2>2, <3>1, <3>2
  <2>7. index <= n.st.commit \/ index > n.st.commit
    BY <1>1, <2>2
  <2> QED BY <2>3, <2>4, <2>5, <2>6, <2>7
<1> QED BY <1>7, <1>8, <1>9

(* append: the leader's commit index counts as far as the logs agree.      *)
LEMMA AppendSeated ==
  ASSUME FixedGroups, NEW sc \in DOMAIN Scenarios,
         NEW d, CP(d), NEW n, OK(d, n), InGroup(n), Whole(n.st), FullLog(n.st) = FullLog(d),
         NEW H, Ledger(H), Rooted(FullLog(d), H), NEW C \in Seq(Entries), Agree(FullLog(d), C, n.st.commit),
         NEW previous, NEW entry, Offered(n, H, previous, entry), NEW commit \in Nat, Agree(H[n.st.term], C, commit)
  PROVE  LET r == AppendOne(n, previous, entry, commit) IN
         /\ Seated(d, H, C, n, r.n)
         /\ r.rejection = None => r.index \in Nat /\ Agree(FullLog(r.n.st), H[n.st.term], r.index)
<1> DEFINE p == Place(n, previous, entry)
           r == AppendOne(n, previous, entry, commit)
           A == H[n.st.term]
<1>1. /\ DOMAIN p = {"n", "index", "rejection", "agreed"} /\ Seated(d, H, C, n, p.n)
      /\ p.agreed \in Nat /\ Agree(FullLog(p.n.st), A, p.agreed)
      /\ p.rejection = None => p.index = p.agreed
  BY PlaceSeated
<1> HIDE DEF p
<1>2. PICK x : x = p.n
  OBVIOUS
<1> DEFINE c == Min2(commit, p.agreed)
           M == FullLog(x.st)
           y == CommitTo(x, c)
<1>3. r.n = y /\ r.index = p.index /\ r.rejection = p.rejection
  BY <1>1, <1>2 DEF AppendOne, CommitAgreed, p
<1>4. Seated(d, H, C, n, x)
  BY <1>1, <1>2
<1>5. /\ Keeps(n, x) /\ InGroup(x) /\ CP(x.st) /\ Whole(x.st) /\ x.st.term = n.st.term /\ x.peers = n.peers
      /\ (M = FullLog(d) \/ Adopted(FullLog(d), M, H, n.st.term)) /\ Agree(M, C, x.st.commit)
  BY <1>4 DEF Seated, Keeps
<1>6. A \in Seq(Entries) /\ M \in Seq(Entries) /\ LastId(x.st).index = Len(M) /\ Len(M) \in Nat /\ x.st.commit \in Nat
  <2>1. A \in Seq(Entries)
    BY DEF Ledger, Rooted, Offered
  <2> QED BY <1>5, <2>1, Shape, Measures
<1>7. c \in Nat /\ c <= commit /\ c <= p.agreed
  BY <1>1 DEF Min2
<1>8. Agree(M, A, p.agreed)
  BY <1>1, <1>2
<1> HIDE DEF M, A, c
<1>9. Agree(M, C, c) /\ c <= Len(M) /\ c <= LastId(x.st).index
  <2>1. Agree(M, A, c)
    BY <1>1, <1>6, <1>7, <1>8, Agreeing
  <2>2. Agree(A, C, commit)
    BY DEF A
  <2>3. Agree(A, C, c)
    BY <1>6, <1>7, <2>2, Agreeing
  <2>4. Agree(M, C, c)
    BY <1>6, <1>7, <2>1, <2>3, Agreeing
  <2> QED BY <1>6, <2>4 DEF Agree
<1>10. /\ DOMAIN y = NodeFields /\ \A f \in NodeFields \ {"st", "dirty"} : y[f] = x[f]
       /\ CP(y.st) /\ y.st.commit = Max2(x.st.commit, c) /\ y.st.term = x.st.term
       /\ y.st.snapshot = x.st.snapshot /\ y.st.entries = x.st.entries
  BY <1>5, <1>7, <1>9, CommitFields
<1>11. Keeps(x, y)
  BY <1>5, CommitKeeps
<1> HIDE DEF y
<1>12. FullLog(y.st) = M /\ Whole(y.st)
  BY <1>5, <1>10, LogStays DEF M
<1>13. y.peers = x.peers
  BY <1>10 DEF NodeFields
<1>14. Agree(M, C, y.st.commit)
  <2>1. y.st.commit = x.st.commit \/ y.st.commit = c
    BY <1>10 DEF Max2
  <2> QED BY <1>5, <1>9, <2>1
<1>15. Keeps(n, y)
  BY <1>5, <1>11, KeepsOn
<1>16. Seated(d, H, C, n, y)
  BY <1>5, <1>10, <1>12, <1>13, <1>14, <1>15 DEF Seated
<1> HIDE DEF r
<1>17. r.rejection = None => r.index \in Nat /\ Agree(FullLog(r.n.st), A, r.index)
  BY <1>1, <1>3, <1>8, <1>12
<1> QED BY <1>3, <1>16, <1>17 DEF r, A

(* A reply to the leader tells what is in the log.                         *)
LEMMA ReplyBusy ==
  ASSUME NEW i, NEW n, InGroup(n), n.role = "Follower", Empties(n),
         NEW d, NEW N, NEW E, NEW H, NEW C, NEW r, Seated(d, H, C, n, r.n),
         r.rejection = None => r.index \in Nat /\ Agree(FullLog(r.n.st), H[n.st.term], r.index),
         n.st.term \in DOMAIN H, NEW slot \in Slot, NEW from, n.peers[slot] = from, [term |-> n.st.term, id |-> from] \in E
  PROVE  LET z == Reply(r, slot, from) IN Busy(i, z, d, N, E, H, C) /\ z.role = "Follower"
<1>0. PICK x : x = r.n
  OBVIOUS
<1> DEFINE out == ReplicatedOut(r.index, r.rejection)
<1>1. /\ Keeps(n, x) /\ CP(x.st) /\ Whole(x.st) /\ x.st.term = n.st.term /\ x.peers = n.peers
      /\ (FullLog(x.st) = FullLog(d) \/ Adopted(FullLog(d), FullLog(x.st), H, n.st.term))
      /\ Agree(FullLog(x.st), C, x.st.commit)
  BY <1>0 DEF Seated
<1>2. InGroup(x) /\ x.role = "Follower" /\ Empties(x)
  BY <1>1 DEF Keeps, Empties
<1>3. Trails(i, x, d, N, E, H, C)
  BY <1>1, <1>2 DEF Trails
<1>4. Busy(i, x, d, N, E, H, C)
  BY <1>2, <1>3, TrailsBusy
<1>5. OutSafe(x, d, N, E, H, slot, out)
  <2>1. out.kind = "Replicated" /\ out.index = r.index /\ out.rejection = r.rejection
    BY DEF ReplicatedOut
  <2> HIDE DEF out
  <2> QED BY <1>0, <1>1, <2>1 DEF OutSafe
<1> HIDE DEF out
<1>6. LET z == Send(x, slot, from, out) IN Busy(i, z, d, N, E, H, C) /\ z.role = x.role /\ z.st = x.st
  BY <1>2, <1>4, <1>5, SendBusy
<1>7. Reply(r, slot, from) = Send(x, slot, from, out)
  BY <1>0 DEF Reply, out
<1> QED BY <1>2, <1>6, <1>7

(* A snapshot of the log of the leader of n's term.                        *)
Imaged(n, H, C, sn) ==
  LET t == n.st.term
      A == H[t]
      k == sn.last.index
  IN  /\ t \in DOMAIN H /\ sn \in Snapshots /\ k \in 1..Len(A) /\ sn.app = SubSeq(A, 1, k)
      /\ sn.last = A[k].id /\ Agree(A, C, k)

(* A snapshot is taken: either the log holds its boundary and stays, or it *)
(* becomes the leader's through that boundary.                             *)
LEMMA TakeSeated ==
  ASSUME FixedGroups, NEW sc \in DOMAIN Scenarios,
         NEW d, CP(d), NEW n, OK(d, n), InGroup(n), Whole(n.st), FullLog(n.st) = FullLog(d),
         NEW H, Ledger(H), Rooted(FullLog(d), H), NEW C \in Seq(Entries), Agree(FullLog(d), C, n.st.commit),
         NEW sn, Imaged(n, H, C, sn), sn.last.index > Base(n.st).index,
         sn.last.index > n.st.commit \/ Holds(n.st, sn.last), Keeps(n, TakeSnapshot(n, sn))
  PROVE  LET x == TakeSnapshot(n, sn) IN
         Seated(d, H, C, n, x) /\ Agree(FullLog(x.st), H[n.st.term], sn.last.index)
<1>0. PICK st : st = n.st
  OBVIOUS
<1> DEFINE x == TakeSnapshot(n, sn)
           D == FullLog(d)
           t == st.term
           A == H[t]
           k == sn.last.index
<1>1. /\ CP(st) /\ Whole(st) /\ FullLog(st) = D /\ Agree(D, C, st.commit) /\ k > Base(st).index
      /\ k > st.commit \/ Holds(st, sn.last)
  BY <1>0 DEF OK, Held
<1>2. /\ t \in DOMAIN H /\ sn \in Snapshots /\ k \in 1..Len(A) /\ sn.app = SubSeq(A, 1, k)
      /\ sn.last = A[k].id /\ Agree(A, C, k)
  BY <1>0 DEF Imaged
<1>3. D \in Seq(Entries) /\ A \in Seq(Entries) /\ Rooted(A, H)
  BY <1>2 DEF Ledger, Rooted
<1>4. /\ Base(st).index \in Nat /\ st.commit \in Nat /\ t \in Nat
  BY <1>1, Measures
<1>5. k \in Nat /\ Len(A) \in Nat /\ Len(D) \in Nat /\ k # 0
  BY <1>2, <1>3
<1>6. sn.last.term # 0 /\ sn.last.term <= t /\ sn.last \in LogIds
  <2>1. A[k].id.term \in DOMAIN H /\ A[k].id.term <= t
    BY <1>2, <1>3 DEF Ledger, Rooted
  <2>2. A[k].id.term \in 1..U64Max
    BY <2>1 DEF Ledger
  <2> QED BY <1>2, <2>1, <2>2, U64Assumption DEF Snapshots
<1>7. Fits(st, sn)
  BY <1>1, <1>2, <1>6 DEF Fits
<1>8. Len(sn.app) = k /\ sn.app[k].id = sn.last /\ \A j \in 1..k : sn.app[j] = A[j]
  <2>1. k \in 0..Len(A)
    BY <1>2, <1>5
  <2>2. PICK B : B = SubSeq(A, 1, k)
    OBVIOUS
  <2>3. Len(B) = k /\ \A j \in 1..k : B[j] = A[j]
    BY <1>3, <2>1, <2>2, PrefixRooted
  <2>4. sn.app = B /\ k \in 1..k
    BY <1>2, <1>5, <2>2
  <2> QED BY <1>2, <2>3, <2>4
<1>9. x.st = Install(st, sn)
  BY <1>0, <1>7, TakeSnapshotOK
<1> HIDE DEF x
<1> DEFINE M == FullLog(x.st)
<1>10. /\ CP(x.st) /\ Whole(x.st) /\ x.st.term = t /\ x.st.commit = Max2(st.commit, k)
       /\ M \in Seq(Entries) /\ \A j \in 1..k : M[j] = A[j]
       /\ Holds(st, sn.last) => Len(M) = Len(D) /\ \A j \in 1..Len(D) : j > k => M[j] = D[j]
       /\ ~Holds(st, sn.last) => Len(M) = k
  <2>1. PICK z : z = Install(st, sn)
    OBVIOUS
  <2>2. /\ CP(z) /\ Whole(z) /\ z.term = st.term /\ z.commit = Max2(st.commit, sn.last.index)
        /\ FullLog(z) \in Seq(Entries)
        /\ \A j \in 1..sn.last.index : FullLog(z)[j] = sn.app[j]
        /\ Holds(st, sn.last) => Len(FullLog(z)) = Len(FullLog(st)) /\ \A j \in 1..Len(FullLog(st)) : j > sn.last.index => FullLog(z)[j] = FullLog(st)[j]
        /\ ~Holds(st, sn.last) => Len(FullLog(z)) = sn.last.index
    BY <1>1, <1>7, <1>8, <2>1, LogInstalled
  <2>3. x.st = z
    BY <1>9, <2>1
  <2> QED BY <1>1, <1>8, <2>2, <2>3
<1>11. Agree(M, A, k) /\ (M = D \/ Adopted(D, M, H, t))
  <2>1. CASE Holds(st, sn.last)
    <3>1. Agree(D, A, k) /\ k <= Len(D)
      <4>1. Rooted(FullLog(st), H) /\ sn.last \in LogIds
        BY <1>1, <1>6
      <4>2. sn.last.index \in 1..Len(H[t]) /\ H[t][sn.last.index].id = sn.last
        BY <1>2
      <4>3. Agree(FullLog(st), H[t], sn.last.index)
        BY <1>1, <1>2, <2>1, <4>1, <4>2, HoldsAgrees
      <4>4. Agree(D, A, k)
        BY <1>1, <4>3
      <4> QED BY <4>4 DEF Agree
    <3> HIDE DEF M, D, A, k
    <3>2. ASSUME NEW j \in 1..Len(M) PROVE M[j] = D[j]
      <4>1. CASE j <= k
        BY <1>3, <1>5, <1>10, <2>1, <3>1, <4>1 DEF Agree
      <4>2. CASE ~(j <= k)
        BY <1>5, <1>10, <2>1, <4>2
      <4> QED BY <4>1, <4>2
    <3>3. M = D
      BY <1>3, <1>10, <2>1, <3>2
    <3> QED BY <3>1, <3>3
  <2>2. CASE ~Holds(st, sn.last)
    <3>1. k > Len(D) \/ D[k].id # A[k].id
      <4>1. CASE k <= Len(D)
        <5>1. ~Holds(st, sn.last) /\ Base(st).index <= sn.last.index /\ sn.last.index <= Len(FullLog(st)) /\ sn.last.index # 0
                 => FullLog(st)[sn.last.index].id # sn.last
          BY <1>1, <1>6, Holding
        <5>2. Base(st).index <= k
          BY <1>1, <1>4, <1>5
        <5>3. D[k].id # sn.last
          BY <1>1, <1>5, <2>2, <4>1, <5>1, <5>2
        <5> QED BY <1>2, <5>3
      <4>2. CASE ~(k <= Len(D))
        BY <1>5, <4>2
      <4> QED BY <4>1, <4>2
    <3> DEFINE Q == SubSeq(A, 1, k)
    <3>2. Q \in Seq(Entries) /\ Len(Q) = k /\ \A j \in 1..k : Q[j] = A[j]
      <4>1. k \in 0..Len(A)
        BY <1>2, <1>5
      <4> QED BY <1>3, <4>1, PrefixRooted
    <3> HIDE DEF M, Q
    <3>3. M = Q
      <4>1. M \in Seq(Entries) /\ Len(M) = Len(Q) /\ \A j \in 1..Len(M) : M[j] = Q[j]
        BY <1>10, <2>2, <3>2
      <4> QED BY <3>2, <4>1
    <3>4. Adopted(D, M, H, t)
      BY <1>2, <3>1, <3>3 DEF Adopted, Q
    <3>5. Agree(M, A, k)
      BY <1>2, <1>5, <1>10, <2>2 DEF Agree
    <3> QED BY <3>4, <3>5
  <2> QED BY <2>1, <2>2
<1>12. Agree(M, C, x.st.commit)
  <2> HIDE DEF M, D, A, k
  <2>1. Agree(M, C, k)
    BY <1>2, <1>3, <1>5, <1>10, <1>11, Agreeing
  <2>2. CASE x.st.commit = k
    BY <2>1, <2>2
  <2>3. CASE x.st.commit # k
    <3>1. x.st.commit = st.commit /\ ~(k > st.commit)
      BY <1>4, <1>5, <1>10, <2>3 DEF Max2
    <3>2. Holds(st, sn.last)
      BY <1>1, <3>1
    <3>3. \A j \in 1..Len(D) : j <= st.commit => M[j] = C[j]
      <4> SUFFICES ASSUME NEW j \in 1..Len(D), j <= st.commit PROVE M[j] = C[j]
        OBVIOUS
      <4>1. CASE j <= k
        BY <1>5, <2>1, <4>1 DEF Agree
      <4>2. CASE ~(j <= k)
        BY <1>1, <1>4, <1>5, <1>10, <3>2, <4>2 DEF Agree
      <4> QED BY <4>1, <4>2
    <3> QED BY <1>1, <1>4, <1>5, <1>10, <3>1, <3>2, <3>3 DEF Agree
  <2> QED BY <2>2, <2>3
<1>13. Keeps(n, x) /\ x.peers = n.peers
  <2>1. Keeps(n, x)
    BY DEF x
  <2> QED BY <2>1 DEF Keeps, InGroup
<1>14. Seated(d, H, C, n, x)
  BY <1>0, <1>10, <1>11, <1>12, <1>13 DEF Seated
<1> QED BY <1>0, <1>11, <1>14 DEF x

(* Install                                                                 *)
LEMMA InstallSeated ==
  ASSUME FixedGroups, NEW sc \in DOMAIN Scenarios,
         NEW d, CP(d), NEW n, OK(d, n), InGroup(n), Whole(n.st), FullLog(n.st) = FullLog(d),
         NEW H, Ledger(H), Rooted(FullLog(d), H), NEW C \in Seq(Entries), Agree(FullLog(d), C, n.st.commit),
         NEW sn, Imaged(n, H, C, sn)
  PROVE  LET r == InstallSnapshot(n, sn) IN
         /\ Seated(d, H, C, n, r.n)
         /\ r.rejection = None => r.index \in Nat /\ Agree(FullLog(r.n.st), H[n.st.term], r.index)
<1> DEFINE k == sn.last.index
           D == FullLog(d)
           A == H[n.st.term]
           r == InstallSnapshot(n, sn)
           far == k <= n.st.commit /\ IdAt(n.st, k) \notin {None, sn.last}
           take == k > Base(n.st).index /\ (k > n.st.commit \/ Holds(n.st, sn.last))
           b == Base(n.st).index
<1>1. CP(n.st) /\ b \in Nat /\ n.st.commit \in Nat /\ b <= n.st.commit
  <2>1. CP(n.st)
    BY DEF OK, Held
  <2> QED BY <2>1, Measures
<1>2. /\ k \in 1..Len(A) /\ Agree(A, C, k) /\ A \in Seq(Entries) /\ D \in Seq(Entries)
  BY DEF Imaged, Ledger, Rooted
<1>3. k \in Nat
  BY <1>2
<1>4. Seated(d, H, C, n, n)
  <2>1. Keeps(n, n)
    BY DEF Keeps, InGroup
  <2> QED BY <1>1, <2>1 DEF Seated
<1>5. CASE far
  <2>0. ~take
    BY <1>1, <1>3, <1>5 DEF Holds
  <2>1. r.n = n /\ r.rejection = Conflict(SaturatingSucc(b))
    BY <1>5, <2>0 DEF InstallSnapshot
  <2>2. SaturatingSucc(b) \in Nat
    BY <1>1, U64Assumption DEF SaturatingSucc, Min2
  <2>3. Conflict(SaturatingSucc(b)) \in Rejections
    BY <2>2 DEF Conflict, Rejections
  <2>4. r.rejection # None
    BY <2>1, <2>3, NothingAssumption
  <2> QED BY <1>4, <2>1, <2>4
<1>6. CASE ~far /\ take
  <2>1. r.n = TakeSnapshot(n, sn) /\ r.index = k
    BY <1>6 DEF InstallSnapshot
  <2>2. Keeps(n, TakeSnapshot(n, sn))
    BY <2>1, InstallKeeps
  <2>3. LET x == TakeSnapshot(n, sn) IN Seated(d, H, C, n, x) /\ Agree(FullLog(x.st), H[n.st.term], sn.last.index)
    BY <1>6, <2>2, TakeSeated
  <2> QED BY <1>3, <2>1, <2>3
<1>7. CASE ~far /\ ~take
  <2>1. r.n = n /\ r.index = k
    BY <1>7 DEF InstallSnapshot
  <2>2. k <= n.st.commit
    BY <1>1, <1>3, <1>7
  <2> HIDE DEF k, D, A
  <2>3. Agree(D, C, k)
    <3>1. Agree(D, C, n.st.commit)
      BY DEF D
    <3> QED BY <1>1, <1>2, <1>3, <2>2, <3>1, Agreeing
  <2>4. Agree(C, A, k)
    BY <1>2, <1>3, Agreeing
  <2>5. Agree(D, A, k)
    BY <1>2, <1>3, <2>3, <2>4, Agreeing
  <2> QED BY <1>3, <1>4, <2>1, <2>5 DEF D, A
<1> QED BY <1>5, <1>6, <1>7

-----------------------------------------------------------------------------
(* An election is won.                                                     *)

(* What an operation of node i leaves behind: the ledger with a leader     *)
(* that it made, and a node whose unsaved state is safe to save.           *)
Leaves(T, L, i, r, d, N, E, H, C, G) ==
  /\ AInv(T, L, N, E \cup Leading(r), G, C) /\ Busy(i, r, d, N, E \cup Leading(r), G, C)
  /\ Grows(H, G) /\ \A u \in DOMAIN H : G[u] = H[u]

(* An operation that makes no leader.                                      *)
LEMMA LeavesSame ==
  ASSUME NEW T, NEW L, NEW i, NEW r, NEW d, NEW N, NEW E, NEW H, NEW C,
         AInv(T, L, N, E, H, C), Busy(i, r, d, N, E, H, C),
         r.role = "Leader" => r.id = i /\ [term |-> r.st.term, id |-> i] \in E
  PROVE  Leaves(T, L, i, r, d, N, E, H, C, H)
<1>1. E \cup Leading(r) = E
  BY DEF Leading
<1>2. Grows(H, H)
  BY GrowsItself DEF AInv
<1> QED BY <1>1, <1>2 DEF Leaves

(* become_leader: the log of the new leader enters the ledger.             *)
LEMMA BecomeLeaderBusy ==
  ASSUME FixedGroups, NEW sc \in DOMAIN Scenarios,
         NEW T, NEW L, NEW i \in Id, NEW n, NEW d, NEW N, NEW E, NEW H, NEW C, AInv(T, L, N, E, H, C),
         T[i] = d.term, L[i] = FullLog(d), CP(d), DiskSafe(i, d, N, C), \A x \in N : MsgOK(x.msg),
         n.st = d, n.id = i, n.role = "Candidate", InGroup(n), Typed(n), Empties(n), d.term # 0,
         Contends(i, n, N, E), \A x, y \in E \cup Leading(BecomeLeader(n)) : x.term = y.term => x.id = y.id,
         NEW V \in SUBSET Id, Quorum(FixedGroup, V), \A v \in V : Ballot(N, v, i, d.term)
  PROVE  \E G : Leaves(T, L, i, BecomeLeader(n), d, N, E, H, C, G)
<1> DEFINE t == d.term
           A == FullLog(d)
           last == LastId(d).index
           x == [n EXCEPT !.active = {}, !.role = "Leader", !.leader = n.id,
                          !.next = [s \in Slot |-> SaturatingSucc(last)],
                          !.matched = [s \in Slot |-> 0]]
           y == MatchSelf(x, last)
           r == Broadcast(Barrier(y))
           F == E \cup {[term |-> t, id |-> i]}
           G == [u \in DOMAIN H \cup {t} |-> IF u = t THEN A ELSE H[u]]
<1>0. BecomeLeader(n) = r
  BY DEF BecomeLeader
<1>1. /\ t \in Nat /\ t \in 1..U64Max /\ A \in Seq(Entries) /\ Len(A) = last /\ last \in Nat /\ last \in 0..U64Max
      /\ LogLast(A) = LastId(d) /\ SaturatingSucc(last) \in 1..U64Max
  <2>1. t \in Nat /\ t <= U64Max /\ last \in Nat /\ last <= U64Max
    BY Measures
  <2>2. A \in Seq(Entries) /\ Len(A) = last /\ LogLast(A) = LastId(d)
    BY Shape, Reading DEF DiskSafe, LogLast
  <2>3. SaturatingSucc(last) \in 1..U64Max
    BY <2>1, U64Assumption DEF SaturatingSucc, Min2
  <2> QED BY <2>1, <2>2, <2>3, U64Assumption
<1>2. /\ DOMAIN x = NodeFields /\ x.role = "Leader" /\ x.next = [s \in Slot |-> SaturatingSucc(last)]
      /\ x.matched = [s \in Slot |-> 0]
      /\ \A f \in NodeFields \ {"active", "role", "leader", "next", "matched"} : x[f] = n[f]
  BY DEF Typed, NodeFields
<1> HIDE DEF x
<1>3. /\ x.id = n.id /\ x.bootstrap = n.bootstrap /\ x.hooks = n.hooks /\ x.st = n.st
      /\ x.membership = n.membership /\ x.peers = n.peers /\ x.votes = n.votes
      /\ x.dirty = n.dirty /\ x.outbox = n.outbox /\ x.extra = n.extra
      /\ x.logFrom = n.logFrom /\ x.snapChanged = n.snapChanged /\ x.prevoting = n.prevoting
  BY <1>2 DEF NodeFields
<1>4. InGroup(x) /\ Empties(x)
  BY <1>2, <1>3 DEF InGroup, Empties
<1>5. x.next \in [Slot -> 1..U64Max] /\ x.matched \in [Slot -> 0..U64Max]
  <2>1. 0 \in 0..U64Max
    BY U64Assumption
  <2> QED BY <1>1, <1>2, <2>1
<1>6. Typed(x)
  BY <1>2, <1>3, <1>5 DEF Typed
<1> HIDE DEF last
<1>7. Keeps(x, y) /\ Beside(x, y)
  BY <1>1, <1>4, <1>6, MatchSelfKeeps, MatchSelfBeside
<1> HIDE DEF y
<1>8. InGroup(y) /\ Typed(y) /\ y.id = i /\ y.st.term = t /\ Empties(y) /\ y.role = "Leader"
  <2>1. Typed(y) /\ y.st = x.st
    BY <1>7 DEF Beside
  <2>2. InGroup(y) /\ y.id = x.id /\ y.role = x.role
    BY <1>2, <1>4, <1>7 DEF Keeps, InGroup
  <2>3. Empties(y)
    <3>1. y.outbox = x.outbox
      BY <1>2 DEF y, MatchSelf, NodeFields
    <3> QED BY <1>4, <3>1 DEF Empties
  <2> QED BY <1>2, <1>3, <2>1, <2>2, <2>3
<1>9. Leading(r) = {[term |-> t, id |-> i]}
  <2>1. Keeps(y, y)
    BY <1>8 DEF Keeps, InGroup
  <2>2. Keeps(y, r)
    BY <1>8, <2>1, LeaderKeeps
  <2> HIDE DEF r
  <2> QED BY <1>8, <2>2 DEF Leading, Keeps
<1>10. t \notin DOMAIN H
  <2>1. [term |-> t, id |-> i] \notin E /\ E \subseteq [term : Nat, id : Id] /\ DOMAIN H = {z.term : z \in E}
    BY DEF Contends, AInv, LeadersOK
  <2>2. SUFFICES ASSUME t \in DOMAIN H PROVE FALSE
    OBVIOUS
  <2>3. PICK z \in E : z.term = t
    BY <2>1, <2>2
  <2>4. z.id = i
    <3>1. z \in E \cup Leading(r) /\ [term |-> t, id |-> i] \in E \cup Leading(r)
      BY <1>9, <2>3
    <3> QED BY <1>0, <2>3, <3>1
  <2>5. z = [term |-> t, id |-> i]
    BY <2>1, <2>3, <2>4
  <2> QED BY <2>1, <2>5
<1>11. DOMAIN G = DOMAIN H \cup {t} /\ G[t] = A /\ \A u \in DOMAIN H : G[u] = H[u]
  BY <1>10
<1> HIDE DEF G
<1>12. AInv(T, L, N, F, G, C) /\ Grows(H, G)
  <2>1. \A v \in V : v = i \/ \E z \in N : /\ z.from = v /\ z.to = i /\ z.msg.type = "Voted"
                                           /\ z.msg.term = t /\ z.msg.granted
    BY DEF Ballot
  <2>2. \A w \in N : IsVote(w, i, t) => w.msg.last = LogLast(L[i])
    BY <1>1 DEF Contends
  <2>3. FixedGroup \in Memberships
    BY Group
  <2>4. t = T[i] /\ G[t] = L[i]
    BY <1>11
  <2>5. t \in 1..U64Max /\ t \notin DOMAIN H /\ DOMAIN G = DOMAIN H \cup {t} /\ \A u \in DOMAIN H : G[u] = H[u]
    BY <1>1, <1>10, <1>11
  <2>6. AInv(T, L, N, E, H, C) /\ i \in Id /\ V \in SUBSET Id /\ Quorum(FixedGroup, V)
    OBVIOUS
  <2> HIDE DEF t, A
  <2>7. AInv(T, L, N, E \cup {[term |-> t, id |-> i]}, G, C) /\ Grows(H, G)
    BY ONLY <2>1, <2>2, <2>3, <2>4, <2>5, <2>6, Elects
  <2> QED BY <2>7
<1>13. Leads(i, x, d, N, G, C)
  <2>1. Extends(A, A, t)
    BY <1>1 DEF Extends, Agree
  <2>2. MatchedSafe(i, x, N)
    BY <1>2 DEF MatchedSafe
  <2>3. Whole(d) /\ Agree(A, C, d.commit)
    BY DEF DiskSafe
  <2> QED BY <1>3, <1>5, <1>11, <2>1, <2>2, <2>3 DEF Leads
<1>14. Leads(i, y, d, N, G, C)
  BY <1>1, <1>3, <1>4, <1>13, LeadsMatchSelf DEF y
<1>15. Ledger(G)
  BY <1>12 DEF AInv
<1>16. Busy(i, r, d, N, F, G, C)
  BY <1>14, <1>8, <1>15, HeartbeatBusy
<1>17. Leaves(T, L, i, r, d, N, E, H, C, G)
  BY <1>11, <1>12, <1>16, <1>9 DEF Leaves
<1> QED BY <1>0, <1>17

(* Voted: an answer is counted, and may be the one that was missing.       *)
LEMMA OnVotedBusy ==
  ASSUME FixedGroups, NEW sc \in DOMAIN Scenarios,
         NEW T, NEW L, NEW i \in Id, NEW n, NEW d, NEW N, NEW E, NEW H, NEW C, AInv(T, L, N, E, H, C),
         T[i] = d.term, L[i] = FullLog(d), CP(d), DiskSafe(i, d, N, C), \A x \in N : MsgOK(x.msg),
         Poised(i, n, d, N, E, H, C), Sound(i, n, d, N, E), n.role = "Candidate" => n.st = d /\ d.term # 0,
         NEW slot \in Slot, NEW from \in Id, n.peers[slot] = from, NEW msg,
         msg.granted => Ballot(N, from, i, n.st.term) /\ Asked(N, i, n.st.term),
         \A x, y \in E \cup Leading(OnVoted(n, slot, msg)) : x.term = y.term => x.id = y.id
  PROVE  \E G : Leaves(T, L, i, OnVoted(n, slot, msg), d, N, E, H, C, G)
<1> DEFINE c == Count(n, slot)
           B == {v \in Id : Ballot(N, v, i, n.st.term)}
<1>1. CASE n.role # "Candidate" \/ ~msg.granted
  <2>1. OnVoted(n, slot, msg) = n
    BY <1>1 DEF OnVoted
  <2>2. Busy(i, n, d, N, E, H, C) /\ n.id = i
    BY DEF Poised
  <2>3. Leaves(T, L, i, n, d, N, E, H, C, H)
    BY <2>2, LeavesSame DEF Sound
  <2> QED BY <2>1, <2>3
<1>2. CASE n.role = "Candidate" /\ msg.granted
  <2>0. Empties(n) /\ Busy(i, n, d, N, E, H, C) /\ OK(d, n) /\ n.st = d /\ d.term # 0
    BY <1>2 DEF Poised
  <2>1. /\ Sound(i, c, d, N, E) /\ Empties(c) /\ c.role = "Candidate" /\ c.st = n.st
        /\ c.votes = n.votes \cup {slot} /\ c.peers = n.peers
    BY <1>2, <2>0, CountSound
  <2>2. Beside(n, c)
    BY <2>0, CountBeside DEF OK
  <2>3. c.matched = n.matched /\ c.outbox = n.outbox
    <3>1. DOMAIN n = NodeFields
      BY DEF Sound, InGroup
    <3> QED BY <3>1 DEF Count, NodeFields
  <2> HIDE DEF c
  <2>4. Typed(c) /\ InGroup(c) /\ c.id = i
    BY <2>1, <2>2 DEF Beside, Sound
  <2>5. Busy(i, c, d, N, E, H, C)
    BY <1>2, <2>0, <2>1, <2>3, BusySame
  <2>6. CASE ElectionQuorum(c)
    <3>1. Quorum(FixedGroup, {c.peers[s] : s \in c.votes})
      BY <2>1, <2>6 DEF ElectionQuorum, Sound, InGroup
    <3>2. ASSUME NEW s \in c.votes PROVE c.peers[s] \in B
      <4>1. CASE s = slot
        BY <1>2, <2>1, <4>1
      <4>2. CASE s # slot
        <5>1. s \in n.votes /\ n.id = i /\ Counted(n, N)
          BY <1>2, <2>1, <4>2 DEF Sound
        <5>2. n.peers[s] \in Id /\ (n.peers[s] = i \/ Ballot(N, n.peers[s], i, n.st.term))
          BY <5>1 DEF Counted
        <5> QED BY <1>2, <2>1, <5>2 DEF Ballot
      <4> QED BY <4>1, <4>2
    <3> DEFINE A == {c.peers[s] : s \in c.votes}
    <3>3. A \subseteq B
      BY <3>2
    <3>4. B \in SUBSET Id /\ \A v \in B : Ballot(N, v, i, d.term)
      BY <2>0
    <3> HIDE DEF A, B
    <3>5. Quorum(FixedGroup, B)
      <4>1. FixedGroup \in Memberships
        BY Group
      <4>2. Quorum(FixedGroup, A)
        BY <3>1 DEF A
      <4> QED BY <3>3, <4>1, <4>2, QuorumGrows
    <3>6. Contends(i, c, N, E)
      BY <2>1, <2>5 DEF Busy, Trails
    <3>7. c.st = d
      BY <2>0, <2>1
    <3>8. OnVoted(n, slot, msg) = BecomeLeader(c)
      BY <1>2, <2>6 DEF OnVoted, c
    <3>9. \A x, y \in E \cup Leading(BecomeLeader(c)) : x.term = y.term => x.id = y.id
      BY <3>8
    <3>10. \E G : Leaves(T, L, i, BecomeLeader(c), d, N, E, H, C, G)
      BY <2>0, <2>1, <2>4, <3>4, <3>5, <3>6, <3>7, <3>9, BecomeLeaderBusy
    <3> QED BY <3>8, <3>10
  <2>7. CASE ~ElectionQuorum(c)
    <3>1. OnVoted(n, slot, msg) = c
      BY <1>2, <2>7 DEF OnVoted, c
    <3>2. Leaves(T, L, i, c, d, N, E, H, C, H)
      BY <2>1, <2>5, LeavesSame
    <3> QED BY <3>1, <3>2
  <2> QED BY <2>6, <2>7
<1> QED BY <1>1, <1>2

(* step: whatever a message makes a node do.                               *)
LEMMA StepBusy ==
  ASSUME FixedGroups, NEW sc \in DOMAIN Scenarios,
         NEW T, NEW L, NEW i, NEW m, NEW d, NEW N, NEW E, NEW H, NEW C, Ready(T, L, i, m, d, N, E, H, C),
         NEW env \in N, Truthful(env, N, E), Accepts(m, env),
         \A x, y \in E \cup Leading(Step(m, env)) : x.term = y.term => x.id = y.id
  PROVE  \E G : Leaves(T, L, i, Step(m, env), d, N, E, H, C, G)
<1> DEFINE msg == env.msg
           from == env.from
           slot == SlotOf(m.peers, from)
           n == AdoptTerm(m, msg.term)
           loyal == Follow(n, from)
           a == AppendOne(loyal, msg.previous, msg.entry, msg.commit)
           b == InstallSnapshot(loyal, msg.snapshot)
           r == Step(m, env)
<1>0. /\ AInv(T, L, N, E, H, C) /\ i \in Id /\ T[i] = d.term /\ L[i] = FullLog(d) /\ CP(d) /\ Sound(i, m, d, N, E)
      /\ DiskSafe(i, d, N, C) /\ (\A x \in N : MsgOK(x.msg)) /\ MsgSafe(env, E, H, C) /\ MsgOK(msg)
  BY DEF Ready
<1>1. /\ from \in Id /\ env.to = i /\ msg.term \in 0..U64Max /\ Valid(msg)
      /\ msg.type \in {"Vote", "Voted", "Append", "Install", "Replicated"}
  BY <1>0 DEF Truthful, Accepts, Sound
<1>2. slot \in Slot /\ m.peers[slot] = from
  BY <1>0, SlotFound DEF Accepts, Sound, InGroup
<1>3. Empties(m) /\ ~m.hooks
  BY <1>0 DEF Ready, Sound, InGroup
<1>4. Sound(i, n, d, N, E) /\ Empties(n) /\ n.peers = m.peers /\ msg.term <= n.st.term
  BY <1>0, <1>1, <1>3, AdoptSound
<1>5. n.st.term \in 0..U64Max /\ n.st.term \in Nat /\ msg.term \in Nat /\ n.peers[slot] = from
  BY <1>1, <1>2, <1>4, U64Assumption DEF Sound, HardState
<1>6. /\ Poised(i, n, d, N, E, H, C)
      /\ n = m \/ (n.role = "Follower" /\ n.st.term = msg.term /\ d.term < msg.term)
  BY <1>1, AdoptBusy
<1>7. /\ m.st = d /\ Whole(d) /\ FullLog(d) \in Seq(Entries) /\ Typed(m) /\ InGroup(m) /\ m.id = i
      /\ Ledger(H) /\ Rooted(FullLog(d), H) /\ C \in Seq(Entries) /\ d.term \in Nat
      /\ m.role # "Follower" => d.term # 0
  BY ReadyFacts
<1>8. r = IF msg.term < n.st.term THEN RefuseStale(n, slot, from, msg)
          ELSE CASE msg.type = "Vote" -> OnVote(n, slot, from, msg)
                 [] msg.type = "Voted" -> OnVoted(n, slot, msg)
                 [] msg.type = "Append" -> Reply(a, slot, from)
                 [] msg.type = "Install" -> Reply(b, slot, from)
                 [] msg.type = "Replicated" ->
                      IF n.role = "Leader" THEN Replicated(n, slot, msg.index, msg.rejection) ELSE n
  <2> HIDE DEF n, slot, a, b
  <2> QED BY <1>1, <1>3 DEF Step, n, slot, a, b
<1>9. Result(i, r, d, N, E)
  BY <1>0, StepResult
<1> HIDE DEF slot, n, a, b, loyal, r
<1>10. ASSUME Busy(i, r, d, N, E, H, C), r.role = "Leader" => n.role = "Leader" /\ r.st.term = n.st.term
       PROVE  \E G : Leaves(T, L, i, r, d, N, E, H, C, G)
  <2>1. r.id = i
    BY <1>9 DEF Result, Sound
  <2>2. r.role = "Leader" => [term |-> r.st.term, id |-> i] \in E
    BY <1>4, <1>10 DEF Sound
  <2> QED BY <1>0, <1>10, <2>1, <2>2, LeavesSame
<1>11. CASE msg.term < n.st.term
  <2>1. r = RefuseStale(n, slot, from, msg)
    BY <1>8, <1>11
  <2>2. Busy(i, r, d, N, E, H, C) /\ r.role = n.role /\ r.st = n.st
    BY <1>2, <1>6, <2>1, RefuseBusy
  <2> QED BY <1>10, <2>2 DEF r
<1>12. CASE ~(msg.term < n.st.term)
  <2>1. msg.term = n.st.term /\ n.st.term # 0
    <3>1. msg.term # 0
      BY <1>1, U64Assumption DEF Valid
    <3> QED BY <1>4, <1>5, <1>12, <3>1
  <2>2. CASE msg.type = "Vote"
    <3>1. r = OnVote(n, slot, from, env.msg)
      BY <1>8, <1>12, <2>2
    <3>2. IsVote(env, from, n.st.term)
      BY <2>1, <2>2 DEF IsVote
    <3>3. Busy(i, r, d, N, E, H, C) /\ r.role = n.role /\ r.st.term = n.st.term
      BY <1>1, <1>2, <1>5, <1>6, <2>1, <3>1, <3>2, OnVoteBusy
    <3> QED BY <1>10, <3>3 DEF r
  <2>3. CASE msg.type = "Voted"
    <3>1. msg.granted => Ballot(N, from, i, n.st.term) /\ Asked(N, i, n.st.term)
      BY <1>1, <2>1, <2>3 DEF Ballot, Truthful
    <3>2. r = OnVoted(n, slot, msg)
      BY <1>8, <1>12, <2>3
    <3>3. n.role = "Candidate" => n.st = d /\ d.term # 0
      BY <1>6, <1>7
    <3>4. \A x, y \in E \cup Leading(OnVoted(n, slot, msg)) : x.term = y.term => x.id = y.id
      BY <3>2 DEF r
    <3>5. \E G : Leaves(T, L, i, OnVoted(n, slot, msg), d, N, E, H, C, G)
      BY <1>0, <1>1, <1>2, <1>4, <1>5, <1>6, <3>1, <3>3, <3>4, OnVotedBusy
    <3> QED BY <3>2, <3>5 DEF r
  <2>4. CASE msg.type \in {"Append", "Install"}
    <3>1. [term |-> n.st.term, id |-> from] \in E
      BY <2>1, <2>4 DEF Truthful
    <3>2. Sound(i, loyal, d, N, E) /\ loyal.peers = n.peers /\ loyal.st = n.st
      <4>1. Beside(n, loyal)
        BY <1>6, FollowBeside DEF OK, Poised, loyal
      <4>2. Sound(i, loyal, d, N, E) /\ loyal.peers = n.peers
        BY <1>0, <1>1, <1>4, <3>1, FollowSound DEF loyal
      <4> QED BY <4>1, <4>2 DEF Beside
    <3>3. InGroup(loyal) /\ loyal.peers[slot] = from /\ loyal.role = "Follower" /\ Empties(loyal)
      <4>1. DOMAIN n = NodeFields
        BY <1>4 DEF Sound, InGroup
      <4>2. loyal.role = "Follower" /\ loyal.outbox = n.outbox
        BY <4>1 DEF loyal, Follow, NodeFields
      <4> QED BY <1>4, <1>5, <3>2, <4>2 DEF Sound, Empties
    <3>4. OK(d, loyal) /\ Whole(loyal.st) /\ FullLog(loyal.st) = FullLog(d) /\ Agree(FullLog(d), C, loyal.st.commit)
      <4>1. Beside(n, loyal)
        BY <1>6, FollowBeside DEF OK, Poised, loyal
      <4>2. OK(d, loyal)
        BY <1>6, <4>1, BesideOK, SMTT(30) DEF Poised
      <4> QED BY <1>0, <1>6, <3>2, <4>2 DEF Poised, DiskSafe
    <3>5. n.st.term \in DOMAIN H
      BY <1>0, <2>1, <2>4 DEF MsgSafe
    <3>6. ASSUME NEW p, Seated(d, H, C, loyal, p.n), r = Reply(p, slot, from),
                 p.rejection = None => p.index \in Nat /\ Agree(FullLog(p.n.st), H[loyal.st.term], p.index)
          PROVE  \E G : Leaves(T, L, i, r, d, N, E, H, C, G)
      <4>1. loyal.st.term \in DOMAIN H /\ [term |-> loyal.st.term, id |-> from] \in E
        BY <3>1, <3>2, <3>5
      <4>2. Busy(i, Reply(p, slot, from), d, N, E, H, C) /\ Reply(p, slot, from).role = "Follower"
        BY <1>2, <3>3, <3>6, <4>1, ReplyBusy
      <4> QED BY <1>10, <3>6, <4>2
    <3>7. CASE msg.type = "Append"
      <4>1. /\ msg.previous \in LogIds /\ msg.entry \in Entries \cup {None} /\ msg.commit \in Nat
        BY <1>0, <3>7 DEF MsgOK
      <4>2. ASSUME msg.entry # None PROVE Continues(loyal.st, msg.previous, msg.entry)
        <5>1. Chained(msg.previous, <<msg.entry>>, msg.term)
          BY <1>1, <3>7, <4>2 DEF Valid
        <5>2. ValidId(msg.entry.id, msg.term) /\ msg.entry.id.index = msg.previous.index + 1 /\ msg.entry.id.term >= msg.previous.term
          <6>1. 1 \in DOMAIN <<msg.entry>> /\ <<msg.entry>>[1] = msg.entry
            OBVIOUS
          <6> QED BY <5>1, <6>1 DEF Chained
        <5>3. msg.previous.index \in Nat
          BY <4>1, U64Assumption DEF LogIds
        <5>4. msg.entry.id.term \in 1..msg.term
          BY <5>2, <5>3 DEF ValidId, Genesis
        <5>5. msg.entry \in Entries
          BY <4>1, <4>2
        <5> QED BY <1>5, <2>1, <3>2, <4>1, <5>2, <5>4, <5>5, U64Assumption DEF Continues
      <4>3. /\ Agree(H[n.st.term], C, msg.commit)
            /\ \/ msg.previous = Genesis
               \/ msg.previous.index \in 1..Len(H[n.st.term]) /\ H[n.st.term][msg.previous.index].id = msg.previous
            /\ msg.entry # None => /\ msg.previous.index + 1 \in 1..Len(H[n.st.term])
                                   /\ msg.entry = H[n.st.term][msg.previous.index + 1]
        BY <1>0, <2>1, <3>7 DEF MsgSafe
      <4>4. Offered(loyal, H, msg.previous, msg.entry)
        BY <3>2, <3>5, <4>1, <4>2, <4>3 DEF Offered
      <4>5. Agree(H[loyal.st.term], C, msg.commit)
        BY <3>2, <4>3
      <4>6. /\ Seated(d, H, C, loyal, a.n)
            /\ a.rejection = None => a.index \in Nat /\ Agree(FullLog(a.n.st), H[loyal.st.term], a.index)
        BY <1>0, <1>7, <3>3, <3>4, <4>1, <4>4, <4>5, AppendSeated DEF a
      <4>7. r = Reply(a, slot, from)
        BY <1>8, <1>12, <3>7
      <4> QED BY <3>6, <4>6, <4>7 DEF r
    <3>8. CASE msg.type = "Install"
      <4>1. msg.snapshot \in Snapshots
        BY <1>0, <3>8, SMTT(30) DEF MsgOK
      <4>2. Imaged(loyal, H, C, msg.snapshot)
        BY <1>0, <2>1, <3>2, <3>5, <3>8, <4>1 DEF MsgSafe, Imaged
      <4>3. /\ Seated(d, H, C, loyal, b.n)
            /\ b.rejection = None => b.index \in Nat /\ Agree(FullLog(b.n.st), H[loyal.st.term], b.index)
        BY <1>0, <1>7, <3>3, <3>4, <4>2, InstallSeated DEF b
      <4>4. r = Reply(b, slot, from)
        BY <1>8, <1>12, <3>8
      <4> QED BY <3>6, <4>3, <4>4 DEF r
    <3> QED BY <2>4, <3>7, <3>8
  <2>5. CASE msg.type = "Replicated"
    <3>1. CASE n.role = "Leader"
      <4>1. n = m /\ m.role = "Leader" /\ m.peers[slot] \in Id
        BY <1>1, <1>2, <1>6, <3>1
      <4>2. msg.index \in Nat
        BY <1>0, <2>5 DEF MsgOK
      <4>3. msg.rejection = None => \E x \in N : IsAck(x, m.peers[slot], m.st.term, msg.index)
        <5>1. msg.rejection = None => IsAck(env, m.peers[slot], m.st.term, msg.index)
          BY <1>2, <2>1, <2>5, <4>1, <4>2 DEF IsAck
        <5> QED BY <5>1
      <4>4. Busy(i, Replicated(m, slot, msg.index, msg.rejection), d, N, E, H, C)
        BY <1>2, <4>1, <4>2, <4>3, ReplicatedBusy
      <4>5. r = Replicated(m, slot, msg.index, msg.rejection)
        BY <1>8, <1>12, <2>5, <3>1, <4>1
      <4>6. Keeps(m, Replicated(m, slot, msg.index, msg.rejection))
        BY <1>2, <1>7, <4>1, ReplicatedKeeps
      <4> QED BY <1>10, <3>1, <4>1, <4>4, <4>5, <4>6 DEF r, Keeps
    <3>2. CASE n.role # "Leader"
      <4>1. r = n
        BY <1>8, <1>12, <2>5, <3>2
      <4>2. Busy(i, n, d, N, E, H, C)
        BY <1>6 DEF Poised
      <4> QED BY <1>10, <3>2, <4>1, <4>2 DEF r
    <3> QED BY <3>1, <3>2
  <2> QED BY <1>1, <2>2, <2>3, <2>4, <2>5
<1> QED BY <1>11, <1>12

-----------------------------------------------------------------------------
(* The invariant of the whole group.                                       *)

(* Terms and logs on the disks D.                                          *)
TermsOf(D) == [q \in Id |-> D[q].term]
LogsOf(D) == [q \in Id |-> FullLog(D[q])]

(* A node that has saved everything, and its disk.                         *)
Rests(j, n, d, N, E, H, C) ==
  /\ CP(d) /\ DiskSafe(j, d, N, C) /\ Quiet(j, n, N, E, H)
  /\ n.role = "Leader" => [term |-> n.st.term, id |-> j] \in E

(* A node that waits for its save.                                         *)
Waits(j, n, d, N, E, H, C) == CP(d) /\ DiskSafe(j, d, N, C) /\ Busy(j, n, d, N, E, H, C)

LSafe(D, S, N, E, C, H) ==
  /\ AInv(TermsOf(D), LogsOf(D), N, E, H, C)
  /\ \A j \in Id : IF S[j].dirty THEN Waits(j, S[j], D[j], N, E, H, C) ELSE Rests(j, S[j], D[j], N, E, H, C)
  /\ \A e \in N : MsgSafe(e, E, H, C)
LInv == \E H : LSafe(disk, nodes, net, elected, chosen, H)

(* The others rest while node i makes messages, a leader or its log.       *)
LEMMA RestsOn ==
  ASSUME NEW j, NEW n, NEW d, NEW N, NEW M, N \subseteq M, NEW E, NEW F, E \subseteq F, NEW H, NEW G,
         NEW C \in Seq(Entries), NEW B \in Seq(Entries), Agree(C, B, Len(C)), Rests(j, n, d, N, E, H, C),
         DOMAIN H \subseteq DOMAIN G, \A u \in DOMAIN H : [term |-> u, id |-> j] \in E => G[u] = H[u],
         \A w \in M \ N : w.from # j, \A x \in F \ E : x.id # j
  PROVE  Rests(j, n, d, M, F, G, B)
<1>1. CP(d) /\ DiskSafe(j, d, N, C) /\ Quiet(j, n, N, E, H)
      /\ (n.role = "Leader" => [term |-> n.st.term, id |-> j] \in E)
  BY DEF Rests
<1>2. DiskSafe(j, d, M, B)
  BY <1>1, DiskStays
<1>3. n.role = "Leader" => G[n.st.term] = H[n.st.term]
  BY <1>1 DEF Quiet
<1>4. Quiet(j, n, M, F, G)
  BY <1>1, <1>3, QuietStays
<1> QED BY <1>1, <1>2, <1>4 DEF Rests

(* What a host already knows is no news.                                   *)
LEMMA NothingNew ==
  ASSUME NEW d, CP(d), Whole(d), NEW C \in Seq(Entries), Agree(FullLog(d), C, d.commit)
  PROVE  Longest(C, Committed(d)) = C
<1> DEFINE F == FullLog(d)
           P == SubSeq(F, 1, d.commit)
<1>1. F \in Seq(Entries) /\ d.commit \in Nat /\ Committed(d) = P
  BY Shape, Reading, Measures DEF Committed
<1>2. /\ d.commit <= Len(F) /\ d.commit <= Len(C) /\ (\A k \in 1..d.commit : F[k] = C[k])
      /\ Len(F) \in Nat /\ Len(C) \in Nat
  BY <1>1 DEF Agree
<1> HIDE DEF F
<1>3. P \in Seq(Entries) /\ Len(P) = d.commit /\ \A k \in 1..d.commit : P[k] = F[k]
  BY <1>1, <1>2
<1> HIDE DEF P
<1>4. CASE Len(C) > Len(P)
  BY <1>1, <1>4 DEF Longest
<1>5. CASE ~(Len(C) > Len(P))
  <2>1. Len(C) = Len(P)
    BY <1>1, <1>2, <1>3, <1>5
  <2>2. \A k \in 1..Len(C) : C[k] = P[k]
    BY <1>2, <1>3, <2>1
  <2>3. C = P
    BY <1>3, <2>1, <2>2
  <2> QED BY <1>1, <1>5, <2>3 DEF Longest
<1> QED BY <1>4, <1>5

(* A save does not change what leaves the node.                            *)
LEMMA PersistedOutgoing ==
  ASSUME NEW m, DOMAIN m = NodeFields
  PROVE  LET x == Persisted(m) IN
         /\ Outgoing(x) = Outgoing(m) /\ x.st = m.st /\ x.role = m.role /\ x.matched = m.matched /\ x.peers = m.peers
         /\ ~x.dirty
<1> DEFINE x == Persisted(m)
<1>1. /\ DOMAIN x = NodeFields /\ ~x.dirty
      /\ \A f \in NodeFields \ {"dirty", "logFrom", "snapChanged"} : x[f] = m[f]
  BY DEF Persisted, NodeFields
<1> HIDE DEF x
<1>2. /\ x.st = m.st /\ x.role = m.role /\ x.matched = m.matched /\ x.peers = m.peers /\ x.id = m.id
      /\ x.outbox = m.outbox /\ x.extra = m.extra /\ x.next = m.next /\ x.hooks = m.hooks
  BY <1>1 DEF NodeFields
<1>3. ASSUME NEW s, NEW o PROVE MessageOf(x, s, o) = MessageOf(m, s, o)
  BY <1>2 DEF MessageOf
<1>4. Outgoing(x) = Outgoing(m)
  BY <1>2, <1>3 DEF Outgoing
<1> QED BY <1>1, <1>2, <1>4 DEF x

(* Draining empties the queue and changes nothing else.                    *)
LEMMA DrainedFields ==
  ASSUME NEW m, DOMAIN m = NodeFields
  PROVE  LET x == Drained(m) IN
         x.st = m.st /\ x.role = m.role /\ x.matched = m.matched /\ x.peers = m.peers /\ x.dirty = m.dirty
<1> DEFINE x == Drained(m)
<1>1. \A f \in NodeFields \ {"outbox", "extra"} : x[f] = m[f]
  BY DEF Drained, NodeFields
<1> HIDE DEF x
<1> QED BY <1>1 DEF NodeFields, x

(* What a node holds only depends on these fields.                         *)
LEMMA QuietSame ==
  ASSUME NEW i, NEW n, NEW N, NEW E, NEW H, Quiet(i, n, N, E, H),
         NEW x, x.st = n.st, x.role = n.role, x.matched = n.matched, x.peers = n.peers
  PROVE  Quiet(i, x, N, E, H)
<1>1. MatchedSafe(i, n, N) => MatchedSafe(i, x, N)
  BY DEF MatchedSafe
<1>2. Contends(i, n, N, E) => Contends(i, x, N, E)
  BY DEF Contends
<1> QED BY <1>1, <1>2 DEF Quiet

(* All is safe but what node i has just done.                              *)
Around(i, D, S, N, E, C, H) ==
  /\ AInv(TermsOf(D), LogsOf(D), N, E, H, C) /\ \A e \in N : MsgOK(e.msg) /\ MsgSafe(e, E, H, C)
  /\ \A j \in Id \ {i} : ~S[j].dirty /\ Rests(j, S[j], D[j], N, E, H, C)

(* What node i has done, over its disk.                                    *)
Within(i, r, d, N, E, C, H) ==
  CP(d) /\ DiskSafe(i, d, N, C) /\ OK(d, r) /\ Sound(i, r, d, N, E) /\ Busy(i, r, d, N, E, H, C)

(* Disks P and nodes Q after node i with D and S has saved r.              *)
SavedBy(i, r, D, S, P, Q) ==
  /\ P[i] = r.st /\ \A j \in Id \ {i} : P[j] = D[j] /\ Q[j] = S[j]
  /\ ~Q[i].dirty /\ Q[i].st = r.st /\ Q[i].role = r.role /\ Q[i].matched = r.matched /\ Q[i].peers = r.peers
Leaving(r, Z) == \A e \in Z : e \in Outgoing(r) /\ e.msg # None

(* Node i saves and drains: everything is safe again.                      *)
LEMMA Drains ==
  ASSUME FixedGroup \in Memberships, NEW D, NEW S, NEW N, NEW E, NEW C, NEW H, NEW i \in Id,
         Around(i, D, S, N, E, C, H), NEW r, Within(i, r, D[i], N, E, C, H),
         NEW P, NEW Q, SavedBy(i, r, D, S, P, Q), NEW Z, Leaving(r, Z)
  PROVE  /\ \E G : LSafe(P, Q, N \cup Z, E, Longest(C, Committed(r.st)), G)
         /\ Agree(C, Longest(C, Committed(r.st)), Len(C))
<1> DEFINE T == TermsOf(D)
           L == LogsOf(D)
           U == TermsOf(P)
           K == LogsOf(P)
           d == D[i]
           B == Longest(C, Committed(r.st))
           M == N \cup Z
<1>1. /\ T[i] = d.term /\ L[i] = FullLog(d) /\ U[i] = r.st.term /\ K[i] = FullLog(r.st)
      /\ (\A q \in Id \ {i} : U[q] = T[q]) /\ (\A q \in Id \ {i} : K[q] = L[q])
  BY DEF TermsOf, LogsOf, SavedBy
<1>2. /\ CP(d) /\ DiskSafe(i, d, N, C) /\ OK(d, r) /\ Sound(i, r, d, N, E) /\ Busy(i, r, d, N, E, H, C)
      /\ AInv(T, L, N, E, H, C)
  BY DEF Around, Within
<1> HIDE DEF T, L, U, K, d
<1>3. \E G : FlushedAs(i, r, U, K, N, Z, E, H, C, B, G)
  <2>1. /\ FixedGroup \in Memberships /\ i \in Id /\ (\A e \in N : MsgOK(e.msg) /\ MsgSafe(e, E, H, C))
        /\ (\A e \in Z : e \in Outgoing(r) /\ e.msg # None)
    BY DEF Around, Leaving
  <2> QED BY ONLY <1>1, <1>2, <2>1, Flush, ZenonT(90)
<1>4. PICK G : FlushedAs(i, r, U, K, N, Z, E, H, C, B, G)
  BY <1>3
<1>5. /\ AInv(U, K, M, E, G, B) /\ Grows(H, G) /\ DOMAIN G = DOMAIN H
      /\ (\A u \in DOMAIN H : [term |-> u, id |-> i] \notin E => G[u] = H[u])
      /\ C \in Seq(Entries) /\ B \in Seq(Entries) /\ Agree(C, B, Len(C))
      /\ DiskSafe(i, r.st, M, B) /\ Quiet(i, r, M, E, G)
      /\ (\A e \in M : MsgSafe(e, E, G, B)) /\ \A e \in Z : e.from = i
  BY <1>4 DEF FlushedAs
<1> HIDE DEF B
<1>6. ASSUME NEW j \in Id \ {i} PROVE ~Q[j].dirty /\ Rests(j, Q[j], P[j], M, E, G, B)
  <2>1. PICK n, p : n = Q[j] /\ p = P[j]
    OBVIOUS
  <2>2. ~n.dirty /\ Rests(j, n, p, N, E, H, C)
    BY <2>1 DEF Around, SavedBy
  <2>3. \A u \in DOMAIN H : [term |-> u, id |-> j] \in E => G[u] = H[u]
    <3> SUFFICES ASSUME NEW u \in DOMAIN H, [term |-> u, id |-> j] \in E PROVE [term |-> u, id |-> i] \notin E
      BY <1>5
    <3>1. \A x, y \in E : x.term = y.term => x.id = y.id
      BY <1>2 DEF AInv, LeadersOK
    <3> DEFINE x == [term |-> u, id |-> j]
               y == [term |-> u, id |-> i]
    <3>2. x.term = u /\ y.term = u /\ x.id = j /\ y.id = i
      OBVIOUS
    <3> HIDE DEF x, y
    <3> QED BY <3>1, <3>2 DEF x, y
  <2>4. Rests(j, n, p, M, E, G, B)
    <3>1. N \subseteq M /\ E \subseteq E /\ DOMAIN H \subseteq DOMAIN G
      BY <1>5
    <3>2. (\A w \in M \ N : w.from # j) /\ \A x \in E \ E : x.id # j
      BY <1>5
    <3> HIDE DEF M
    <3> QED BY <1>5, <2>2, <2>3, <3>1, <3>2, RestsOn
  <2> QED BY <2>1, <2>2, <2>4
<1>7. ~Q[i].dirty /\ Rests(i, Q[i], P[i], M, E, G, B)
  <2>1. PICK x : x = Q[i]
    OBVIOUS
  <2>2. ~x.dirty /\ x.st = r.st /\ x.role = r.role /\ x.matched = r.matched /\ x.peers = r.peers /\ P[i] = r.st
    BY <2>1 DEF SavedBy
  <2>3. Quiet(i, x, M, E, G)
    BY <1>5, <2>2, QuietSame
  <2>4. CP(r.st)
    BY <1>2 DEF OK, Held
  <2>5. r.role = "Leader" => [term |-> r.st.term, id |-> i] \in E
    BY <1>2 DEF Sound
  <2> QED BY <1>5, <2>1, <2>2, <2>3, <2>4, <2>5 DEF Rests
<1>8. \A j \in Id : ~Q[j].dirty /\ Rests(j, Q[j], P[j], M, E, G, B)
  BY <1>6, <1>7
<1>9. LSafe(P, Q, M, E, B, G)
  BY <1>5, <1>8 DEF LSafe, U, K
<1> QED BY <1>5, <1>9 DEF B

(* An operation that leaves something to save.                             *)
LEMMA Pauses ==
  ASSUME NEW D, NEW S, NEW N, NEW E, NEW C, NEW H, LSafe(D, S, N, E, C, H), \A e \in N : MsgOK(e.msg),
         NEW i \in Id, ~S[i].dirty, \A j \in Id \ {i} : ~S[j].dirty,
         NEW r, r.id = i, NEW G, Leaves(TermsOf(D), LogsOf(D), i, r, D[i], N, E, H, C, G),
         NEW F, F = E \cup Leading(r)
  PROVE  /\ AInv(TermsOf(D), LogsOf(D), N, F, G, C) /\ CP(D[i]) /\ DiskSafe(i, D[i], N, C) /\ Busy(i, r, D[i], N, F, G, C)
         /\ \A j \in Id \ {i} : Rests(j, S[j], D[j], N, F, G, C)
         /\ \A e \in N : MsgSafe(e, F, G, C)
<1>1. /\ AInv(TermsOf(D), LogsOf(D), N, F, G, C) /\ Busy(i, r, D[i], N, F, G, C)
      /\ Grows(H, G) /\ \A u \in DOMAIN H : G[u] = H[u]
  BY DEF Leaves
<1>2. /\ AInv(TermsOf(D), LogsOf(D), N, E, H, C) /\ (\A j \in Id : Rests(j, S[j], D[j], N, E, H, C))
      /\ \A e \in N : MsgSafe(e, E, H, C)
  BY DEF LSafe
<1>3. C \in Seq(Entries) /\ Agree(C, C, Len(C)) /\ Ledger(H) /\ Ledger(G) /\ DOMAIN H \subseteq DOMAIN G /\ E \subseteq F
  <2>1. C \in Seq(Entries) /\ Ledger(H) /\ Ledger(G)
    BY <1>1, <1>2 DEF AInv, ChosenOK
  <2> QED BY <1>1, <2>1 DEF Agree, Grows
<1>4. ASSUME NEW j \in Id \ {i} PROVE Rests(j, S[j], D[j], N, F, G, C)
  <2>1. PICK n, d : n = S[j] /\ d = D[j]
    OBVIOUS
  <2>2. Rests(j, n, d, N, E, H, C)
    BY <1>2, <2>1
  <2>3. (\A x \in F \ E : x.id # j) /\ N \subseteq N /\ \A w \in N \ N : w.from # j
    BY DEF Leading
  <2>4. \A u \in DOMAIN H : [term |-> u, id |-> j] \in E => G[u] = H[u]
    BY <1>1
  <2>5. Rests(j, n, d, N, F, G, C)
    BY <1>3, <2>2, <2>3, <2>4, RestsOn
  <2> QED BY <2>1, <2>5
<1>5. ASSUME NEW e \in N PROVE MsgSafe(e, F, G, C)
  BY <1>1, <1>2, <1>3, MsgStays
<1>6. CP(D[i]) /\ DiskSafe(i, D[i], N, C)
  BY <1>2 DEF Rests
<1> QED BY <1>1, <1>4, <1>5, <1>6

-----------------------------------------------------------------------------
(* Steps of the system.                                                    *)

(* What every operation starts from.                                       *)
LEMMA StartsReady ==
  ASSUME RInv, DInv, NEW H, LSafe(disk, nodes, net, elected, chosen, H), NEW i \in Id, Available(nodes[i])
  PROVE  Ready(TermsOf(disk), LogsOf(disk), i, nodes[i], disk[i], net, elected, H, chosen)
<1>1. PICK m, d, T, L : m = nodes[i] /\ d = disk[i] /\ T = TermsOf(disk) /\ L = LogsOf(disk)
  OBVIOUS
<1>2. ~m.dirty /\ Empties(m)
  BY <1>1, AvailableEmpties DEF Available
<1>3. CP(d) /\ OK(d, m) /\ Sound(i, m, d, net, elected) /\ \A e \in net : MsgOK(e.msg)
  BY <1>1 DEF DInv, RInv
<1>4. /\ AInv(T, L, net, elected, H, chosen) /\ (\A e \in net : MsgSafe(e, elected, H, chosen))
      /\ Rests(i, m, d, net, elected, H, chosen)
  BY <1>1, <1>2 DEF LSafe
<1>5. T[i] = d.term /\ L[i] = FullLog(d)
  BY <1>1 DEF TermsOf, LogsOf
<1>6. Ready(T, L, i, m, d, net, elected, H, chosen)
  BY <1>2, <1>3, <1>4, <1>5 DEF Ready, Rests
<1> QED BY <1>1, <1>6

(* One operation of node i.                                                *)
LEMMA ActSafe ==
  ASSUME FixedGroups, RInv, DInv, NEW H, LSafe(disk, nodes, net, elected, chosen, H),
         NEW i \in Id, Turn(i), ~nodes[i].dirty,
         NEW r, Act(i, r), OK(disk[i], r), Result(i, r, disk[i], net, elected),
         NEW G, Leaves(TermsOf(disk), LogsOf(disk), i, r, disk[i], net, elected, H, chosen, G)
  PROVE  LInv'
<1>1. PICK D, S, N, E, C : D = disk /\ S = nodes /\ N = net /\ E = elected /\ C = chosen
  OBVIOUS
<1>2. PICK F, Q, Z : F = E \cup Leading(r) /\ Q = nodes' /\ Z = Sent(r)
  OBVIOUS
<1>3. /\ disk' = D /\ chosen' = C /\ elected' = F
      /\ Q = [S EXCEPT ![i] = IF r.dirty THEN r ELSE Drained(r)]
      /\ net' = IF r.dirty THEN N ELSE N \cup Z
  BY <1>1, <1>2 DEF Act
<1>4. /\ LSafe(D, S, N, E, C, H) /\ (\A e \in N : MsgOK(e.msg)) /\ (\A j \in Id \ {i} : ~S[j].dirty) /\ ~S[i].dirty
      /\ DOMAIN S = Id /\ OK(D[i], r) /\ Sound(i, r, D[i], N, F) /\ r.id = i
      /\ Leaves(TermsOf(D), LogsOf(D), i, r, D[i], N, E, H, C, G)
  <2>1. \A e \in N : MsgOK(e.msg)
    BY <1>1 DEF DInv
  <2>2. \A j \in Id \ {i} : ~S[j].dirty
    BY <1>1 DEF Turn
  <2>3. Sound(i, r, D[i], N, F)
    BY <1>1, <1>2 DEF Result
  <2> QED BY <1>1, <2>1, <2>2, <2>3 DEF Sound, RInv
<1>5. /\ AInv(TermsOf(D), LogsOf(D), N, F, G, C) /\ CP(D[i]) /\ DiskSafe(i, D[i], N, C) /\ Busy(i, r, D[i], N, F, G, C)
      /\ (\A j \in Id \ {i} : Rests(j, S[j], D[j], N, F, G, C))
      /\ \A e \in N : MsgSafe(e, F, G, C)
  BY <1>2, <1>4, Pauses
<1>6. CASE r.dirty
  <2>1. ASSUME NEW j \in Id
        PROVE  IF Q[j].dirty THEN Waits(j, Q[j], D[j], N, F, G, C) ELSE Rests(j, Q[j], D[j], N, F, G, C)
    <3>1. CASE j = i
      BY <1>3, <1>4, <1>5, <1>6, <3>1 DEF Waits
    <3>2. CASE j # i
      BY <1>3, <1>4, <1>5, <3>2
    <3> QED BY <3>1, <3>2
  <2>2. LSafe(D, Q, N, F, C, G)
    BY <1>5, <2>1 DEF LSafe
  <2>3. disk' = D /\ nodes' = Q /\ net' = N /\ elected' = F /\ chosen' = C
    BY <1>2, <1>3, <1>6
  <2> QED BY <2>2, <2>3 DEF LInv
<1>7. CASE ~r.dirty
  <2>1. r.st = D[i]
    BY <1>4, <1>7 DEF OK, Held
  <2>2. Longest(C, Committed(r.st)) = C
    <3>1. C \in Seq(Entries)
      BY <1>5 DEF AInv, ChosenOK
    <3>2. PICK d : d = D[i]
      OBVIOUS
    <3>3. CP(d) /\ Whole(d) /\ Agree(FullLog(d), C, d.commit)
      BY <1>5, <3>2 DEF DiskSafe
    <3>4. Longest(C, Committed(d)) = C
      BY <3>1, <3>3, NothingNew
    <3> QED BY <2>1, <3>2, <3>4
  <2>3. /\ (\A j \in Id \ {i} : Q[j] = S[j]) /\ ~Q[i].dirty /\ Q[i].st = r.st /\ Q[i].role = r.role
        /\ Q[i].matched = r.matched /\ Q[i].peers = r.peers
    <3>1. DOMAIN r = NodeFields
      BY <1>4 DEF Sound, InGroup
    <3>2. PICK x : x = Drained(r)
      OBVIOUS
    <3>3. x.st = r.st /\ x.role = r.role /\ x.matched = r.matched /\ x.peers = r.peers /\ x.dirty = r.dirty
      BY <3>1, <3>2, DrainedFields
    <3>4. Q[i] = x /\ \A j \in Id \ {i} : Q[j] = S[j]
      BY <1>3, <1>4, <1>7, <3>2
    <3> QED BY <1>7, <3>3, <3>4
  <2>4. Leaving(r, Z)
    BY <1>2 DEF Sent, Leaving
  <2>5. FixedGroup \in Memberships
    BY Group DEF RInv
  <2>6. PICK P : P = D
    OBVIOUS
  <2>7. Around(i, D, S, N, F, C, G) /\ Within(i, r, D[i], N, F, C, G) /\ SavedBy(i, r, D, S, P, Q)
    BY <1>4, <1>5, <2>1, <2>3, <2>6 DEF Around, Within, SavedBy
  <2>8. \E K : LSafe(P, Q, N \cup Z, F, Longest(C, Committed(r.st)), K)
    BY <2>4, <2>5, <2>7, Drains
  <2>9. disk' = P /\ nodes' = Q /\ net' = N \cup Z /\ elected' = F /\ chosen' = C
    BY <1>2, <1>3, <1>7, <2>6
  <2> QED BY <2>2, <2>8, <2>9 DEF LInv
<1> QED BY <1>6, <1>7

(* A node that is built follows, with nothing to save.                     *)
LEMMA BuildFollows ==
  ASSUME NEW d, CP(d), NEW id \in Id, NEW genesis \in Configs, NEW hooks
  PROVE  LET r == Build(id, d, genesis, hooks) IN r.role = "Follower" /\ ~r.dirty
<1> DEFINE x == [id |-> id, st |-> d, bootstrap |-> genesis, hooks |-> hooks,
                 role |-> "Follower", leader |-> None, membership |-> genesis,
                 peers |-> genesis.slots, votes |-> {}, active |-> {},
                 next |-> Ones, matched |-> Zeros,
                 outbox |-> [s \in Slot |-> None], extra |-> None,
                 dirty |-> FALSE, logFrom |-> None, snapChanged |-> FALSE,
                 prevoting |-> None, aged |-> TRUE]
<1>1. /\ DOMAIN x = NodeFields /\ x.id = id /\ x.st = d /\ x.bootstrap = genesis /\ x.membership = genesis
      /\ x.next = Ones /\ x.matched = Zeros /\ x.outbox = [s \in Slot |-> None] /\ x.extra = None
      /\ x.dirty = FALSE /\ x.role = "Follower"
  BY DEF NodeFields
<1>2. Build(id, d, genesis, hooks) = RefreshMembership(x)
  BY DEF Build
<1> HIDE DEF x
<1>3. Typed(x)
  <2>1. x.next \in [Slot -> 1..U64Max] /\ x.matched \in [Slot -> 0..U64Max]
    BY <1>1, U64Assumption DEF Ones, Zeros
  <2> QED BY <1>1, <2>1 DEF Typed, OutOK
<1>4. Beside(x, RefreshMembership(x))
  BY <1>1, <1>3, RefreshBeside
<1> QED BY <1>1, <1>2, <1>4 DEF Beside

(* A save: what Flush says of one node.                                    *)
LEMMA SaveSafe ==
  ASSUME FixedGroups, RInv, DInv, LInv, NEW i \in Id, Turn(i), Save(i)
  PROVE  LInv' /\ Agree(chosen, chosen', Len(chosen))
<1>1. PICK H : LSafe(disk, nodes, net, elected, chosen, H)
  BY DEF LInv
<1>2. PICK D, S, N, E, C : D = disk /\ S = nodes /\ N = net /\ E = elected /\ C = chosen
  OBVIOUS
<1>3. PICK m, x, w, P, Q, Z : /\ m = nodes[i] /\ x = Persisted(m) /\ w = ApplyWrite(disk[i], Pending(m))
                              /\ P = disk' /\ Q = nodes' /\ Z = Sent(x)
  OBVIOUS
<1>4. /\ m.dirty /\ P = [D EXCEPT ![i] = w] /\ Q = [S EXCEPT ![i] = Drained(x)]
      /\ net' = N \cup Z /\ chosen' = Longest(C, Committed(x.st)) /\ elected' = E
  BY <1>2, <1>3 DEF Save
<1>5. /\ CP(D[i]) /\ OK(D[i], m) /\ Sound(i, m, D[i], N, E) /\ (\A e \in N : MsgOK(e.msg)) /\ DOMAIN D = Id /\ DOMAIN S = Id
      /\ DOMAIN m = NodeFields
  BY <1>2, <1>3 DEF DInv, RInv, OK, Typed
<1>6. w = m.st
  BY <1>2, <1>3, <1>5, Exact DEF OK, Held
<1>7. /\ Outgoing(x) = Outgoing(m) /\ x.st = m.st /\ x.role = m.role /\ x.matched = m.matched /\ x.peers = m.peers
      /\ ~x.dirty
  BY <1>3, <1>5, PersistedOutgoing
<1>8. DOMAIN x = NodeFields
  BY <1>3, <1>5 DEF Persisted, NodeFields
<1>9. SavedBy(i, m, D, S, P, Q)
  <2>1. PICK y : y = Drained(x)
    OBVIOUS
  <2>2. y.st = x.st /\ y.role = x.role /\ y.matched = x.matched /\ y.peers = x.peers /\ y.dirty = x.dirty
    BY <1>8, <2>1, DrainedFields
  <2>3. Q[i] = y /\ P[i] = m.st /\ \A j \in Id \ {i} : P[j] = D[j] /\ Q[j] = S[j]
    BY <1>4, <1>5, <1>6, <2>1
  <2> QED BY <1>7, <2>2, <2>3 DEF SavedBy
<1>10. LSafe(D, S, N, E, C, H) /\ \A j \in Id \ {i} : ~S[j].dirty
  BY <1>1, <1>2 DEF Turn
<1>11. Around(i, D, S, N, E, C, H)
  BY <1>5, <1>10 DEF LSafe, Around
<1>12. Within(i, m, D[i], N, E, C, H)
  <2>1. Waits(i, m, D[i], N, E, H, C)
    BY <1>2, <1>3, <1>4, <1>10 DEF LSafe
  <2> QED BY <1>5, <2>1 DEF Waits, Within
<1>13. Leaving(m, Z)
  BY <1>3, <1>7 DEF Leaving, Sent
<1>14. FixedGroup \in Memberships
  BY Group DEF RInv
<1>15. /\ \E G : LSafe(P, Q, N \cup Z, E, Longest(C, Committed(m.st)), G)
       /\ Agree(C, Longest(C, Committed(m.st)), Len(C))
  BY <1>9, <1>11, <1>12, <1>13, <1>14, Drains
<1>16. LInv'
  BY <1>3, <1>4, <1>7, <1>15 DEF LInv
<1>17. chosen' = Longest(C, Committed(m.st))
  BY <1>4, <1>7
<1> QED BY <1>2, <1>15, <1>16, <1>17

(* A checkpoint with another capacity.                                     *)
Resized(st, r) ==
  /\ CP(r) /\ r.term = st.term /\ r.commit = st.commit /\ FullLog(r) = FullLog(st) /\ LastId(r) = LastId(st)
  /\ Whole(st) => Whole(r)

(* More room changes nothing else.                                         *)
LEMMA ResizedSafe ==
  ASSUME NEW i, NEW n, NEW x, x.role = n.role, x.matched = n.matched, x.peers = n.peers, x.outbox = n.outbox,
         Resized(n.st, x.st), NEW d, NEW e, Resized(d, e), NEW N, NEW E, NEW H, NEW C
  PROVE  /\ Rests(i, n, d, N, E, H, C) => Rests(i, x, e, N, E, H, C)
         /\ Waits(i, n, d, N, E, H, C) => Waits(i, x, e, N, E, H, C)
<1>1. PICK s, r : s = n.st /\ r = x.st
  OBVIOUS
<1>2. /\ CP(r) /\ r.term = s.term /\ r.commit = s.commit /\ FullLog(r) = FullLog(s) /\ LastId(r) = LastId(s)
      /\ Whole(s) => Whole(r)
  BY <1>1 DEF Resized
<1>3. /\ CP(e) /\ e.term = d.term /\ e.commit = d.commit /\ FullLog(e) = FullLog(d) /\ LastId(e) = LastId(d)
      /\ Whole(d) => Whole(e)
  BY DEF Resized
<1>4. MatchedSafe(i, n, N) => MatchedSafe(i, x, N)
  BY <1>1, <1>2 DEF MatchedSafe
<1>5. Contends(i, n, N, E) => Contends(i, x, N, E)
  BY <1>1, <1>2 DEF Contends
<1>6. DiskSafe(i, d, N, C) => DiskSafe(i, e, N, C)
  BY <1>3 DEF DiskSafe
<1>7. Rests(i, n, d, N, E, H, C) => Rests(i, x, e, N, E, H, C)
  BY <1>1, <1>2, <1>3, <1>4, <1>5, <1>6 DEF Rests, Quiet
<1>8. Leads(i, n, d, N, H, C) => Leads(i, x, e, N, H, C)
  BY <1>1, <1>2, <1>3, <1>4 DEF Leads
<1>9. Trails(i, n, d, N, E, H, C) => Trails(i, x, e, N, E, H, C)
  BY <1>1, <1>2, <1>3, <1>5 DEF Trails
<1>10. ASSUME NEW q \in Slot, NEW o PROVE OutSafe(n, d, N, E, H, q, o) => OutSafe(x, e, N, E, H, q, o)
  BY <1>1, <1>2, <1>3 DEF OutSafe
<1>11. Busy(i, n, d, N, E, H, C) => Busy(i, x, e, N, E, H, C)
  BY <1>8, <1>9, <1>10 DEF Busy
<1> QED BY <1>3, <1>6, <1>7, <1>11 DEF Waits

(* A node and its disk change, and nothing else.                           *)
LEMMA OneChange ==
  ASSUME NEW D, NEW S, NEW N, NEW E, NEW C, NEW H, LSafe(D, S, N, E, C, H), NEW i \in Id,
         NEW P, NEW Q, \A j \in Id \ {i} : P[j] = D[j] /\ Q[j] = S[j], P[i].term = D[i].term, FullLog(P[i]) = FullLog(D[i]),
         IF Q[i].dirty THEN Waits(i, Q[i], P[i], N, E, H, C) ELSE Rests(i, Q[i], P[i], N, E, H, C)
  PROVE  LSafe(P, Q, N, E, C, H)
<1>1. TermsOf(P) = TermsOf(D) /\ LogsOf(P) = LogsOf(D)
  BY DEF TermsOf, LogsOf
<1>2. ASSUME NEW j \in Id
      PROVE  IF Q[j].dirty THEN Waits(j, Q[j], P[j], N, E, H, C) ELSE Rests(j, Q[j], P[j], N, E, H, C)
  <2>1. CASE j = i
    BY <2>1
  <2>2. CASE j # i
    BY <2>2 DEF LSafe
  <2> QED BY <2>1, <2>2
<1> QED BY <1>1, <1>2 DEF LSafe

(* grow                                                                    *)
LEMMA GrowSafe ==
  ASSUME FixedGroups, RInv, DInv, LInv, NEW i \in Id, GrowLog(i)
  PROVE  LInv'
<1>1. PICK H : LSafe(disk, nodes, net, elected, chosen, H)
  BY DEF LInv
<1>2. PICK g \in Bounds.growth : /\ g.cap > nodes[i].st.cap
                                 /\ nodes' = [nodes EXCEPT ![i] = GrowNode(@, g.cap)]
                                 /\ disk' = [disk EXCEPT ![i] = Grow(@, g.cap)]
                                 /\ net' = net /\ elected' = elected /\ chosen' = chosen
  BY DEF GrowLog
<1>3. PICK c, d, n, e, x : c = g.cap /\ d = disk[i] /\ n = nodes[i] /\ e = Grow(d, c) /\ x = GrowNode(n, c)
  OBVIOUS
<1>4. /\ disk'[i] = e /\ nodes'[i] = x /\ \A j \in Id \ {i} : disk'[j] = disk[j] /\ nodes'[j] = nodes[j]
  BY <1>2, <1>3 DEF DInv
<1>5. CP(d) /\ OK(d, n) /\ CP(n.st) /\ DOMAIN n = NodeFields /\ c \in Nat /\ c > n.st.cap
  <2>1. scenario \in DOMAIN Scenarios /\ Bounds = Scenarios[scenario]
    BY DEF DInv, Bounds
  <2>2. c \in Nat
    BY <1>2, <1>3, <2>1, CallersAssumption
  <2> QED BY <1>2, <1>3, <2>2 DEF DInv, OK, Held, Typed
<1>6. CP(e) /\ OK(e, x)
  BY <1>3, <1>5, GrowOK
<1>7. x.st = Grow(n.st, c) /\ \A f \in NodeFields \ {"st"} : x[f] = n[f]
  BY <1>3, <1>5 DEF GrowNode, NodeFields
<1>8. /\ x.role = n.role /\ x.matched = n.matched /\ x.peers = n.peers /\ x.outbox = n.outbox /\ x.dirty = n.dirty
  BY <1>7 DEF NodeFields
<1>9. ASSUME NEW st, CP(st), NEW r, CP(r), r = Grow(st, c) PROVE Resized(st, r)
  <2>1. st \in Checkpoints
    BY <1>9 DEF CP
  <2>2. r.term = st.term /\ r.commit = st.commit /\ r.snapshot = st.snapshot /\ r.entries = st.entries
    BY <1>9, <2>1 DEF Grow, Checkpoints
  <2>3. FullLog(r) = FullLog(st) /\ LastId(r) = LastId(st) /\ (Whole(st) => Whole(r))
    BY <2>2, LogStays
  <2> QED BY <1>9, <2>2, <2>3 DEF Resized
<1>10. Resized(d, e) /\ Resized(n.st, x.st)
  <2>1. PICK st, r : st = n.st /\ r = x.st
    OBVIOUS
  <2>2. CP(st) /\ CP(r) /\ r = Grow(st, c)
    BY <1>5, <1>6, <1>7, <2>1 DEF OK, Held
  <2> QED BY <1>3, <1>5, <1>6, <1>9, <2>1, <2>2
<1>11. /\ Rests(i, n, d, net, elected, H, chosen) => Rests(i, x, e, net, elected, H, chosen)
       /\ Waits(i, n, d, net, elected, H, chosen) => Waits(i, x, e, net, elected, H, chosen)
  BY <1>8, <1>10, ResizedSafe
<1>12. IF n.dirty THEN Waits(i, n, d, net, elected, H, chosen) ELSE Rests(i, n, d, net, elected, H, chosen)
  BY <1>1, <1>3 DEF LSafe
<1>13. IF x.dirty THEN Waits(i, x, e, net, elected, H, chosen) ELSE Rests(i, x, e, net, elected, H, chosen)
  BY <1>8, <1>11, <1>12
<1>14. e.term = d.term /\ FullLog(e) = FullLog(d)
  BY <1>10 DEF Resized
<1>15. LSafe(disk', nodes', net, elected, chosen, H)
  BY <1>1, <1>3, <1>4, <1>13, <1>14, OneChange
<1> QED BY <1>2, <1>15 DEF LInv

(* A crash: the node that restarts knows what is on disk.                  *)
LEMMA CrashSafe ==
  ASSUME FixedGroups, RInv, DInv, LInv, NEW i \in Id, Crash(i)
  PROVE  LInv'
<1>1. PICK H : LSafe(disk, nodes, net, elected, chosen, H)
  BY DEF LInv
<1>2. PICK d, n, x : d = disk[i] /\ n = nodes[i] /\ x = Build(i, d, n.bootstrap, n.hooks)
  OBVIOUS
<1>3. nodes' = [nodes EXCEPT ![i] = x] /\ disk' = disk /\ net' = net /\ elected' = elected /\ chosen' = chosen
  BY <1>2 DEF Crash
<1>4. /\ disk'[i] = d /\ nodes'[i] = x /\ \A j \in Id \ {i} : disk'[j] = disk[j] /\ nodes'[j] = nodes[j]
  BY <1>2, <1>3 DEF DInv
<1>5. x.role = "Follower" /\ ~x.dirty
  <2>1. CP(d) /\ n.bootstrap \in Configs
    BY <1>2 DEF DInv, OK, Typed
  <2> QED BY <1>2, <2>1, BuildFollows
<1>6. CP(d) /\ DiskSafe(i, d, net, chosen)
  BY <1>1, <1>2 DEF LSafe, Waits, Rests
<1>7. Rests(i, x, d, net, elected, H, chosen)
  BY <1>5, <1>6 DEF Rests, Quiet
<1>8. LSafe(disk', nodes', net, elected, chosen, H)
  BY <1>1, <1>2, <1>4, <1>5, <1>7, OneChange
<1> QED BY <1>3, <1>8 DEF LInv

(* Every step keeps the logs safe while terms have one leader.             *)
LEMMA NextSafe ==
  ASSUME FixedGroups, RInv, DInv, LInv, Next, ElectionSafety'
  PROVE  LInv'
<1>1. PICK i \in Id : /\ Turn(i)
                      /\ \/ Timer(i) \/ Deliver(i) \/ Propose(i) \/ Compact(i) \/ GrowLog(i)
                         \/ ChangeLearners(i) \/ BeginJoint(i) \/ FinishJoint(i)
                         \/ Save(i) \/ Crash(i)
  BY DEF Next
<1>2. PICK H : LSafe(disk, nodes, net, elected, chosen, H)
  BY DEF LInv
<1>3. PICK T, L, d, m, N, E, C : /\ T = TermsOf(disk) /\ L = LogsOf(disk) /\ d = disk[i] /\ m = nodes[i]
                                 /\ N = net /\ E = elected /\ C = chosen
  OBVIOUS
<1>4. /\ Sound(i, m, d, N, E) /\ CP(d) /\ OK(d, m) /\ scenario \in DOMAIN Scenarios /\ Bounds = Scenarios[scenario]
      /\ ~Bounds.hooks /\ \A e \in N : MsgOK(e.msg) /\ e.from \in Id /\ Truthful(e, N, E)
  BY <1>3 DEF RInv, DInv, FixedGroups, Bounds
<1>5. ASSUME Available(m) PROVE Ready(T, L, i, m, d, N, E, H, C) /\ ~nodes[i].dirty
  BY <1>2, <1>3, <1>5, StartsReady DEF Available
<1>6. ASSUME ~nodes[i].dirty, NEW r, Act(i, r), OK(d, r), Result(i, r, d, N, E),
             \E G : Leaves(T, L, i, r, d, N, E, H, C, G)
      PROVE  LInv'
  <2>1. PICK G : Leaves(T, L, i, r, d, N, E, H, C, G)
    BY <1>6
  <2> QED BY <1>1, <1>2, <1>3, <1>6, <2>1, ActSafe
<1>7. ASSUME Available(m), NEW r, Act(i, r), OK(d, r), Result(i, r, d, N, E), Busy(i, r, d, N, E, H, C),
             r.role = "Leader" => m.role = "Leader" /\ r.st.term = m.st.term
      PROVE  LInv'
  <2>1. AInv(T, L, N, E, H, C) /\ r.id = i
    BY <1>5, <1>7 DEF Ready, Result, Sound
  <2>2. r.role = "Leader" => r.id = i /\ [term |-> r.st.term, id |-> i] \in E
    BY <1>4, <1>7, <2>1 DEF Sound
  <2>3. Leaves(T, L, i, r, d, N, E, H, C, H)
    BY <1>7, <2>1, <2>2, LeavesSame
  <2> QED BY <1>5, <1>6, <1>7, <2>3
<1>8. CASE Timer(i)
  <2>1. PICK check \in BOOLEAN, due \in BOOLEAN, ages \in BOOLEAN :
          CanTick(i, check, due, ages) /\ Act(i, Tick(nodes[i], check, due, ages))
    BY <1>8 DEF Timer
  <2>2. PICK r : r = Tick(m, check, due, ages)
    OBVIOUS
  <2>3. Available(m) /\ Act(i, r) /\ ~m.dirty
    BY <1>3, <2>1, <2>2 DEF CanTick, Available
  <2>4. Result(i, r, d, N, E)
    BY <1>4, <2>2, <2>3, AvailableEmpties, TickResult
  <2>5. OK(d, r)
    BY <1>4, <2>2, <2>3, TickOK
  <2>6. Busy(i, r, d, N, E, H, C) /\ (r.role = "Leader" => m.role = "Leader" /\ r.st.term = m.st.term /\ r.id = i)
    BY <1>4, <1>5, <2>2, <2>3, TickBusy
  <2> QED BY <1>7, <2>3, <2>4, <2>5, <2>6
<1>9. CASE Deliver(i)
  <2>1. PICK env \in net : Accepts(nodes[i], env) /\ Act(i, Step(nodes[i], env)) /\ Available(nodes[i])
    BY <1>9 DEF Deliver
  <2>2. PICK r : r = Step(m, env)
    OBVIOUS
  <2>3. /\ Available(m) /\ Act(i, r) /\ ~m.dirty /\ Accepts(m, env) /\ env \in N /\ Valid(env.msg)
        /\ SlotOf(m.peers, env.from) # 0 \/ env.msg.type \in Requests
    BY <1>3, <2>1, <2>2 DEF Accepts, Available
  <2>4. Result(i, r, d, N, E)
    BY <1>4, <2>2, <2>3, StepResult
  <2>5. OK(d, r)
    BY <1>4, <2>2, <2>3, StepOK
  <2>6. \A x, y \in E \cup Leading(r) : x.term = y.term => x.id = y.id
    <3>1. elected' = E \cup Leading(r)
      BY <1>3, <2>3 DEF Act
    <3> QED BY <3>1 DEF ElectionSafety
  <2>7. \E G : Leaves(T, L, i, r, d, N, E, H, C, G)
    BY <1>4, <1>5, <2>2, <2>3, <2>6, StepBusy
  <2> QED BY <1>5, <1>6, <2>3, <2>4, <2>5, <2>7
<1>10. CASE Propose(i)
  <2>1. PICK values \in Bounds.batches : /\ CanAdmit(nodes[i], Len(values))
                                         /\ Act(i, ProposeMany(nodes[i], values))
    BY <1>10 DEF Propose
  <2>2. PICK r : r = ProposeMany(m, values)
    OBVIOUS
  <2>3. values \in Seq(Value)
    BY <1>4, <2>1, CallersAssumption
  <2>4. values \in Seq(Proposals) /\ CanPropose(m, Len(values)) /\ Act(i, r) /\ Available(m) /\ m.role = "Leader"
    <3>1. \A k \in 1..Len(values) : values[k] \in Proposals
      BY <2>3 DEF Proposals
    <3>2. values \in Seq(Proposals)
      BY <2>3, <3>1
    <3> QED BY <1>3, <2>1, <2>2, <3>2 DEF CanAdmit, CanPropose
  <2>5. Keeps(m, r)
    BY <1>4, <2>2, <2>4, ProposeKeeps DEF Sound
  <2>6. Result(i, r, d, N, E)
    BY <1>4, <2>5, KeepsSound, SoundResult
  <2>7. OK(d, r)
    BY <1>4, <2>2, <2>4, ProposeOK
  <2>8. Busy(i, r, d, N, E, H, C)
    BY <1>4, <1>5, <2>2, <2>4, ProposeBusy
  <2> QED BY <1>7, <2>4, <2>5, <2>6, <2>7, <2>8 DEF Keeps
<1>11. CASE Compact(i)
  <2>1. PICK index \in 1..U64Max : CanCompact(nodes[i], index) /\ Act(i, CompactWith(nodes[i], index))
    BY <1>11 DEF Compact
  <2>2. PICK r : r = CompactWith(m, index)
    OBVIOUS
  <2>3. index \in Nat /\ CanCompact(m, index) /\ Act(i, r) /\ Available(m)
    BY <1>3, <2>1, <2>2, U64Assumption DEF CanCompact
  <2>4. Keeps(m, r)
    BY <1>4, <2>2, CompactKeeps DEF Sound
  <2>5. Result(i, r, d, N, E)
    BY <1>4, <2>4, KeepsSound, SoundResult
  <2>6. OK(d, r)
    BY <1>4, <2>2, <2>3, CompactOK
  <2>7. Busy(i, r, d, N, E, H, C)
    BY <1>4, <1>5, <2>2, <2>3, CompactBusy
  <2> QED BY <1>7, <2>3, <2>4, <2>5, <2>6, <2>7 DEF Keeps
<1>12. CASE GrowLog(i)
  BY <1>12, GrowSafe
<1>13. CASE ChangeLearners(i) \/ BeginJoint(i) \/ FinishJoint(i)
  BY <1>4, <1>13 DEF ChangeLearners, BeginJoint, FinishJoint
<1>14. CASE Save(i)
  BY <1>1, <1>14, SaveSafe
<1>15. CASE Crash(i)
  BY <1>15, CrashSafe
<1> QED BY <1>1, <1>8, <1>9, <1>10, <1>11, <1>12, <1>13, <1>14, <1>15

-----------------------------------------------------------------------------
(* A group that starts.                                                    *)

(* Every node starts from State::new.                                      *)
NewDisks == \A i \in Id : disk[i] = NewState(disk[i].cap)

(* A new checkpoint has an empty log.                                      *)
LEMMA NewEmpty ==
  ASSUME NEW d, CP(d), d = NewState(d.cap)
  PROVE  FullLog(d) = <<>> /\ Committed(d) = <<>> /\ Whole(d) /\ d.term = 0 /\ d.commit = 0
<1>1. d.term = 0 /\ d.commit = 0 /\ d.snapshot = None /\ d.entries = <<>>
  BY DEF NewState
<1>2. Whole(d)
  BY <1>1 DEF Whole
<1>3. FullLog(d) \in Seq(Entries) /\ Len(FullLog(d)) = 0
  <2>1. /\ FullLog(d) \in Seq(Entries) /\ Len(FullLog(d)) = Base(d).index + Len(d.entries)
        /\ Base(d).index = 0
    BY <1>1, <1>2, Shape
  <2>2. Len(d.entries) = 0
    BY <1>1
  <2> QED BY <2>1, <2>2
<1>4. FullLog(d) = <<>>
  BY <1>3
<1>5. Committed(d) = SubSeq(FullLog(d), 1, 0)
  BY <1>1, <1>2, <1>3, Reading DEF Committed, Base, Genesis
<1> QED BY <1>1, <1>2, <1>4, <1>5

(* Nothing has happened: the ledger is empty.                              *)
LEMMA InitSafe ==
  ASSUME NewDisks, Init, DInv
  PROVE  LInv
<1> DEFINE H == [u \in {} |-> <<>>]
           T == TermsOf(disk)
           L == LogsOf(disk)
<1>1. net = {} /\ elected = {} /\ chosen = <<>>
  <2>1. PICK i \in Id : chosen = Committed(disk[i])
    BY DEF Init
  <2>2. Committed(disk[i]) = <<>>
    BY NewEmpty DEF NewDisks, DInv
  <2> QED BY <2>1, <2>2 DEF Init
<1>2. ASSUME NEW q \in Id
      PROVE  /\ CP(disk[q]) /\ FullLog(disk[q]) = <<>> /\ Whole(disk[q]) /\ disk[q].term = 0 /\ disk[q].commit = 0
             /\ T[q] = 0 /\ L[q] = <<>>
  <2>1. CP(disk[q]) /\ disk[q] = NewState(disk[q].cap)
    BY DEF NewDisks, DInv
  <2> QED BY <2>1, NewEmpty DEF TermsOf, LogsOf
<1>3. DOMAIN H = {}
  OBVIOUS
<1> HIDE DEF H, T, L
<1>4. Ledger(H) /\ LeadersOK(T, {}, H)
  BY <1>3 DEF Ledger, LeadersOK
<1>5. DisksOK(T, L, H)
  <2>1. Rooted(<<>>, H)
    BY DEF Rooted
  <2>2. ASSUME NEW q \in Id PROVE T[q] \in Nat /\ Rooted(L[q], H) /\ 1..Len(L[q]) = {}
    <3>1. T[q] = 0 /\ L[q] = <<>>
      BY <1>2
    <3> QED BY <2>1, <3>1
  <2> QED BY <2>2 DEF DisksOK
<1>6. AcksOK(T, L, {}, {}, H) /\ VotesOK({}, H) /\ GrantsOK(T, {}, {}, H) /\ TermsOK(T, {}, {}, H) /\ ChosenOK({}, {}, H, <<>>)
  BY <1>3 DEF AcksOK, VotesOK, GrantsOK, TermsOK, ChosenOK
<1>7. ASSUME NEW j \in Id PROVE ~nodes[j].dirty /\ Rests(j, nodes[j], disk[j], {}, {}, H, <<>>)
  <2>1. nodes[j] = Build(j, disk[j], Bounds.genesis, Bounds.hooks) /\ Bounds.genesis \in Configs
    BY GenesisAssumption DEF Init, Bounds
  <2>2. nodes[j].role = "Follower" /\ ~nodes[j].dirty
    BY <1>2, <2>1, BuildFollows
  <2>3. DiskSafe(j, disk[j], {}, <<>>)
    BY <1>2 DEF DiskSafe, Agree
  <2> QED BY <1>2, <2>2, <2>3 DEF Rests, Quiet
<1>8. LSafe(disk, nodes, net, elected, chosen, H)
  BY <1>1, <1>4, <1>5, <1>6, <1>7 DEF LSafe, AInv, T, L
<1> QED BY <1>8 DEF LInv

(* The logs are safe in every state.                                       *)
LEMMA AlwaysLInv ==
  ASSUME FixedGroups
  PROVE  NewDisks /\ Spec => [](RInv /\ DInv /\ LInv /\ ElectionSafety)
<1>1. Init => DInv
  BY DurableInit
<1>2. DInv /\ [Next]_vars => DInv'
  BY DurableNext
<1>3. NewDisks /\ Init /\ DInv => LInv
  BY InitSafe
<1>4. RInv /\ DInv /\ LInv /\ [Next]_vars /\ ElectionSafety' => LInv'
  <2>1. CASE UNCHANGED vars
    BY <2>1 DEF vars, LInv
  <2> QED BY <2>1, NextSafe
<1>5. Spec => []RInv
  BY AlwaysRInv
<1>6. Spec => []ElectionSafety
  BY OneLeaderPerTerm
<1> QED BY <1>1, <1>2, <1>3, <1>4, <1>5, <1>6, PTL DEF Spec

-----------------------------------------------------------------------------
(* What follows for the logs in memory.                                    *)

(* Agreement, as the library says it.                                      *)
LEMMA PrefixesAgree ==
  ASSUME NEW A \in Seq(Entries), NEW B \in Seq(Entries), NEW m \in Nat, Agree(A, B, m)
  PROVE  /\ SubSeq(A, 1, m) = SubSeq(B, 1, m)
         /\ IsPrefix(SubSeq(A, 1, m), B)
         /\ m = Len(A) => IsPrefix(A, B)
<1>1. Len(A) \in Nat /\ Len(B) \in Nat /\ m <= Len(A) /\ m <= Len(B) /\ \A k \in 1..m : A[k] = B[k]
  BY DEF Agree
<1> DEFINE P == SubSeq(A, 1, m)
           Q == SubSeq(B, 1, m)
<1>2. /\ P \in Seq(Entries) /\ Len(P) = m /\ (\A k \in 1..m : P[k] = A[k])
      /\ Q \in Seq(Entries) /\ Len(Q) = m /\ (\A k \in 1..m : Q[k] = B[k])
  BY <1>1
<1> HIDE DEF P, Q
<1>3. \A k \in 1..m : P[k] = Q[k]
  BY <1>1, <1>2
<1>4. P = Q
  BY <1>2, <1>3
<1>5. SubSeq(P, 1, Len(P)) = P
  BY <1>2
<1>6. IsPrefix(P, B)
  BY <1>1, <1>2, <1>4, <1>5 DEF IsPrefix, Q
<1>7. m = Len(A) => IsPrefix(A, B)
  <2> HAVE m = Len(A)
  <2> QED BY <1>1, <1>4 DEF IsPrefix, P, Q
<1>8. SubSeq(A, 1, m) = SubSeq(B, 1, m) /\ IsPrefix(SubSeq(A, 1, m), B)
  BY <1>4, <1>6 DEF P, Q
<1> QED BY <1>7, <1>8

(* Node i has a log of the ledger, with entries of its own term as leader  *)
(* that it has not saved.                                                  *)
Based(A, H, E, i) ==
  /\ A \in Seq(Entries)
  /\ \E P : /\ Rooted(P, H) /\ Agree(P, A, Len(P))
            /\ \A k \in 1..Len(A) : k > Len(P) =>
                 /\ A[k].id.term \in DOMAIN H /\ k > Len(H[A[k].id.term])
                 /\ [term |-> A[k].id.term, id |-> i] \in E

(* Such logs of two nodes match.                                           *)
LEMMA BasedMatch ==
  ASSUME NEW H, Ledger(H), NEW E, \A x, y \in E : x.term = y.term => x.id = y.id,
         NEW i, NEW j, i # j, NEW A, NEW B, Based(A, H, E, i), Based(B, H, E, j),
         NEW k \in Nat, k \in 1..Len(A), k \in 1..Len(B), A[k].id.term = B[k].id.term
  PROVE  Agree(A, B, k)
<1>1. A \in Seq(Entries) /\ B \in Seq(Entries) /\ Len(A) \in Nat /\ Len(B) \in Nat
  BY DEF Based
<1>2. PICK P : /\ Rooted(P, H) /\ Agree(P, A, Len(P))
               /\ \A h \in 1..Len(A) : h > Len(P) =>
                    /\ A[h].id.term \in DOMAIN H /\ h > Len(H[A[h].id.term])
                    /\ [term |-> A[h].id.term, id |-> i] \in E
  BY DEF Based
<1>3. PICK Q : /\ Rooted(Q, H) /\ Agree(Q, B, Len(Q))
               /\ \A h \in 1..Len(B) : h > Len(Q) =>
                    /\ B[h].id.term \in DOMAIN H /\ h > Len(H[B[h].id.term])
                    /\ [term |-> B[h].id.term, id |-> j] \in E
  BY DEF Based
<1>4. P \in Seq(Entries) /\ Q \in Seq(Entries) /\ Len(P) \in Nat /\ Len(Q) \in Nat
  BY <1>2, <1>3 DEF Rooted
<1>5. CASE k <= Len(P) /\ k <= Len(Q)
  <2>1. P[k] = A[k] /\ Q[k] = B[k] /\ k \in 1..Len(P) /\ k \in 1..Len(Q)
    BY <1>2, <1>3, <1>4, <1>5 DEF Agree
  <2>2. Agree(P, Q, k)
    BY <1>2, <1>3, <2>1, Matching
  <2>3. Agree(P, A, k) /\ Agree(Q, B, k)
    <3>1. Len(P) \in Nat /\ Len(Q) \in Nat /\ k <= Len(P) /\ k <= Len(Q)
      BY <1>4, <1>5
    <3> QED BY <1>1, <1>2, <1>3, <1>4, <3>1, Agreeing
  <2>4. Agree(A, P, k)
    BY <1>1, <1>4, <2>3, Agreeing
  <2>5. Agree(A, Q, k)
    BY <1>1, <1>4, <2>2, <2>4, Agreeing
  <2> QED BY <1>1, <1>4, <2>3, <2>5, Agreeing
<1>6. CASE k > Len(P) /\ k > Len(Q)
  <2> DEFINE t == A[k].id.term
             x == [term |-> t, id |-> i]
             y == [term |-> t, id |-> j]
  <2>1. x \in E /\ y \in E
    BY <1>2, <1>3, <1>6
  <2>2. x.term = t /\ y.term = t /\ x.id = i /\ y.id = j
    OBVIOUS
  <2> HIDE DEF x, y
  <2> QED BY <2>1, <2>2
<1>7. ASSUME NEW R, Rooted(R, H), k \in 1..Len(R), NEW t, t \in DOMAIN H, k > Len(H[t]), R[k].id.term = t PROVE FALSE
  <2>1. Agree(R, H[t], k)
    BY <1>7 DEF Rooted
  <2>2. Len(H[t]) \in Nat
    BY <1>7 DEF Ledger, Rooted
  <2> QED BY <1>7, <2>1, <2>2 DEF Agree
<1>8. CASE k > Len(P) /\ k <= Len(Q)
  <2>1. k \in 1..Len(Q) /\ Q[k] = B[k]
    BY <1>3, <1>4, <1>8 DEF Agree
  <2>2. A[k].id.term \in DOMAIN H /\ k > Len(H[A[k].id.term])
    BY <1>2, <1>8
  <2> QED BY <1>3, <1>7, <2>1, <2>2
<1>9. CASE k <= Len(P) /\ k > Len(Q)
  <2>1. k \in 1..Len(P) /\ P[k] = A[k]
    BY <1>2, <1>4, <1>9 DEF Agree
  <2>2. B[k].id.term \in DOMAIN H /\ k > Len(H[B[k].id.term])
    BY <1>3, <1>9
  <2> QED BY <1>2, <1>7, <2>1, <2>2
<1> QED BY <1>4, <1>5, <1>6, <1>8, <1>9

(* A node's log in memory, and what it is of the ledger.                   *)
LEMMA InMemory ==
  ASSUME RInv, DInv, NEW H, LSafe(disk, nodes, net, elected, chosen, H), NEW i \in Id
  PROVE  LET n == nodes[i]
             M == FullLog(n.st)
             t == n.st.term
         IN  /\ Based(M, H, elected, i)
             /\ n.role = "Leader" => /\ t \in DOMAIN H /\ Agree(H[t], M, Len(H[t])) /\ MatchedSafe(i, n, net)
                                     /\ disk[i].term = t /\ FullLog(disk[i]) = H[t]
<1>1. PICK n, d, N, E, C, M, t : /\ n = nodes[i] /\ d = disk[i] /\ N = net /\ E = elected /\ C = chosen
                                 /\ M = FullLog(n.st) /\ t = n.st.term
  OBVIOUS
<1>2. OK(d, n) /\ Sound(i, n, d, N, E)
  BY <1>1 DEF RInv, DInv
<1>3. Ledger(H) /\ Rooted(FullLog(d), H)
  BY <1>1 DEF LSafe, AInv, DisksOK, LogsOf
<1>4. ASSUME Rooted(M, H) PROVE Based(M, H, E, i)
  <2>1. M \in Seq(Entries) /\ Len(M) \in Nat
    BY <1>4 DEF Rooted
  <2>2. Agree(M, M, Len(M)) /\ \A k \in 1..Len(M) : ~(k > Len(M))
    BY <2>1 DEF Agree
  <2> QED BY <1>4, <2>1, <2>2 DEF Based
<1>5. CASE ~n.dirty
  <2>1. n.st = d
    BY <1>2, <1>5 DEF OK, Held
  <2>2. Based(M, H, E, i)
    BY <1>1, <1>3, <1>4, <2>1
  <2>3. Quiet(i, n, N, E, H)
    BY <1>1, <1>5 DEF LSafe, Rests
  <2>4. ASSUME n.role = "Leader" PROVE t \in DOMAIN H /\ M = H[t] /\ MatchedSafe(i, n, N)
    BY <1>1, <2>3, <2>4 DEF Quiet
  <2>5. ASSUME n.role = "Leader" PROVE Agree(H[t], M, Len(H[t]))
    <3>1. H[t] \in Seq(Entries)
      BY <1>3, <2>4, <2>5 DEF Ledger, Rooted
    <3> QED BY <2>4, <2>5, <3>1 DEF Agree
  <2> QED BY <1>1, <2>1, <2>2, <2>4, <2>5
<1>6. CASE n.dirty /\ n.role = "Leader"
  <2>1. Leads(i, n, d, N, H, C)
    BY <1>1, <1>6 DEF LSafe, Waits, Busy
  <2>2. /\ CP(n.st) /\ Whole(n.st) /\ d.term = t /\ t \in DOMAIN H /\ FullLog(d) = H[t] /\ Extends(H[t], M, t)
        /\ MatchedSafe(i, n, N)
    BY <1>1, <2>1 DEF Leads
  <2>3. M \in Seq(Entries) /\ Rooted(H[t], H)
    BY <1>1, <1>3, <2>2, Shape DEF Ledger
  <2>4. Agree(H[t], M, Len(H[t]))
    BY <2>2 DEF Extends
  <2>5. ASSUME NEW k \in 1..Len(M), k > Len(H[t]) PROVE M[k].id.term = t
    <3>1. M[k].id = LogId(k, t)
      BY <2>2, <2>5 DEF Extends
    <3> QED BY <3>1 DEF LogId
  <2>6. [term |-> t, id |-> i] \in E
    BY <1>1, <1>2, <1>6 DEF Sound
  <2>7. Based(M, H, E, i)
    BY <2>2, <2>3, <2>4, <2>5, <2>6 DEF Based
  <2> QED BY <1>1, <2>2, <2>4, <2>7
<1>7. CASE n.dirty /\ n.role # "Leader"
  <2>1. M = FullLog(d) \/ Adopted(FullLog(d), M, H, t)
    BY <1>1, <1>7 DEF LSafe, Waits, Busy, Trails
  <2>2. Rooted(M, H)
    <3>1. CASE Adopted(FullLog(d), M, H, t)
      <4>1. PICK k \in 1..Len(H[t]) : M = SubSeq(H[t], 1, k)
        BY <3>1 DEF Adopted
      <4>2. Rooted(H[t], H)
        BY <1>3, <3>1 DEF Adopted, Ledger
      <4> QED BY <1>3, <4>1, <4>2, PrefixRooted
    <3> QED BY <1>3, <2>1, <3>1
  <2> QED BY <1>1, <1>4, <1>7, <2>2
<1> QED BY <1>5, <1>6, <1>7

-----------------------------------------------------------------------------
(* What the invariant says.                                                *)

(* Logs in memory match.                                                   *)
LEMMA LogsMatch ==
  ASSUME RInv, DInv, LInv, ElectionSafety
  PROVE  LogMatching
<1>1. PICK H : LSafe(disk, nodes, net, elected, chosen, H)
  BY DEF LInv
<1>2. Ledger(H)
  BY <1>1 DEF LSafe, AInv
<1> SUFFICES ASSUME NEW i \in Id, NEW j \in Id, NEW k \in DOMAIN FullLog(nodes[i].st) \cap DOMAIN FullLog(nodes[j].st),
                    FullLog(nodes[i].st)[k].id = FullLog(nodes[j].st)[k].id
             PROVE  SubSeq(FullLog(nodes[i].st), 1, k) = SubSeq(FullLog(nodes[j].st), 1, k)
  BY DEF LogMatching
<1>3. PICK A, B : A = FullLog(nodes[i].st) /\ B = FullLog(nodes[j].st)
  OBVIOUS
<1>4. Based(A, H, elected, i) /\ Based(B, H, elected, j)
  BY <1>1, <1>3, InMemory
<1>5. A \in Seq(Entries) /\ B \in Seq(Entries)
  BY <1>4 DEF Based
<1>6. k \in 1..Len(A) /\ k \in 1..Len(B) /\ k \in Nat /\ A[k].id = B[k].id
  BY <1>3, <1>5
<1>7. CASE i = j
  BY <1>7
<1>8. CASE i # j
  <2>1. Agree(A, B, k)
    BY <1>2, <1>4, <1>6, <1>8, BasedMatch DEF ElectionSafety
  <2> QED BY <1>3, <1>5, <1>6, <2>1, PrefixesAgree
<1> QED BY <1>7, <1>8

(* The leader of the newest term has all that is published.                *)
LEMMA LeadersComplete ==
  ASSUME FixedGroups, RInv, DInv, LInv
  PROVE  LeaderCompleteness
<1>1. PICK H : LSafe(disk, nodes, net, elected, chosen, H)
  BY DEF LInv
<1>2. PICK T, N, E, C : T = TermsOf(disk) /\ N = net /\ E = elected /\ C = chosen
  OBVIOUS
<1>3. Ledger(H) /\ TermsOK(T, N, E, H) /\ ChosenOK(N, E, H, C) /\ DOMAIN H = {x.term : x \in E}
  BY <1>1, <1>2 DEF LSafe, AInv, LeadersOK
<1>4. FixedGroup \in Memberships
  BY Group DEF RInv
<1>5. ASSUME NEW i \in Id, NEW M, NEW t, M = FullLog(nodes[i].st), t = nodes[i].st.term,
             nodes[i].role = "Leader", \A x \in E : x.term <= t
      PROVE  IsPrefix(C, M)
  <2>1. t \in DOMAIN H /\ Agree(H[t], M, Len(H[t])) /\ M \in Seq(Entries)
    BY <1>1, <1>5, InMemory DEF Based
  <2>2. H[t] \in Seq(Entries) /\ C \in Seq(Entries) /\ Len(H[t]) \in Nat /\ Len(C) \in Nat /\ t \in Nat
    BY <1>3, <2>1 DEF Ledger, Rooted, ChosenOK
  <2>3. CASE C = <<>>
    <3>1. Agree(C, M, 0) /\ Len(C) = 0
      BY <2>1, <2>3 DEF Agree
    <3> QED BY <2>1, <2>2, <3>1, PrefixesAgree
  <2>4. CASE C # <<>>
    <3>1. PICK u \in DOMAIN H, k \in Nat : Decided(N, E, H, u, k) /\ Len(C) <= k /\ Agree(C, H[u], Len(C))
      BY <1>3, <2>4 DEF ChosenOK, Backed
    <3>2. u \in Nat /\ H[u] \in Seq(Entries) /\ u <= t /\ k <= Len(H[u])
      <4>1. u \in Nat /\ H[u] \in Seq(Entries) /\ k <= Len(H[u])
        <5>1. Ledger(H) /\ Own(H, u, k)
          BY <1>3, <3>1 DEF Decided
        <5>2. u \in 1..U64Max /\ H[u] \in Seq(Entries)
          BY <5>1 DEF Ledger, Rooted
        <5>3. k \in 1..Len(H[u]) /\ Len(H[u]) \in Nat
          BY <5>1, <5>2 DEF Own
        <5> QED BY <5>2, <5>3
      <4>2. PICK x \in E : x.term = u
        BY <1>3
      <4> QED BY <1>5, <4>1, <4>2
    <3>3. Agree(C, H[t], Len(C))
      <4>1. CASE u = t
        BY <3>1, <4>1
      <4>2. CASE u # t
        <5>1. u < t
          BY <2>2, <3>2, <4>2
        <5>2. Agree(H[t], H[u], k)
          BY <1>3, <1>4, <2>1, <3>1, <5>1, Decisive
        <5>3. Agree(H[t], H[u], Len(C))
          BY <2>2, <3>1, <3>2, <5>2, Agreeing
        <5>4. Agree(H[u], H[t], Len(C))
          BY <2>2, <3>2, <5>3, Agreeing
        <5> QED BY <2>2, <3>1, <3>2, <5>4, Agreeing
      <4> QED BY <4>1, <4>2
    <3>4. Len(C) <= Len(H[t])
      BY <3>3 DEF Agree
    <3>5. Agree(H[t], M, Len(C))
      BY <2>1, <2>2, <3>4, Agreeing
    <3>6. Agree(C, M, Len(C))
      BY <2>1, <2>2, <3>3, <3>5, Agreeing
    <3> QED BY <2>1, <2>2, <3>6, PrefixesAgree
  <2> QED BY <2>3, <2>4
<1> QED BY <1>2, <1>5 DEF LeaderCompleteness

(* What a leader has counted for a peer is on the peer's disk.             *)
LEMMA MatchedDurable ==
  ASSUME RInv, DInv, LInv
  PROVE  MatchedIsDurable
<1>1. PICK H : LSafe(disk, nodes, net, elected, chosen, H)
  BY DEF LInv
<1>2. PICK T, L, N, E : T = TermsOf(disk) /\ L = LogsOf(disk) /\ N = net /\ E = elected
  OBVIOUS
<1>3. Ledger(H) /\ AcksOK(T, L, N, E, H)
  BY <1>1, <1>2 DEF LSafe, AInv
<1>4. ASSUME NEW i \in Id, NEW s \in Slot, NEW n, NEW j, NEW m, n = nodes[i], j = n.peers[s], m = n.matched[s],
             n.role = "Leader", j \in Id \ {i}, disk[j].term = n.st.term
      PROVE  IsPrefix(SubSeq(FullLog(n.st), 1, m), FullLog(disk[j]))
  <2>1. PICK M, F, t : M = FullLog(n.st) /\ F = FullLog(disk[j]) /\ t = n.st.term
    BY SMTT(30)
  <2>2. t \in DOMAIN H /\ Agree(H[t], M, Len(H[t])) /\ M \in Seq(Entries) /\ MatchedSafe(i, n, N)
    BY <1>1, <1>2, <1>4, <2>1, InMemory DEF Based
  <2>3. T[j] = t /\ L[j] = F /\ m \in Nat
    <3>1. n.matched \in [Slot -> 0..U64Max]
      BY <1>4 DEF DInv, OK, Typed
    <3> QED BY <1>2, <1>4, <2>1, <3>1 DEF TermsOf, LogsOf
  <2>4. F \in Seq(Entries) /\ H[t] \in Seq(Entries) /\ t \in Nat /\ Len(H[t]) \in Nat /\ DOMAIN H \subseteq Nat
    <3>1. Rooted(L[j], H)
      BY <1>1, <1>2, <1>4 DEF LSafe, AInv, DisksOK
    <3> QED BY <1>3, <2>2, <2>3, <3>1 DEF Rooted, Ledger
  <2>5. Agree(M, F, m)
    <3>1. CASE m = 0
      BY <2>2, <2>4, <3>1 DEF Agree
    <3>2. CASE m # 0
      <4>1. PICK x \in N : IsAck(x, j, t, m)
        BY <1>4, <2>1, <2>2, <3>2 DEF MatchedSafe
      <4>2. m <= x.msg.index /\ x.msg.index \in 0..Len(H[t])
        BY <1>3, <4>1 DEF IsAck, AcksOK
      <4>3. m <= Len(H[t])
        BY <2>3, <2>4, <4>2
      <4>4. Acked(N, E, H, j, t, m)
        BY <4>1 DEF Acked
      <4>5. Safe(H, F, t, m, t)
        BY <1>3, <1>4, <2>2, <2>3, <4>3, <4>4 DEF AcksOK
      <4>6. ~Lost(H, t, m, t)
        BY <2>4 DEF Lost
      <4>7. Agree(F, H[t], m)
        BY <4>5, <4>6 DEF Safe
      <4>8. Agree(H[t], M, m)
        BY <2>2, <2>3, <2>4, <4>3, Agreeing
      <4>9. Agree(F, M, m)
        BY <2>2, <2>3, <2>4, <4>7, <4>8, Agreeing
      <4> QED BY <2>2, <2>3, <2>4, <4>9, Agreeing
    <3> QED BY <3>1, <3>2
  <2>6. IsPrefix(SubSeq(M, 1, m), F)
    BY <2>2, <2>3, <2>4, <2>5, PrefixesAgree
  <2> QED BY <2>1, <2>6
<1> QED BY <1>4 DEF MatchedIsDurable

(* What is published is on the disks of a majority.                        *)
LEMMA PublishedDurable ==
  ASSUME FixedGroups, RInv, DInv, LInv
  PROVE  PublishedIsDurable
<1>1. PICK H : LSafe(disk, nodes, net, elected, chosen, H)
  BY DEF LInv
<1>2. PICK D, T, L, N, E, C : /\ D = disk /\ T = TermsOf(disk) /\ L = LogsOf(disk)
                              /\ N = net /\ E = elected /\ C = chosen
  OBVIOUS
<1>3. Ledger(H) /\ AcksOK(T, L, N, E, H) /\ TermsOK(T, N, E, H) /\ DisksOK(T, L, H) /\ ChosenOK(N, E, H, C)
  BY <1>1, <1>2 DEF LSafe, AInv
<1>4. FixedGroup \in Memberships /\ ~IsJoint(FixedGroup) /\ FixedGroup \in Configs
  <2>1. scenario \in DOMAIN Scenarios /\ FixedGroup = Scenarios[scenario].genesis
    BY DEF RInv, FixedGroups
  <2> QED BY <2>1, Group, GenesisAssumption
<1>5. ChosenVoters = FixedGroup.voters
  BY DEF ChosenVoters, Bounds, RInv, FixedGroups
<1> DEFINE S == {i \in Id : IsPrefix(C, FullLog(D[i]))}
           W == FixedGroup.voters
<1>6. Majority(W, S)
  <2>1. ASSUME NEW q \in Id PROVE L[q] = FullLog(D[q]) /\ L[q] \in Seq(Entries) /\ T[q] \in Nat
    BY <1>2, <1>3 DEF DisksOK, Rooted, LogsOf
  <2>2. C \in Seq(Entries) /\ Len(C) \in Nat
    BY <1>3 DEF ChosenOK
  <2>3. CASE C = <<>>
    <3>1. ASSUME NEW q \in Id PROVE q \in S
      <4>1. Agree(C, L[q], 0) /\ Len(C) = 0
        BY <2>1, <2>3 DEF Agree
      <4> QED BY <2>1, <2>2, <4>1, PrefixesAgree
    <3>2. W \subseteq Id /\ W # {}
      BY <1>4 DEF Configs, Memberships
    <3>3. W \cap S = W
      BY <3>1, <3>2
    <3>4. IsFiniteSet(W)
      BY <3>2, IdAssumption, FS_Subset
    <3>5. Cardinality(W) \in Nat /\ Cardinality(W) # 0
      BY <3>2, <3>4, FS_EmptySet, FS_CardinalityType
    <3>6. PICK c : c = Cardinality(W)
      OBVIOUS
    <3>7. c > c \div 2
      BY <3>5, <3>6
    <3>8. Cardinality(W \cap S) = c
      BY <3>3, <3>6
    <3> HIDE DEF W, S
    <3> QED BY <3>6, <3>7, <3>8 DEF Majority
  <2>4. CASE C # <<>>
    <3>1. PICK u \in DOMAIN H, k \in Nat : Decided(N, E, H, u, k) /\ Len(C) <= k /\ Agree(C, H[u], Len(C))
      BY <1>3, <2>4 DEF ChosenOK, Backed
    <3>2. u \in Nat /\ H[u] \in Seq(Entries) /\ k <= Len(H[u])
      BY <1>3, <3>1 DEF Ledger, Rooted, Decided, Own
    <3> DEFINE Q == {q \in Id : Acked(N, E, H, q, u, k)}
    <3>3. ASSUME NEW q \in Q PROVE q \in S
      <4>1. q \in Id /\ Acked(N, E, H, q, u, k)
        OBVIOUS
      <4>2. Safe(H, L[q], u, k, T[q])
        BY <1>3, <3>2, <4>1 DEF AcksOK
      <4>3. ~Lost(H, u, k, T[q])
        BY <1>3, <1>4, <3>1, Decisive DEF Lost
      <4>4. Agree(L[q], H[u], k)
        BY <4>2, <4>3 DEF Safe
      <4>5. Agree(L[q], H[u], Len(C))
        BY <2>1, <2>2, <3>1, <3>2, <4>1, <4>4, Agreeing
      <4>6. Agree(H[u], L[q], Len(C))
        BY <2>1, <2>2, <3>2, <4>1, <4>5, Agreeing
      <4>7. Agree(C, L[q], Len(C))
        BY <2>1, <2>2, <3>1, <3>2, <4>1, <4>6, Agreeing
      <4>8. IsPrefix(C, L[q])
        BY <2>1, <2>2, <4>1, <4>7, PrefixesAgree
      <4> QED BY <2>1, <4>1, <4>8
    <3>4. Quorum(FixedGroup, Q)
      BY <3>1 DEF Decided
    <3> HIDE DEF Q, S
    <3>5. Quorum(FixedGroup, S)
      BY <1>4, <3>3, <3>4, QuorumGrows
    <3> QED BY <3>5 DEF Quorum
  <2> QED BY <2>3, <2>4
<1> QED BY <1>2, <1>5, <1>6 DEF PublishedIsDurable

(* An acknowledgement names the leader it goes to.                         *)
LEMMA AcksSafe ==
  ASSUME LInv
  PROVE  AcksReachTheirLeader
BY DEF LInv, LSafe, MsgSafe, AcksReachTheirLeader

(* What a disk knows to be committed is a prefix of what is published.     *)
LEMMA KnowsPrefix ==
  ASSUME NEW d, CP(d), NEW C \in Seq(Entries), Whole(d), Agree(FullLog(d), C, d.commit)
  PROVE  /\ Committed(d) \in Seq(Entries) /\ Len(Committed(d)) = d.commit
         /\ Agree(Committed(d), C, d.commit) /\ IsPrefix(Committed(d), C)
<1> DEFINE F == FullLog(d)
           P == SubSeq(F, 1, d.commit)
<1>1. F \in Seq(Entries) /\ d.commit \in Nat /\ Committed(d) = P
  BY Shape, Reading, Measures DEF Committed
<1>2. /\ d.commit <= Len(F) /\ d.commit <= Len(C) /\ (\A k \in 1..d.commit : F[k] = C[k])
      /\ Len(F) \in Nat /\ Len(C) \in Nat
  BY <1>1 DEF Agree
<1> HIDE DEF F
<1>3. P \in Seq(Entries) /\ Len(P) = d.commit /\ \A k \in 1..d.commit : P[k] = F[k]
  BY <1>1, <1>2
<1> HIDE DEF P
<1>4. Agree(P, C, d.commit)
  BY <1>2, <1>3 DEF Agree
<1>5. IsPrefix(P, C)
  BY <1>1, <1>3, <1>4, PrefixesAgree
<1> QED BY <1>1, <1>3, <1>4, <1>5

(* Every disk is safe, whether its node has more to save or not.           *)
LEMMA DisksSafe ==
  ASSUME NEW D, NEW S, NEW N, NEW E, NEW C, NEW H, LSafe(D, S, N, E, C, H)
  PROVE  C \in Seq(Entries) /\ \A i \in Id : CP(D[i]) /\ Whole(D[i]) /\ Agree(FullLog(D[i]), C, D[i].commit)
<1>1. C \in Seq(Entries)
  BY DEF LSafe, AInv, ChosenOK
<1>2. ASSUME NEW i \in Id PROVE CP(D[i]) /\ DiskSafe(i, D[i], N, C)
  BY DEF LSafe, Waits, Rests
<1> QED BY <1>1, <1>2 DEF DiskSafe

(* What disks d and e know, the first of C and the second, which knows no  *)
(* less, of the longer B.                                                  *)
LEMMA KnowsMore ==
  ASSUME NEW d, NEW e, CP(d), CP(e), Whole(d), Whole(e), d.commit <= e.commit,
         NEW C \in Seq(Entries), NEW B \in Seq(Entries), Agree(C, B, Len(C)),
         Agree(FullLog(d), C, d.commit), Agree(FullLog(e), B, e.commit)
  PROVE  /\ IsPrefix(C, B) /\ IsPrefix(Committed(d), Committed(e)) /\ IsPrefix(Committed(e), B)
<1> DEFINE P == Committed(d)
           Q == Committed(e)
<1>1. P \in Seq(Entries) /\ Len(P) = d.commit /\ Agree(P, C, d.commit)
  BY KnowsPrefix
<1>2. Q \in Seq(Entries) /\ Len(Q) = e.commit /\ Agree(Q, B, e.commit) /\ IsPrefix(Q, B)
  BY KnowsPrefix
<1>3. d.commit \in Nat /\ e.commit \in Nat /\ Len(C) \in Nat
  BY Measures
<1> HIDE DEF P, Q
<1>4. IsPrefix(C, B)
  BY <1>3, PrefixesAgree
<1>5. d.commit <= Len(C)
  BY <1>1 DEF Agree
<1>6. Agree(C, B, d.commit)
  BY <1>3, <1>5, Agreeing
<1>7. Agree(P, B, d.commit)
  BY <1>1, <1>3, <1>6, Agreeing
<1>8. Agree(Q, B, d.commit)
  BY <1>2, <1>3, Agreeing
<1>9. Agree(B, Q, d.commit)
  BY <1>2, <1>3, <1>8, Agreeing
<1>10. Agree(P, Q, d.commit)
  BY <1>1, <1>2, <1>3, <1>7, <1>9, Agreeing
<1>11. IsPrefix(P, Q)
  BY <1>1, <1>2, <1>3, <1>10, PrefixesAgree
<1> QED BY <1>2, <1>4, <1>11 DEF P, Q

(* The start is a start of the replicated log.                             *)
LEMMA StartsReplicated ==
  ASSUME LInv
  PROVE  Abstract!Init
<1>1. PICK H : LSafe(disk, nodes, net, elected, chosen, H)
  BY DEF LInv
<1>2. chosen \in Seq(Entries) /\ \A i \in Id : CP(disk[i]) /\ Whole(disk[i]) /\ Agree(FullLog(disk[i]), chosen, disk[i].commit)
  BY <1>1, DisksSafe
<1>3. ASSUME NEW r \in Id PROVE IsPrefix(Committed(disk[r]), chosen)
  BY <1>2, KnowsPrefix
<1>4. ASSUME NEW A, NEW B PROVE Abstract!IsPrefix(A, B) = IsPrefix(A, B)
  BY DEF IsPrefix, Abstract!IsPrefix
<1> QED BY <1>3, <1>4 DEF Abstract!Init

(* A save publishes, every other step leaves the replicated log alone.     *)
LEMMA SaveReplicates ==
  ASSUME FixedGroups, RInv, DInv, LInv, NEW i \in Id, Turn(i), Save(i)
  PROVE  Abstract!Publish(i)
<1>1. PICK d, m, e, C, B : d = disk[i] /\ m = nodes[i] /\ e = disk'[i] /\ C = chosen /\ B = chosen'
  OBVIOUS
<1>2. LInv' /\ Agree(C, B, Len(C))
  BY <1>1, SaveSafe
<1>3. PICK H : LSafe(disk, nodes, net, elected, chosen, H)
  BY DEF LInv
<1>4. PICK G : LSafe(disk', nodes', net', elected', chosen', G)
  BY <1>2 DEF LInv
<1>5. C \in Seq(Entries) /\ CP(d) /\ Whole(d) /\ Agree(FullLog(d), C, d.commit)
  BY <1>1, <1>3, DisksSafe
<1>6. B \in Seq(Entries) /\ CP(e) /\ Whole(e) /\ Agree(FullLog(e), B, e.commit)
  BY <1>1, <1>4, DisksSafe
<1>7. d.commit <= e.commit
  <2>1. OK(d, m) /\ disk'[i] = ApplyWrite(disk[i], Pending(nodes[i]))
    BY <1>1 DEF DInv, Save
  <2>2. e = m.st
    BY <1>1, <1>5, <2>1, Exact DEF OK, Held
  <2> QED BY <2>1, <2>2 DEF OK, Held, Pends
<1>8. IsPrefix(C, B) /\ IsPrefix(Committed(d), Committed(e)) /\ IsPrefix(Committed(e), B)
  BY <1>2, <1>5, <1>6, <1>7, KnowsMore
<1>9. PICK P, Q : P = [j \in Id |-> Committed(disk[j])] /\ Q = [j \in Id |-> Committed(disk'[j])]
  OBVIOUS
<1>10. P[i] = Committed(d) /\ Q[i] = Committed(e) /\ Q = [P EXCEPT ![i] = Q[i]]
  <2>1. \A j \in Id \ {i} : disk'[j] = disk[j]
    BY DEF Save, DInv
  <2> QED BY <1>1, <1>9, <2>1
<1>11. ASSUME NEW X, NEW Y PROVE Abstract!IsPrefix(X, Y) = IsPrefix(X, Y)
  BY DEF IsPrefix, Abstract!IsPrefix
<1>12. /\ Abstract!IsPrefix(chosen, chosen') /\ Abstract!IsPrefix(P[i], Q[i]) /\ Abstract!IsPrefix(Q[i], chosen')
  BY <1>1, <1>8, <1>10, <1>11
<1> QED BY <1>9, <1>10, <1>12 DEF Abstract!Publish

(* Every step is a step of the replicated log, or none.                    *)
LEMMA NextReplicates ==
  ASSUME FixedGroups, RInv, DInv, LInv, [Next]_vars
  PROVE  [Abstract!Next]_(Abstract!vars)
<1>1. ASSUME disk' = disk, chosen' = chosen PROVE UNCHANGED Abstract!vars
  BY <1>1 DEF Abstract!vars
<1>2. CASE UNCHANGED vars
  BY <1>1, <1>2 DEF vars
<1>3. CASE Next
  <2>1. PICK i \in Id : /\ Turn(i)
                        /\ \/ Timer(i) \/ Deliver(i) \/ Propose(i) \/ Compact(i) \/ GrowLog(i)
                           \/ ChangeLearners(i) \/ BeginJoint(i) \/ FinishJoint(i)
                           \/ Save(i) \/ Crash(i)
    BY <1>3 DEF Next
  <2>2. ASSUME NEW r, Act(i, r) PROVE UNCHANGED Abstract!vars
    BY <1>1, <2>2 DEF Act
  <2>3. CASE Timer(i) \/ Deliver(i) \/ Propose(i) \/ Compact(i)
    BY <2>2, <2>3 DEF Timer, Deliver, Propose, Compact
  <2>4. CASE ChangeLearners(i) \/ BeginJoint(i) \/ FinishJoint(i)
    BY <2>2, <2>4 DEF ChangeLearners, BeginJoint, FinishJoint
  <2>5. CASE Crash(i)
    BY <1>1, <2>5 DEF Crash
  <2>6. CASE Save(i)
    BY <2>1, <2>6, SaveReplicates DEF Abstract!Next
  <2>7. CASE GrowLog(i)
    <3>1. PICK g \in Bounds.growth : disk' = [disk EXCEPT ![i] = Grow(disk[i], g.cap)] /\ chosen' = chosen
      BY <2>7 DEF GrowLog
    <3>2. PICK d, e : d = disk[i] /\ e = Grow(d, g.cap)
      OBVIOUS
    <3>3. e.snapshot = d.snapshot /\ e.entries = d.entries /\ e.commit = d.commit
      <4>1. d \in Checkpoints
        BY <3>2 DEF DInv, CP
      <4> QED BY <3>2, <4>1, Fields6 DEF Grow
    <3>4. Committed(e) = Committed(d)
      BY <3>3 DEF Committed, AppliedThrough, Base
    <3>5. \A j \in Id : Committed(disk'[j]) = Committed(disk[j])
      <4> SUFFICES ASSUME NEW j \in Id PROVE Committed(disk'[j]) = Committed(disk[j])
        OBVIOUS
      <4>1. CASE j = i
        <5>1. disk'[i] = e
          BY <3>1, <3>2 DEF DInv
        <5> QED BY <3>2, <3>4, <4>1, <5>1
      <4>2. CASE j # i
        <5>1. disk'[j] = disk[j]
          BY <3>1, <4>2 DEF DInv
        <5> QED BY <5>1
      <4> QED BY <4>1, <4>2
    <3> QED BY <3>1, <3>5 DEF Abstract!vars
  <2> QED BY <2>1, <2>3, <2>4, <2>5, <2>6, <2>7
<1> QED BY <1>2, <1>3

-----------------------------------------------------------------------------
(* The theorems.  They hold of groups that start from new disks            *)
(* (State::new); every disk that a crash leaves behind comes from those.   *)

(* RaftSafety: leaders are unique in their term and known truly, two logs  *)
(* with an entry of one index and term are equal up to it, and a leader    *)
(* has every entry that was published before it was elected (step, append, *)
(* become_leader, advance_commit).                                         *)
THEOREM LogsAreSafe ==
  ASSUME FixedGroups
  PROVE  NewDisks /\ Spec => []RaftSafety
<1>1. RInv /\ DInv /\ LInv /\ ElectionSafety => RaftSafety
  <2> SUFFICES ASSUME RInv, DInv, LInv, ElectionSafety PROVE RaftSafety
    OBVIOUS
  <2>1. LeaderHint
    BY DEF RInv, Sound, LeaderHint
  <2> QED BY <2>1, LogsMatch, LeadersComplete DEF RaftSafety
<1> QED BY <1>1, AlwaysLInv, PTL

(* Durability: what was published is on the disks of a majority, crashes   *)
(* at any moment included; peers hold on disk what a leader counts; every  *)
(* incremental write is exact, and every disk passes State::restore        *)
(* (ready, persisted, next_message, advance_commit).                       *)
THEOREM PublishedSurvives ==
  ASSUME FixedGroups
  PROVE  NewDisks /\ Spec => []Durability
<1>1. RInv /\ DInv /\ LInv => Durability
  BY DurableSays, MatchedDurable, PublishedDurable DEF Durability
<1> QED BY <1>1, AlwaysLInv, PTL

(* MatchedIsDurable: a leader's matched position never overstates what the *)
(* peer has on disk, whichever late or repeated acknowledgement set it     *)
(* (replicated).                                                           *)
THEOREM PeersAreCountedTruly ==
  ASSUME FixedGroups
  PROVE  NewDisks /\ Spec => []MatchedIsDurable
<1>1. RInv /\ DInv /\ LInv => MatchedIsDurable
  BY MatchedDurable
<1> QED BY <1>1, AlwaysLInv, PTL

(* AcksReachTheirLeader: an acknowledgement is addressed to the node that  *)
(* was elected in the term it carries (reply, replicate).                  *)
THEOREM AcksGoToLeaders ==
  ASSUME FixedGroups
  PROVE  NewDisks /\ Spec => []AcksReachTheirLeader
<1>1. RInv /\ DInv /\ LInv => AcksReachTheirLeader
  BY AcksSafe
<1> QED BY <1>1, AlwaysLInv, PTL

(* ImplementsReplicatedLog: the nodes behave like one growing log of which *)
(* each disk knows a prefix that never shrinks; no published entry is ever *)
(* revised, and no disk forgets one, crashes included (persist, ready,     *)
(* restore).                                                               *)
THEOREM GroupsReplicate ==
  ASSUME FixedGroups
  PROVE  NewDisks /\ Spec => ImplementsReplicatedLog
<1>1. LInv => Abstract!Init
  BY StartsReplicated
<1>2. RInv /\ DInv /\ LInv /\ [Next]_vars => [Abstract!Next]_(Abstract!vars)
  BY NextReplicates
<1> QED BY <1>1, <1>2, AlwaysLInv, PTL DEF Spec, ImplementsReplicatedLog, Abstract!Spec
=============================================================================
