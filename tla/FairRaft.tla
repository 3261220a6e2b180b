------------------------------ MODULE FairRaft ------------------------------
(***************************************************************************)
(* What the nodes of Raft eventually do.  An envelope is in flight from    *)
(* each time it is sent until it is received or lost, so that what was     *)
(* lost arrives only if the code sends it again.                           *)
(*                                                                         *)
(* A scenario has two fields more:                                         *)
(*   maxLoss   envelopes the network loses                                 *)
(*   talks     whether the network delivers what it does not lose, within  *)
(*             deadlines that are longer than the round trips they cover   *)
(***************************************************************************)
EXTENDS Raft

ASSUME LossAssumption ==
  \A s \in DOMAIN Scenarios : Scenarios[s].maxLoss \in Nat /\ Scenarios[s].talks \in BOOLEAN

VARIABLES
  flying,  \* envelopes in flight
  lost,    \* number of envelopes lost
  last     \* history: the last step, its kind and nodes, and a bit it flips

fairVars == <<vars, flying, lost, last>>

Was(kind) == last[1] = kind
Record(kind) == last' = <<kind, ~last[2]>>

(* One operation of node i; what it sends takes off.                       *)
Transmit(i, n, rest, kind) ==
  /\ Act(i, n)
  /\ flying' = rest \cup (IF n.dirty THEN {} ELSE Sent(n))
  /\ Record(kind)
  /\ UNCHANGED lost

Beats(i) == nodes[i].role = "Leader" /\ Turn(i) /\ CanTick(i, FALSE, TRUE, FALSE)
Heartbeat(i) ==
  Beats(i) /\ Transmit(i, Tick(nodes[i], FALSE, TRUE, FALSE), flying, <<"heartbeat", i>>)

(* A leader that hears its quorum within the interval passes every check.  *)
Checks(i) ==
  /\ nodes[i].role = "Leader" /\ Turn(i) /\ CanTick(i, TRUE, FALSE, FALSE)
  /\ Bounds.talks => ActiveQuorum(nodes[i])
QuorumCheck(i) ==
  /\ Checks(i)
  /\ \E due \in BOOLEAN :
       Transmit(i, Tick(nodes[i], TRUE, due, FALSE), flying, <<"check", i>>)

(* An election deadline passes; not before the answers to the last probe   *)
(* or campaign are in, if they come in time.                               *)
Expires(i) ==
  /\ nodes[i].role # "Leader" /\ Turn(i) /\ CanTick(i, FALSE, TRUE, ~nodes[i].aged)
  /\ Bounds.talks => flying = {}
Deadline(i) ==
  Expires(i) /\ Transmit(i, Tick(nodes[i], FALSE, TRUE, ~nodes[i].aged), flying, <<"deadline", i>>)

Arriving(from, to) ==
  {env \in flying : env.from = from /\ env.to = to /\ Turn(to) /\ Accepts(nodes[to], env)}
Receive(from, to) ==
  \E env \in Arriving(from, to) :
    Transmit(to, Step(nodes[to], env), flying \ {env}, <<"receive", from, to>>)

Persist(i) ==
  /\ Save(i)
  /\ flying' = flying \cup Sent(Persisted(nodes[i]))
  /\ Record(<<"save", i>>)
  /\ UNCHANGED lost

Compactable(i) == {index \in 1..U64Max : i \in Bounds.compactors /\ Turn(i) /\ CanCompact(nodes[i], index)}
CompactLog(i) ==
  \E index \in Compactable(i) :
    Transmit(i, CompactWith(nodes[i], index), flying, <<"compact", i>>)

Lose ==
  /\ lost < Bounds.maxLoss /\ lost' = lost + 1
  /\ \E env \in flying : flying' = flying \ {env}
  /\ Record(<<"lose">>)
  /\ UNCHANGED vars

FairInit == Init /\ flying = {} /\ lost = 0 /\ last = <<<<>>, FALSE>>

FairNext ==
  \/ \E i \in Id : \/ Heartbeat(i) \/ QuorumCheck(i) \/ Deadline(i)
                   \/ Persist(i) \/ CompactLog(i)
                   \/ \E j \in Id \ {i} : Receive(j, i)
  \/ Lose

(* Weak fairness of each step, in terms of when it can and did happen.     *)
(* Every step flips the bit of last, so one without other effect counts.   *)
(* Hosts call tick again and again, save what is pending and compact when  *)
(* they may.                                                               *)
HostQuiet == \A i \in Id : /\ ~Beats(i) /\ ~Checks(i) /\ ~Expires(i)
                           /\ ~nodes[i].dirty /\ Compactable(i) = {}
HostFairness ==
  /\ []<>HostQuiet \/ []<><<TRUE>>_fairVars
  /\ \A i \in Id : []<>(~Beats(i) \/ Was(<<"heartbeat", i>>))
  /\ \A i \in Id : []<>(~Checks(i) \/ Was(<<"check", i>>))
  /\ \A i \in Id : []<>(~Expires(i) \/ Was(<<"deadline", i>>))
  /\ \A i \in Id : []<>(~nodes[i].dirty \/ Was(<<"save", i>>))
  /\ \A i \in Id : []<>(Compactable(i) = {} \/ Was(<<"compact", i>>))

(* A transport that talks delivers what it does not lose.                  *)
NoneArriving == \A i, j \in Id : Arriving(j, i) = {}
Delivery ==
  /\ []<>(~Bounds.talks \/ NoneArriving) \/ []<><<TRUE>>_fairVars
  /\ \A i, j \in Id : []<>(~Bounds.talks \/ Arriving(j, i) = {} \/ Was(<<"receive", j, i>>))

FairSpec == FairInit /\ [][FairNext]_fairVars /\ HostFairness /\ Delivery

-----------------------------------------------------------------------------
(* Properties.                                                             *)

(* A cluster whose members can talk elects a leader, although messages of  *)
(* every kind are lost, and the entry the leader starts its term with gets *)
(* committed on every disk (the probe and the campaign of tick, barrier,   *)
(* the retransmission of heartbeats).                                      *)
BarrierCommits == <>(Bounds.talks => \A i \in Id : disk[i].commit >= 1)

(* A leader that does not hear from a quorum again and again gives up its  *)
(* role at the next quorum check (tick).                                   *)
CutOffLeaderSteps ==
  \A i \in Id : []<>(Bounds.hooks /\ nodes[i].role = "Leader" => ActiveQuorum(nodes[i]))

(* Whatever the leader has logged reaches every member, also one that had  *)
(* to refuse it for want of room until it compacted (replicated's retry on *)
(* the next heartbeat).                                                    *)
EveryoneCatchesUp ==
  \A i \in Id : (Bounds.talks /\ nodes[i].role = "Leader") ~>
    \/ nodes[i].role # "Leader"
    \/ \A j \in Id : LastId(disk[j]) = LastId(nodes[i].st) /\ disk[j].commit = LastId(disk[j]).index
=============================================================================
