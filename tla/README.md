# TLA+ models of Jarl and Provium

This directory holds TLA+ specifications of the two programs of the repository,
TLC configurations that check them on small instances, and TLAPS proofs:

- `jarl`, the allocation-free, sans-I/O Raft library, with the journals and the
  storage worker of its examples;
- `provium`, the tool that translates a restricted Rust into executable Lean,
  captures Cargo builds, runs the Lean proofs of a crate and certifies the result.

The Rust source is the reference: every definition that models code is listed in
`PROJECT.json` with the lines it stands for.

## 1. The system

| Part | State | Operations | Hard behaviour |
| --- | --- | --- | --- |
| `Node` (`jarl/src/node.rs`) | role, leader hint, votes, per-peer `next`/`matched`/`active`, outbox, dirty flags | `tick`, `step`, `propose`, `propose_batch`, `compact`, `grow`, `ready`, `next_message` | stale, repeated and reordered messages; output gated on persistence |
| `Cluster` (`jarl/src/cluster.rs`) | none of its own: hooks make log records define the membership | `set_learners`, `reconfigure`, `finish_reconfiguration`, proposals with a reserve | joint consensus, pre-votes, leader stickiness, quorum check, removed leaders |
| `Membership` (`jarl/src/membership.rs`) | up to `MAX` slots with voter, old-voter and learner flags | `new`, `restore`, `with_learners`, `joint`, `finalized`, `quorum`, `quorum_index` | slot reuse, even and odd majorities, two majorities at once |
| `State`, `Ready` (`state.rs`, `ready.rs`) | hard state, snapshot, up to `CAP` entries | `push`, `truncate`, `install`, `grow`, `restore`, `write`, `persisted` | incremental writes must rebuild the checkpoint exactly |
| `host` (`host.rs`) | - | `persist`, `persist_async` | failed or cancelled saves |
| journals (`jarl/examples/support`) | a file of checksummed frames | `open`, `save` | torn frames, failed writes and syncs |
| storage worker (`jarl/examples/async_storage.rs`) | channel, job, completion, waker | `save`, `poll`, drop | dropped futures, retries, lost wake-ups |
| scalar backend (`provium/src/ir.rs`, `frontend.rs`, `lean.rs`) | a function being compiled | `compile`, `run`, `generate` | scopes, inlining, types of literals |
| method bodies (`provium/src/methods/imperative.rs`, `lean/Provium/Imperative.lean`) | names, slots, labels, function table | `lower_imperative`; the machine's `run` | places, order of evaluation, iterators, write-back |
| loader (`provium/src/methods.rs`, `methods/configured.rs`) | tables of types, methods and imports | `Crate::load`, `check_method_resolution` | conditions anywhere, names that resolve elsewhere |
| inventory and ledger (`provium/src/cfg.rs`, `coverage.rs`) | inventory, classification, audit | `inventory`, `inventory_configured`, `audit` | `cfg` semantics, a ledger that outlives its source |
| captured builds (`cargo_capture.rs`, `cargo_subject.rs`, `methods/build.rs`) | records directory, evidence directory | `capture`, the wrapper, the recheck | edits during a build, reused process ids, cached units |
| verification runs (`project.rs`, `suite.rs`, `specification.rs`) | output directories, Lean objects, certificates | `verify_project`, `verify_suite` | edits between reads, kills, stale evidence |
| shape recognisers, Lean proofs, explorers, `hubby`, `hubby-core` | - | - | not modelled (section 6) |

A host owns a node. It calls one operation, saves the pending write if there is
one, acknowledges it, drains the messages, and only then may call the next
operation (`available`). Hosts talk through an unreliable transport.

A suite of `provium` verifies the proof projects of a crate one after the other.
Each project is read, translated by one of the backends (which load the crate
and may rest on a captured build), written to an output directory with its
evidence, checked by Lean, compared again with the files it was read from, and
certified.

What makes the parts correct:

- *Node*: one leader per term, matching logs, committed entries never lost or
  revised, progress arithmetic that never leaves its range.
- *Cluster*: quorums of consecutive configurations intersect, one change at a
  time, membership caches follow the log, a removed leader steps down when its
  removal commits.
- *Membership*: slots and flags agree, `quorum_index` agrees with `quorum`.
- *State*: every write brings the disk to the state in memory, and every disk a
  crash can leave is accepted by `restore`.
- *Journals and worker*: after any crash `open` finds the acknowledged checkpoint or
  that with the one write under way; every awaited save is answered.
- *Backends*: what the translation computes is what Rust computes, panics
  included, and what it cannot translate it refuses.
- *Loader, inventory*: what they see of a crate is what rustc compiles, and a
  method found by its spelling is the one rustc calls.
- *Captured builds, verification runs*: evidence describes one state of the
  inputs that really existed, belongs to its certificate, and never outlives a
  later failure.

The list of everything that is hard to test, with the line where it bites and
the property that watches it, is `hazards` in `PROJECT.json`.

## 2. The modules

| Module | Models |
| --- | --- |
| `Common` | `None` and two-argument minimum and maximum |
| `Membership` | `membership.rs` as operators on a record of a slot array and three sets |
| `MembershipChanges` | the life of one configuration under the calls of `cluster.rs` |
| `LogState` | `state.rs`, `ready.rs`, and `ApplyWrite`, what a host does with a write (`apply` of the example journals) |
| `Node` | `node.rs` and the operations `cluster.rs` adds: each method is an operator from node to node |
| `Raft` | nodes, disks and the network; one action per operation |
| `ReplicatedLog` | abstract: one growing log, replicas that durably know prefixes |
| `Election` | abstract: durable votes elect leaders under one configuration |
| `FairRaft` | `Raft` with envelopes in flight that are received or lost, and the fairness of hosts and transport |
| `Journal` | the example journals, the storage worker and `persist_async` over one node's checkpoint |
| `Scalar` | `ir.rs`, `frontend.rs`, `lean.rs` as operators on syntax trees |
| `RustScalar` | reference: what the scalar subset means in Rust |
| `MethodValues`, `Machine` | the values and the machine of `Imperative.lean` |
| `MethodTypes`, `Imperative` | `methods/imperative.rs`: types, then the compiler |
| `RustMethod` | reference: what method bodies mean in Rust |
| `Conditional` | `cfg.rs` |
| `RustCrate` | reference: what rustc compiles of a crate and which method a call reaches |
| `Inventory` | `coverage.rs`: the collector, and the ledger as a state machine |
| `Loader` | `Crate::load` of `methods.rs` with `methods/configured.rs` |
| `Capture` | captured builds and the method verification on top |
| `Verifier` | verification runs of suites and projects |
| `MC...` | instances for TLC |
| `MembershipProofs`, `ChangeProofs` | theorems about configurations and their changes |
| `ElectionProofs` | theorems about the abstract election |
| `DurableProofs` | theorems about one node and its disk, in every scenario |
| `RaftProofs` | theorems about the elections of a fixed group, and lemmas on what its operations do to logs |
| `LogProofs` | theorems about the logs of a fixed group |
| `VerifierProofs`, `CaptureProofs` | theorems about `Verifier` and `Capture` |

`Node` extends `Membership` and `LogState`; `Raft` extends `Node`, and instantiates
`ReplicatedLog` and `Election` with refinement mappings; `FairRaft` extends `Raft`,
`Journal` extends `LogState`. `Scalar`, `RustScalar` and `Machine`, `MethodTypes`,
`Imperative` are chains of `EXTENDS`; `Inventory` and `Loader` extend `RustCrate`,
which extends `Conditional`.

**A node** is a record whose fields are those of the Rust struct. Arrays over
peer slots are functions on `Slot`, boolean arrays the sets of their true slots;
slot 0 stands for the index `N` of a sender without a slot. `extra` is
`extra_reply`. `logFrom`, `snapChanged` and `dirty` describe the pending write.
The handlers of `step` (`OnVote`, `AppendOne`, `AppendAll`, `InstallSnapshot`,
`Replicated`, ...) include every call they make: `refresh_membership`, the
broadcast after a commit, stepping down inside `commit_to`.

**Values** are opaque. A membership record in the log is the membership itself,
a barrier is `None`. The application state of a snapshot is the sequence of the
entries applied (external to the source: hosts build it), so that the whole
history of a log can be compared after compaction.

**Time** is abstract. The counters of `tick` and the random deadline become a
choice of which thresholds a tick reaches: heartbeat or election (`due`), quorum
check (`check`), leader contact grown old (`ages`, kept as the flag `aged`). An
election deadline is never before `election_ticks`, hence `due` implies `aged`.

**Actions of `Raft`**: `Timer` (`tick`), `Deliver` (`step`), `Propose`, `Compact`,
`GrowLog`, `ChangeLearners`, `BeginJoint`, `FinishJoint`, `Save` (`persist` with the
drain behind it), `Crash` (everything but the disk is lost; the node is built
again from it). The network is the set of all envelopes ever sent: loss,
duplication, delay and reordering need no actions. A failed save is a `Save` that
has not happened, a crash after a save whose acknowledgement is lost is `Save` and
`Crash` with envelopes that are never delivered.

Two reductions keep the state spaces small; neither hides a behaviour:

- *`Turn`*: while a node waits for its save nobody sees what it did and it sees
  nobody, so steps of other nodes can be moved before its operation. Only one
  node at a time is dirty. The argument needs the gate of `next_message`, which
  `Act` models and `Durability` guards: it fails for `ActEagerly`, which drops the gate.
- *`View`* in `MCRaft`: envelopes that can never change a state again, and arrays
  that will be overwritten before they are read, do not distinguish states. A
  `Voted` or `Replicated` reply whose receiver has durably reached its term without
  being a candidate or leader of that term is dead, because these roles are
  entered only by campaigning for a greater term; a refusal has no effect but to
  announce its term.

**`FairRaft`** splits `Timer` into `Heartbeat`, `QuorumCheck` and `Deadline`, keeps the
envelopes in flight apart from those ever sent, and adds `Lose`. A lost envelope
arrives only if the code sends it again.

**`Journal`**: the file is a sequence of units; a length and a checksum are two
units each, so either can be torn. `Submit` is `Worker::save` (the job is queued),
`Work` takes the worker through encoding, appending (whole, in part or not at all),
syncing and completing; `Poll`, `Unpark`, `Spurious` and `Cancel` are the future and
its executor; `Crash` keeps any prefix that contains what was synced; `Open` is
`Journal::open`; `Rot` spoils one unit. `Operate` changes the node's checkpoint with
the operators of `LogState`, so every kind of write occurs.

**Translators** (`Scalar`, `Imperative`, `Loader`, the collector of `Inventory`) are
operators from syntax trees to results. Their specifications choose a program
from a family given by the MC module, compile it, run it on every input, and keep
both what the translation and what the reference computes. The state machines
take translator and reference as operator constants (`Observed`, `Lowered`, `Ends`,
`Inventoried`, `RustcLists`, `Loaded`, `RustcKeeps`), to which the configurations
give the operators of that purpose. Integer widths are
scaled down to 2-4 bits; a name is a string, a syntax hash is the tree itself.
The references are written from the Rust language, with other means than the
translators (cells instead of copied slots, pulled iterators instead of unrolled
chains), and count as external in the map. Where a file is switched off by its own
`#![cfg(..)]` rustc drops the `mod m;` that names it while the inventory and the loader keep
that empty declaration: `Vacated` are those declarations, the one thing they may list more
than rustc compiles. In `Imperative`, `cx` is the state of
the compiler and is carried through refusals, because some callers try again.
`Scalar` compiles a callee anew at each call where `frontend.rs:166` keeps a table of
compiled functions; the results are the same, and the limit on the depth of calls is
reached no later.

**`Verifier`**: a worker is a program counter with what it has read so far; each
action is one file operation or one process (read, compile, run rustc, write an
artifact, run Lean under its lock, recheck, certify). `Edit` and `Crash` may come
between any two. A suite removes the certificates below its output one at a time
(`RemoveCertificates`) and remembers that it got through (`cleaned`); `SuiteFails` are
the errors that end it before, during and after that, a backend's own are part of its
steps. **`Capture`** does the same for a capture (`Begin`, `Metadata`, `Resolve`,
`ReadWorkspace`, `ReadSources`, `Snapshot`, the steps of `Cargo` with a wrapper per
unit, `Decode`, the rechecks, `Publish`) and for `Verify` on top of it. Contents are
versions that never recur. What a manifest declares depends on its version, and the
manifests are read three times: by `cargo metadata`, whose graph the capture keeps
(`meta`), by the capture itself, which hashes them (`mem`), and by Cargo for the build
(`built`). The code compares the hashes with the disk again at the end, the graph and
the records never.

**`Inventory`** as a state machine: a developer edits the crate (`Edit`) or the
obligations (`EditProject`), regenerates the inventory, classifies and withdraws
entries, and audits.

**Scenarios.** `Raft`, `FairRaft`, `Journal`, `Verifier` and `Capture` take a constant
`Scenarios`: a function from names to records that fix a start and the bounds of
what may happen. The variable `scenario` is chosen by `Init` and never changes, so
one run covers several instances. The fields are described where `Scenarios` is
declared; in `Raft` they are who may campaign in which term (`campaigns`), beat,
crash, compact, grow, be sent commands or changes, what the network carries, and
the disks to start from. Runs marked `CHECK_DEADLOCK FALSE` can stop because these
bounds are used up (or, for the translators, because the program has been run),
not because the protocol stops.

Operators introduced by "Mutant" or "Fault" are plausible mistakes in the
definition that follows them. Nothing uses them; each shows that a property notices the mistake.

## 3. The runs

| Run | Instance | Checks |
| --- | --- | --- |
| `quorums` (`MCQuorums`) | either `Election`, three voters, two terms, any durable start, or `MembershipChanges`, four identities, three slots, lists of up to three with repetitions and clashes | `TypeOK`, `AtMostOneLeader`, `Consistent`, `CommitIndexIsQuorum`, `ChangesOverlap` |
| `logs` (`MCRaft`, `MCLogs.cfg`) | `FixedLogs`, three fixed nodes | `RaftSafety`, `ImplementsReplicatedLog` |
| `storage` (`MCRaft`, `MCStorage.cfg`) | `FixedStorage`, three fixed nodes, terms and indices end at 4 | `TypeOK`, `Durability`, `Drainable`, `ImplementsElection`, `ImplementsReplicatedLog` |
| `changes` (`MCRaft`, `MCChanges.cfg`) | `Changes`, `Cluster` nodes of four identities and three slots | `RaftSafety`, `MatchedIsDurable`, `AcksReachTheirLeader`, `CachedMembership`, `RemovedLeaderSteps`, `ChangesInTurn`, `ImplementsReplicatedLog` |
| `fair` (`MCFair`) | `Pairs`, two nodes under fair hosts | `BarrierCommits`, `CutOffLeaderSteps`, `EveryoneCatchesUp` |
| `journal` (`MCJournal`) | `Journals` | `Recoverable`, `NothingLost`, `SaveAnswered` |
| `sources` (`MCSources`) | crates under eight configurations, listed by `Inventory`, loaded by `Loader`; a ledger under edits; over ten thousand source files of the scalar subset on all inputs | `ListsLikeRustc`, `AccountsForSource`, `LoadsLikeRustc`, `ResolvesLikeRust`, `Faithful`, `LeanAgrees` |
| `methods` (`MCImperative`, `MCMethods.cfg`) | four families of method bodies on all receivers and arguments, with and without overflow checks | `LikeRust`, `TableAgrees` |
| `verifier` (`MCVerifier`) | `MCScenarios` | `CertificatesTrue`, `NoFalseSuccess`, `Terminates` |
| `capture` (`MCCapture`) | `MCScenarios` | `CapturedTogether`, `WholeBuildCaptured`, `FailureRemovesSuccess`, `CaptureStillTrue` |
| `spoilt_length` (`MCJournal`, `MCRotLength.cfg`) | `SpoiltLengths` | `NothingLost`, violated |
| `dependency_free` (`MCCapture`, `MCDependencyFree.cfg`) | `MCScenarios` | `DependencyFree`, violated |

The last two state what the documentation says and find it violated (section 5);
the others pass. `quorums` and `sources` put specifications side by side that share
no state: `Init` chooses one, and its own `Next` goes on with it. In `quorums` the three
voters are interchangeable (`SYMMETRY`): neither part tells identities apart but by
the lists they occur in, and `Lists` holds every list of its lengths.

Some invariants are conjunctions of parts stated and commented
on their own:

| Invariant | Parts |
| --- | --- |
| `Consistent` | `WellFormed`, `RestoresToItself` |
| `RaftSafety` | `ElectionSafety`, `LeaderHint`, `LogMatching`, `LeaderCompleteness` |
| `Durability` | `SaveIsExact`, `DiskRestores`, `MatchedIsDurable`, `PublishedIsDurable` |
| `Drainable` | `ProgressInRange`, `DrainIsTotal` |
| `Recoverable` | `TypeOK` of `Journal`, `OldOrNew`, `MirrorsFile` |
| `Faithful` | `Preserved`, `NoTypeFault` |
| `LikeRust` | `SameResult`, `SameReceiver`, `PanicsAgree`, `NeverStuck` |
| `ListsLikeRustc` | `SelectsLikeRustc`, `Conservative` |
| `CertificatesTrue` | `CertificateMatchesEvidence`, `CertifiedTogether`, `OwnObjects` |
| `NoFalseSuccess` | `FreshCertificates`, `SuccessIsCertified` |
| `WholeBuildCaptured` | `EveryUnitCaptured`, `GraphIsClosed`, `UnitsAreTheGraph` |

The scenarios:

| Run | Scenario | What happens in it |
| --- | --- | --- |
| `logs` | `election` | everyone campaigns in terms 1 and 2, everyone crashes |
| | `probe` | `Cluster` nodes with pre-votes, stickiness and quorum check; a and b in term 1, a in term 2, a crashes |
| | `replication` | a leads term 1 with a client; a and b crash |
| | `old_term` | disks with conflicting uncommitted entries of terms 1 and 2 (`OldTermDisk`) meet leader a in term 3, and c, which was cut off and comes back in term 5; a and b crash |
| `storage` | `election` | as in `logs` |
| | `compaction` | a laggard with a longer conflicting log (`LaggardDisk`), heartbeats, compaction at both ends, crashes of the laggard |
| | `full` | a is elected with a full log and has to be grown, c has no room |
| | `exhausted` | the last term and the last index are used up (`ExhaustedDisk`) |
| `changes` | `replace` | voters a and b, fresh joiner c; a makes c a learner, replaces itself by c, finishes and steps down |
| | `split` | only a holds the joint configuration that shrinks {a, b, c} to {a} (`ShrinkDisk`); a and b campaign in one term |
| | `shrink` | the same start but for c, which has voted for itself in term 2; a leads and finishes, b campaigns later |
| | `evict` | four identities, three slots: d takes the slot of learner c and then replaces voter b |
| `fair` | `progress` | two fresh `Cluster` nodes, two losses |
| | `cut_off` | the same, nothing need be delivered |
| | `full` | a follower without room (`FullDisk`), two losses |
| `journal` | `lived_in` | a journal of four writes (`LivedIn`), one more of every kind through the worker |
| | `rotten` | a new journal whose payload or checksum is spoilt while it is closed |
| `verifier` | `edited`, `again` | one project of any kind, edited twice while it is verified; verified twice |
| | `suite` | a suite of two projects, an edit, two runs; errors before, while and after certificates are removed |
| | `threads` | two threads with suites of their own share the lock of Lean |
| `spoilt_length` | `length` | a new journal in which a frame's length is spoilt while it is closed |
| `capture` | `graph` | three packages, two captures, an edit that may make a dependency test-only, reused process ids |
| | `alone` | a method verification on the capture of a package with a test-only dependency, two edits that may make it a normal one |
| | `stray` | a package from elsewhere, which is refused |

The restored starts are disks and files that a run from scratch can leave behind;
the comment on each tells how. They spend the state budget where the interesting
steps are: the conflict of two uncommitted suffixes needs three terms before it
even exists, and a joint configuration that only its author holds needs a
committed first entry.

Why the bounds are enough for the question each run asks: a wrong vote needs two
candidates and one shared voter; commitment of an old entry needs a leader that
counts and one more that overwrites; progress arithmetic needs one delayed
rejection and one acknowledgement; a snapshot that must drop a suffix needs a log
longer than its boundary; disjoint quorums across a change need an old majority
without the author of the joint configuration, which three nodes give when the
target is one of them (a change from {a, b} to {b, c} would not: b is in every
quorum). A stale slot needs one identity more than slots. A lost write needs one
acknowledged frame and one under way, so a journal with some history and every
kind of next write is the whole question; `maxFile` leaves room for two frames. A
stale certificate needs one verification that succeeded and one that does not;
evidence of a state that never existed needs an edit before and one after a read.
A translator has no state between functions but the table, so small bodies that
combine two or three features each, run on every input of a few bits, are what
can go wrong; families, not single programs, are the instances.

**Refinement.** `ImplementsReplicatedLog` maps `learned` to the committed part of
every disk and `chosen` to the longest log any node has published after a save:
published entries are never revised, crashes included. `ImplementsElection` maps
a vote to the message that publishes it: a `Voted` grant, or a candidate's own
`Vote` request.

**Fairness.** Safety properties need none. The others:

- `journal` (for `SaveAnswered`) assumes weak fairness of the worker, of polling and
  of unparking: the operating system schedules both threads and an executor polls
  what was woken. Nothing is assumed of the wake-up itself; that it is not lost is
  the point.
- `verifier` (for `Terminates`) assumes weak fairness of each thread's next step:
  rustc and Lean end, and a free lock goes to a thread that waits.
- `fair`: hosts keep calling `tick` (each threshold is reached again and again), save
  what is pending, and compact when they may; the transport delivers what it does
  not lose (not assumed in `cut_off`). These are weak fairness conditions written
  as `[]<>(~can \/ did)`, with a history variable for what a step did, since most of
  these steps can leave the state as it was. `maxLoss` bounds the losses, and `talks`
  says that deadlines are longer than the round trips they cover. No consensus
  protocol makes progress without such an assumption; the documentation of
  `Config` leaves it to the host. Under it the run shows that nothing which was lost
  stays lost: probes, campaigns and appends are all sent again.

## 4. What is proved

Every theorem holds for all values of the constants that satisfy the named
assumptions, which TLC evaluates on every run. The runs of section 3 check the
same properties on their instances; each inductive invariant was checked by TLC
before it was proved.

**Configurations** (`MembershipProofs`, `ChangeProofs`), from `Id` finite, `None` neither
an identity nor a membership, and `Lists` being lists of identities:

- `MajoritiesIntersect`: two strict majorities of a finite set share a member
  (counting `S \cap A` and `S \cap B` against `S`). Hence `QuorumsIntersect`, for two
  quorums of any configuration, and `AdjacentQuorumsIntersect`, for a quorum of a
  configuration and one of an adjacent configuration.
- `ConfigurationsAreConsistent`: `Spec => []Consistent`. The invariant `MInv` says that
  the slot array holds exactly the members, each once (`Fit`), with voters, and no
  voter a learner. `Fit` is what makes a free slot exist whenever there is
  room: occupied slots and members are equally many (`Room`). The lists that a
  configuration is stored as give it back, because a list in slot order names each
  member once (`Listed`) and including them again succeeds (`Restored`).
- `ChangesAlwaysOverlap`: every step leads to an adjacent configuration.
- `CommitIndexIsAQuorum`: the rank that `quorum_index` takes from the sorted positions
  exists (`RankExists`) and is the greatest position that a strict majority has
  reached, for even and odd sizes; in a joint configuration, of both majorities.

**Elections** (`ElectionProofs`), from `ConfigAssumption` and `TermAssumption`:

- `ElectionTypeCorrect`: `Spec => []TypeOK`;
- `ElectionIsSafe`: `Spec => []AtMostOneLeader`. `AtMostOneLeader` is not inductive.
  The invariant `IInv` adds that a published vote still binds its voter through
  the durable term and vote (`VotesBind`), hence that published votes are unique
  (`OneVote`), and that every leader has a quorum of them (`QuorumBacked`). A save
  keeps `VotesBind` because it never lowers the term nor changes a vote within it;
  two leaders of a term then share a voter by `QuorumsIntersect`.

**One node and its disk** (`DurableProofs`), from the assumptions on the constants of `Raft`
alone, so for every scenario, `Cluster`s with changing memberships included:

- `SavesAreExact`: `Spec => [](SaveIsExact /\ DiskRestores)`. The pending write is described
  by `logFrom` and `snapChanged` only, while the log is appended to, truncated, compacted,
  replaced by a snapshot and grown any number of times before it is saved. The invariant
  `DInv` says of a node over its disk (`Held`) that memory and disk agree below `logFrom`
  and above the base, that the base only moves with `snapChanged`, and that term and
  commit are not behind the disk's (`Pends`); that both are checkpoints that
  `State::restore` accepts (`CP`); and of every envelope that what it carries has the
  ranges that `step` relies on (`MsgOK`). `Exact` computes the result of the write, through
  the filter loop of `ApplyWrite` (`Kept`). Every operator of `Node` is then shown either to
  work beside what is saved (`Beside`) or to keep `Held`.

**Elections of nodes** (`RaftProofs`), from `GenesisAssumption`, `DisksAssumption` and the
hypothesis `FixedGroups`: the nodes serve no `Cluster`, all start from the same membership, and
no node is a quorum by itself. (A group with one voter becomes leader without
sending a request, so its vote is never published and `Election` does not describe
it. `MCStorage` and, but for `probe`, the scenarios of `MCLogs` satisfy `FixedGroups`.) For any number of nodes, slots, terms, messages
and log operations, with loss, repetition, reordering and crashes:

- `FixedGroupsElect`: `Spec => ImplementsElection`, the refinement that `MCStorage` checks;
- `OneLeaderPerTerm`: `Spec => []ElectionSafety`, by instantiating `ElectionProofs` with
  the refinement mapping;
- `HintsNameLeaders`: `Spec => []LeaderHint`.

The operators of `Node` fall into two classes. `Keeps(n, r)` says that an operation leaves
alone whatever elections depend on (term, vote, role, counted votes, queued vote
messages); it is shown of everything that works on the log (`barrier`, `append`,
`install`, `commit_to`, `propose_many`, `compact_with`, `replicated`, broadcasts,
`refresh_membership`). The rest (`campaign`, the vote handlers, `become_leader`,
`follow`, the adoption of a term) is treated one by one. The invariant `RInv` says of
every node (`Sound`): its disk is behind its memory and agrees with it where a vote
was saved (`Follows`); what is queued is true (`Honest`: a request carries the node's
own vote, a grant goes to the one voted for, who has asked; only a leader replicates);
a candidate counts its own vote and published ones (`Counted`); leader and hint were
elected in the node's term. And of every envelope ever sent (`Truthful`) that a grant
answers a request that was sent, and that entries and snapshots come from elected
leaders. The crux is the candidate's own vote: it counts it before it is on disk,
and what publishes it is its request. A grant answers such a request, and nobody
is a quorum alone, so when `become_leader` runs the request has been sent.

**Logs of nodes** (`RaftProofs`, second half, and `LogProofs`), from the same assumptions,
`FixedGroups` and `NewDisks`: every disk starts as `State::new` leaves it, of any capacity.
(The scenarios `election` and `replication` of `MCLogs` start so. Restarts from later disks are covered, since
`Crash` builds a node again from whatever its disk holds at that moment; what `NewDisks`
leaves out is a group put together from disks that never belonged to one.) For any
number of nodes, entries, messages, saves, crashes, compactions, installed snapshots and
grown logs:

- `LogsAreSafe`: `NewDisks /\ Spec => []RaftSafety`;
- `PublishedSurvives`: `NewDisks /\ Spec => []Durability`;
- `PeersAreCountedTruly`: `NewDisks /\ Spec => []MatchedIsDurable`;
- `AcksGoToLeaders`: `NewDisks /\ Spec => []AcksReachTheirLeader`;
- `GroupsReplicate`: `NewDisks /\ Spec => ImplementsReplicatedLog`.

None of these is inductive, and the state does not show why they hold: the log of an
earlier leader may be nowhere any more. The invariant `LInv` therefore says that *some*
ledger `H` explains the state, where `H[t]` is the log that the leader of term `t` has had
on disk. Its parts:

- *Ledger and disks* (`Ledger`, `Rooted`, `DisksOK`): each entry of a log, at index `k` and of
  term `t`, comes with everything before it from `H[t]`. Log matching is immediate: two
  logs with the same identity at `k` both agree with the same `H[t]` through `k`.
- *Acknowledgements* (`AcksOK`): what a node acknowledged to the leader of `t` through `m` it
  still has on disk, unless some leader after `t`, in a term the node has reached, lacks it
  (`Safe`, `Lost`). The exception makes the fact inductive without knowing yet that it
  never happens.
- *Votes* (`VotesOK`, `GrantsOK`, `TermsOK`): each leader of the ledger had a quorum of voters
  such that it has whatever they had acknowledged in earlier terms, again unless a leader
  in between lacks it (`Inherits`). A grant carries this over from the voter's disk through
  the comparison of last identities in `OnVote`.
- *Published entries* (`ChosenOK`): what is published agrees with some `H[t]` up to an entry of
  that leader's own term that a quorum acknowledged (`Decided`).

`Decisive` closes the circle: of the leaders after `t` without a decided entry take the
least; its quorum shares a voter with the one that acknowledged, and the exception would
need a smaller one. So every later leader has every decided entry.

A node with unsaved changes is described by what will be true when it is saved: a leader
is ahead of its disk only by entries of its own term, has counted only what was
acknowledged (`MatchedSafe`), and has committed only what a quorum holds once its own log is
saved (`Leads`, `Supports`); a follower has taken over a part of its leader's ledger or kept its own log (`Trails`), and what
it has queued is true of the log after the save (`OutSafe`). `Waits` and `Rests` are a node
with and without unsaved changes. Each operation keeps these facts (`Leaves`, one lemma per
handler); a save turns them into facts about the new disk and the new envelopes, extending
`H` when the node is a leader and `chosen` when it publishes (`SavedAs`, `FlushedAs`). The
conditions that the code checks appear as the premises of these lemmas: the
own-term test of `advance_commit`, the gate of `next_message`, the predecessor check of
`append`, the boundary test of `install`.

**Verification runs** (`VerifierProofs`), from `SuitesAreDisjoint` and
`ScenariosAssumption`, for any threads, suites, backends, edits, kills and numbers of
runs:

- `CertificatesAreTrue`: `Spec => []CertificatesTrue`. Contents never recur, so an input
  that its recheck finds unchanged has not changed since it was read. The invariant
  says that some moment since the reads had every input that was rechecked *or is
  still as it was read* (`Together`); the second half is what survives an edit. It
  also follows what the run has left in its directory phase by phase (`Verifying`),
  and that the certificate is absent while a thread verifies.
- `SuccessIsNeverFalse`: `Spec => []NoFalseSuccess`. A suite that got past its cleaning
  leaves no certificate of an earlier run, wherever it fails afterwards, and success means
  a certificate of this run for everything that was found, in a single project for that
  project. The errors of `suite.rs:53-65` and of `remove_certificates` come before: after
  them certificates of earlier runs may be left, and the failure is reported. Certificates
  of a suite change in three places: cleaning, invalidating, `Certify`. What was cleaned
  stays without one until this run gives it (`Cleaned`); a project neither queued nor being
  verified has got its own (`Claimed`).

**Captured builds** (`CaptureProofs`), from `ScenariosAssumption`, for any
package graph, process ids, edits, crashes and numbers of runs: `CapturesAreTogether`,
`CapturesAreWhole`, `FailuresLeaveNothing` and `CertificatesRestOnCaptures` state the four
properties that `MCCapture` checks. The invariant `CInv` adds to the argument above
that the resolution ends with the closure of the root in the manifests that the metadata
were made from, whatever order it takes (`Resolving`), that a unit starts after its
dependencies and leaves one record (`Building`), and the same moment again for the files
bound after lowering (`StillThere`). That the units are the graph is proved under the
premise that the manifests of the graph are the ones that were hashed: they are then
unchanged from the metadata to the last recheck, and so were they when Cargo read them.
Without the premise it is false (`dependency_free`).

*How loops are proved.* `IncludeAll`, `InOrder`, `TrackAll` and `AppendAll` are recursive
functions on a bounded interval. `Iterates` shows that the sequence of values such
a loop goes through exists and `Upward` is induction over the interval on the *set* of
rounds for which a fact holds; both come from the least element of a set of
naturals (`LeastNatural`). `Needs`, the closure of a package graph, is the least
closed set.

**Only model-checked:** `TypeOK` and `Drainable` of `Raft`; for `Cluster`s the properties of runtime
membership (`CachedMembership`, `RemovedLeaderSteps`, `ChangesInTurn`) and the safety of
elections and logs while the membership changes, where the quorum of a term depends on
the log itself and the ledger would have to carry configurations too; groups with a
single voter; everything about `Journal`; the translators (`Scalar`, `Imperative`,
`Loader`, `Inventory`), which are `RECURSIVE` operators over syntax trees, out of the
prover's reach; liveness under fairness (`fair`, `SaveAnswered`, `Terminates`), which
TLAPS does not treat.

## 5. Where the code and its documentation disagree

Met while modelling. The operators model what the code does. Two of these are runs of
their own, in which TLC finds what the documentation says violated: `spoilt_length` and
`dependency_free`, the two in which evidence or acknowledged data goes wrong without any
party noticing. For the others the families of programs and crates that the runs choose
from leave the regions out, so that the properties of section 3 hold beside them and not
in them; the comments on `ListsLikeRustc`, `ResolvesLikeRust`, `Faithful` and `LikeRust` say
which are meant.

| Place | What the code does |
| --- | --- |
| `provium/src/frontend.rs:408` | `x << (1 - 2 + 2)`: the count is typed like `x`, unsigned, and the function faults; rustc types it `i32` and shifts by one (`provium/README.md:249`: "valid left shifts discard high bits, as in checked Rust") |
| `provium/src/methods/imperative.rs:1069` | `let r = 0..self.n; self.n = ..; for i in r`: the range is compiled where it is used and sees the new field; `provium/README.md:135` says that borrow rules make this equivalent, but a range borrows nothing |
| `provium/src/methods/imperative.rs:3938` | `a[f()] += x` evaluates the index twice; `take` and the write-back of an inlined call do so too |
| `provium/src/methods/imperative.rs:2176` | a loop over `lo..hi` with `lo > hi` ends by equality only and runs into an overflow (`provium/README.md:160`: "whose increment provably never wraps") |
| `provium/src/cfg.rs:125` | `#![cfg(x)]` inside an inline module or function is not read by `inventory_configured` |
| `provium/src/coverage.rs:221` | `#[cfg_attr(x, path = "..")] mod m;` is read as `m.rs` by the inventory that "every source item" is included in (`coverage.rs:357`) |
| `provium/src/methods.rs:350` | `impl<R> Local for R` passes as an impl for a struct named `R`, and `option.take()` means another method than the backends assume |
| `provium/src/methods.rs:367` | an impl of a foreign trait may reuse the name of an inherent method with a receiver that Rust's probe prefers |
| `jarl/examples/support/journal.rs:165` | a spoilt frame length that points past the end of the file is taken for a torn tail, and acknowledged frames are cut off (`journal.rs:3`: "rejects corruption"); run `spoilt_length` |
| `provium/src/methods/build.rs:65` | the packages that are counted come from `cargo metadata` (`cargo_subject.rs:144`), which read the manifests before they were hashed; a test-only dependency made a normal one in between is built, and certified as "dependency-free" (`provium/README.md:204`); run `dependency_free` |
| `provium/src/suite.rs:20` | `project.json` is read twice; an edit in between yields a certificate without obligations from the function that requires some (`suite.rs:17`) |

## 6. What is not modelled

- Socket I/O, the example clusters and the benchmark, the Lean proofs of `jarl`, the
  explorers (tests of the same code), the placeholder crates, read-only
  accessors, wording of errors. An operation of `jarl` that returns an error leaves
  the node as it was and is no step. Payload clones and borrows are the value
  itself.
- The shape recognisers under `provium/src/methods` (`validators`, `restorations`,
  `slot_batches`, `getters`, ...): each matches one fixed syntactic shape and emits
  fixed text. They have no state and no order of steps, and a model would only
  repeat their patterns. Likewise `extract.rs`, `profile.rs` and `target.rs`.
- The import resolution of `methods.rs` and the choice among recognisers.
- In the method runs: `move` closures, calls through function pointers, owned
  `mut self`, literals that fall back to `i32`. The families also keep out of the
  regions of section 5: iterator locals used twice or after
  their operands changed, ranges that start after their end, indices with effects
  in compound assignment, `take` and write-back; and out of names shadowed inside an
  expression that is compiled again after a refusal, where a refused block leaves
  its names in scope.
- The crates of `sources` leave out inner conditions of inventoried
  declarations, `cfg_attr` with `path` when no configuration is given, type parameters
  named like types of the crate, and foreign traits that reuse inherent names, for
  the same reason. All traits of the crate count as in scope for the probe.
- In `Journal`: checksum collisions, and crash images that are no prefix of the
  file. A crash while a new journal's header is written leaves a file that `open`
  refuses for ever; nothing acknowledged is lost, and `OldOrNew` asks only for files
  with a whole header. Spoilt lengths have a run of their own.

## 7. Plan

1. `CachedMembership` and `RemovedLeaderSteps` on top of `DurableProofs`, then the ledger of
   `LogProofs` for `Cluster`s: `QuorumsIntersect` is used in one place (`Decisive`) and would
   become `AdjacentQuorumsIntersect` with `ChangesInTurn`.
2. `Drainable`, from `Leads` with a lower bound on `next`.
3. Type correctness and acknowledged writes of `Journal`.
4. The import resolution of the loader.

`Scalar`, `Imperative`, `Conditional` and what extends them use `RECURSIVE` operators
over syntax trees; nothing is planned to be proved about them.
