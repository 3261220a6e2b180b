------------------------------- MODULE Capture -------------------------------
(***************************************************************************)
(* Captured Cargo builds (cargo_capture.rs, cargo_subject.rs) and their use  *)
(* by a method verification (methods/build.rs).  One capture at a time runs  *)
(* in an evidence directory; Cargo compiles the units of the build           *)
(* concurrently, each through a forwarding wrapper that leaves a record named*)
(* by its process id, while manifests, lock file and sources may be edited.  *)
(* File contents are versions that never recur.  Two Cargo processes read the*)
(* manifests, metadata before they are hashed and the build after.           *)
(***************************************************************************)
EXTENDS Integers, Sequences, FiniteSets, SequencesExt

CONSTANTS
    Root,        \* the selected package
    Scenarios    \* what is built: packages, the package ids of the lock file; declares,
                 \* what each version of each manifest declares: pairs of a package and
                 \* a kind, normal, build or dev; foreign, the packages that do not
                 \* resolve from crates.io; pids, process ids, reused once their process
                 \* has ended; maxEdits and maxRuns, bounds

\* Metadata lists finitely many packages; "probe" stands for a call that builds none.
ASSUME ScenariosAssumption ==
    \A n \in DOMAIN Scenarios : LET s == Scenarios[n] IN
        /\ IsFiniteSet(s.packages) /\ Root \in s.packages /\ "probe" \notin s.packages
        /\ s.maxEdits \in Nat

Source == <<"source">>
Lock == <<"lock">>
Manifest(p) == <<"manifest", p>>

\* The packages that the manifest of p declares in scenario s, as Cargo read it
\* from d.
Declared(s, d, p, kinds) ==
    {q \in s.packages : \E k \in kinds : <<q, k>> \in s.declares[p][d[Manifest(p)]]}

\* What Cargo builds before p, in manifests d; what p needs, the least set that
\* holds that for p and for its own members; and all that a build of the root
\* consists of.
Direct(s, d, p) == Declared(s, d, p, {"normal", "build"})
Needs(s, d, p) ==
    LET closed == {C \in SUBSET s.packages :
                     \A r \in C \cup {p} : Direct(s, d, r) \subseteq C}
    IN  {q \in s.packages : \A C \in closed : q \in C}
Whole(s, d) == {Root} \cup Needs(s, d, Root)

VARIABLES
    scenario,   \* the scenario of this behaviour, never changed
    disk,       \* [files -> version]
    past,       \* contents of disk since the capture began
    since,      \* contents of disk since the method sources were read
    c,          \* the capture or verification in progress
    records,    \* records directory of the run: [pid -> [unit, cfg]]
    unit,       \* [package -> state of its compilation unit]
    target,     \* units already compiled in the target directory of the run
    evidence,   \* captured-build.json, or None
    verdict     \* the certificate of the last verification, or None
vars == <<scenario, disk, past, since, c, records, unit, target, evidence, verdict>>

Bounds   == Scenarios[scenario]
Packages == Bounds.packages

None  == [v |-> "none"]
Files == {Source, Lock} \cup {Manifest(p) : p \in Packages}

Waiting == [at |-> "waiting", pid |-> 0, saw |-> -1]
Idle(run) == [pc |-> "idle", run |-> run, pending |-> <<>>, meta |-> <<>>, built |-> <<>>,
              graph |-> {}, mem |-> <<>>, snapshot |-> -1, lowered |-> -1,
              probed |-> FALSE, failed |-> FALSE]

Remember(f, v) == [g \in DOMAIN c.mem \cup {f} |-> IF g = f THEN v ELSE c.mem[g]]
Agrees(f) == disk[f] = c.mem[f]

\* cargo_subject::dependencies: dev edges do not count.
NormalOnly(p) == Declared(Bounds, c.meta, p, {"normal"})
Dependencies(p) == Declared(Bounds, c.meta, p, {"normal"}) \cup Declared(Bounds, c.meta, p, {"build"})

-----------------------------------------------------------------------------
Init ==
    /\ scenario \in DOMAIN Scenarios
    /\ disk = [f \in Files |-> 0]
    /\ past = {disk}
    /\ since = {}
    /\ c = Idle(0)
    /\ records = <<>>
    /\ unit = [p \in Packages |-> Waiting]
    /\ target = {}
    /\ evidence = None
    /\ verdict = None

Edits == CHOOSE n \in 0..Bounds.maxEdits : \A f \in Files : disk[f] <= n /\ \E g \in Files : disk[g] = n

Edit(f) ==
    /\ Edits < Bounds.maxEdits
    /\ disk' = [disk EXCEPT ![f] = Edits + 1]
    /\ past' = past \cup {disk'}
    /\ since' = IF since = {} THEN {} ELSE since \cup {disk'}
    /\ UNCHANGED <<scenario, c, records, unit, target, evidence, verdict>>

Goto(pc) == c' = [c EXCEPT !.pc = pc]
Quiet == UNCHANGED <<scenario, disk, past, since, records, unit, target, evidence, verdict>>

\* Any step of the capture or the verification may return an error; Cargo's own
\* failures are steps of the wrappers.
Fail ==
    /\ c.pc \notin {"idle", "cargo"}
    /\ c' = Idle(c.run)
    /\ Quiet

\* A crash, after which only the files remain.
Crash ==
    /\ c.pc # "idle"
    /\ c' = Idle(c.run)
    /\ unit' = [p \in Packages |-> Waiting]
    /\ UNCHANGED <<scenario, disk, past, since, records, target, evidence, verdict>>

-----------------------------------------------------------------------------
(* cargo_capture::capture *)

KeepEvidence(e) == e
Invalidated(e) == None

\* Every run has a records and a target directory of its own.
FreshTarget(t) == {}

Begin ==
    /\ c.pc = "idle"
    /\ c.run < Bounds.maxRuns
    /\ c' = [Idle(c.run + 1) EXCEPT !.pc = "metadata", !.pending = <<Root>>]
    /\ evidence' = Invalidated(evidence)
    /\ verdict' = None
    /\ records' = <<>>
    /\ target' = FreshTarget(target)
    /\ unit' = [p \in Packages |-> Waiting]
    /\ past' = {disk}
    /\ since' = {}
    /\ UNCHANGED <<scenario, disk>>

\* cargo_subject::inspect: cargo metadata reads the manifests; its graph is used
\* from here on, whatever is edited.
Metadata ==
    /\ c.pc = "metadata"
    /\ c' = [c EXCEPT !.pc = "resolve", !.meta = disk]
    /\ Quiet

\* cargo_subject::resolve: one package popped, its manifest hashed.
Resolve ==
    LET p == Last(c.pending)
        rest == Front(c.pending)
    IN
    /\ c.pc = "resolve"
    /\ c.pending # <<>>
    /\ \/ p \in c.graph /\ c' = [c EXCEPT !.pending = rest]
       \/ p \notin c.graph /\ p \in Bounds.foreign /\ c' = Idle(c.run)
       \/ /\ p \notin c.graph /\ p \notin Bounds.foreign
          /\ c' = [c EXCEPT !.graph = @ \cup {p},
                            !.mem = Remember(Manifest(p), disk[Manifest(p)]),
                            !.pending = rest \o SetToSeq(Dependencies(p))]
    /\ Quiet

ReadWorkspace ==
    /\ c.pc = "resolve"
    /\ c.pending = <<>>
    /\ c' = [c EXCEPT !.pc = "inventory", !.mem = Remember(Lock, disk[Lock])]
    /\ Quiet

ReadSources ==
    /\ c.pc = "inventory"
    /\ c' = [c EXCEPT !.pc = "snapshot", !.mem = Remember(Source, disk[Source])]
    /\ Quiet

Snapshot ==
    /\ c.pc = "snapshot"
    /\ c' = IF Agrees(Source) THEN [c EXCEPT !.pc = "cargo", !.snapshot = disk[Source]]
            ELSE Idle(c.run)
    /\ Quiet

-----------------------------------------------------------------------------
(* Cargo and the wrappers (WRAPPER) *)

Live == {unit[p].pid : p \in {q \in Packages : unit[q].at \in {"recorded", "queried"}}}

\* A record is created, never overwritten.
Overwrite(pid) == TRUE
CreateNew(pid) == pid \notin DOMAIN records

Recorded(pid, u) ==
    records' = [i \in DOMAIN records \cup {pid} |->
                  IF i = pid THEN [unit |-> u, cfg |-> FALSE] ELSE records[i]]

\* Cargo reads the manifests again and asks the compiler for its version; such a
\* call has no cfg record.
Probe(pid) ==
    /\ c.pc = "cargo" /\ ~c.failed /\ ~c.probed
    /\ Recorded(pid, "probe")
    /\ c' = [c EXCEPT !.probed = TRUE, !.built = disk]
    /\ UNCHANGED <<scenario, disk, past, since, unit, target, evidence, verdict>>

StartUnit(p, pid) ==
    /\ c.pc = "cargo" /\ ~c.failed /\ c.probed
    /\ p \notin target /\ unit[p].at = "waiting" /\ pid \notin Live
    /\ Direct(Bounds, c.built, p) \subseteq target
    /\ p \in Whole(Bounds, c.built)
    /\ IF CreateNew(pid)
       THEN /\ Recorded(pid, p)
            /\ unit' = [unit EXCEPT ![p] = [at |-> "recorded", pid |-> pid, saw |-> -1]]
            /\ UNCHANGED c
       ELSE c' = [c EXCEPT !.failed = TRUE] /\ UNCHANGED <<scenario, records, unit>>
    /\ UNCHANGED <<scenario, disk, past, since, target, evidence, verdict>>

QueryCfg(p, ok) ==
    /\ c.pc = "cargo"
    /\ unit[p].at = "recorded"
    /\ IF ok
       THEN /\ records' = [records EXCEPT ![unit[p].pid].cfg = TRUE]
            /\ unit' = [unit EXCEPT ![p].at = "queried"]
            /\ UNCHANGED c
       ELSE /\ c' = [c EXCEPT !.failed = TRUE]
            /\ unit' = [unit EXCEPT ![p] = Waiting]
            /\ UNCHANGED records
    /\ UNCHANGED <<scenario, disk, past, since, target, evidence, verdict>>

\* rustc reads the source from disk.
CompileUnit(p, ok) ==
    /\ c.pc = "cargo"
    /\ unit[p].at = "queried"
    /\ unit' = [unit EXCEPT ![p] = [at |-> "done", pid |-> 0, saw |-> disk[Source]]]
    /\ target' = IF ok THEN target \cup {p} ELSE target
    /\ c' = IF ok THEN c ELSE [c EXCEPT !.failed = TRUE]
    /\ UNCHANGED <<scenario, disk, past, since, records, evidence, verdict>>

\* Cargo succeeds when every unit of its own build is done, and fails, once its
\* running units have ended, when one has failed.
CargoEnds ==
    /\ c.pc = "cargo"
    /\ Live = {}
    /\ \/ c.failed /\ c' = Idle(c.run)
       \/ ~c.failed /\ c.probed /\ Whole(Bounds, c.built) \subseteq target /\ Goto("decode")
    /\ Quiet

-----------------------------------------------------------------------------
\* Decode the records: every compilation has its cfg, and the root is there.
Decode ==
    /\ c.pc = "decode"
    /\ c' = IF /\ \A i \in DOMAIN records : records[i].unit # "probe" => records[i].cfg
               /\ \E i \in DOMAIN records : records[i].unit = Root
            THEN [c EXCEPT !.pc = "sources"] ELSE Idle(c.run)
    /\ Quiet

TrustSources ==
    /\ c.pc = "sources"
    /\ c' = [c EXCEPT !.pc = "manifests", !.pending = SetToSeq(c.graph)]
    /\ Quiet
RecheckSources ==
    /\ c.pc = "sources"
    /\ c' = IF Agrees(Source) THEN [c EXCEPT !.pc = "manifests", !.pending = SetToSeq(c.graph)]
            ELSE Idle(c.run)
    /\ Quiet

RecheckManifest ==
    /\ c.pc = "manifests"
    /\ c.pending # <<>>
    /\ c' = IF Agrees(Manifest(Head(c.pending))) THEN [c EXCEPT !.pending = Tail(@)]
            ELSE Idle(c.run)
    /\ Quiet

RecheckWorkspace ==
    /\ c.pc = "manifests"
    /\ c.pending = <<>>
    /\ c' = IF Agrees(Lock) THEN [c EXCEPT !.pc = "publish"] ELSE Idle(c.run)
    /\ Quiet

\* The compilations in the records.
Units == {records[i].unit : i \in DOMAIN records} \ {"probe"}

\* The report is written in the run's directory and renamed; meta and built are
\* not in it.
Publish ==
    /\ c.pc = "publish"
    /\ evidence' = [v |-> "capture", run |-> c.run, mem |-> c.mem, saw |-> unit[Root].saw,
                    graph |-> c.graph, units |-> Units, meta |-> c.meta, built |-> c.built]
    /\ Goto("captured")
    /\ UNCHANGED <<scenario, disk, past, since, records, unit, target, verdict>>

-----------------------------------------------------------------------------
(* methods/build.rs inside methods::verify.  A capture that was not asked for   *)
(* by a verification ends here.                                                *)

Return ==
    /\ c.pc = "captured"
    /\ c' = Idle(c.run)
    /\ Quiet

\* Only a package that was resolved to be without dependencies is verified.
Lower ==
    /\ c.pc = "captured"
    /\ Cardinality(c.graph) = 1
    /\ c' = [c EXCEPT !.pc = "bind", !.lowered = disk[Source]]
    /\ since' = {disk}
    /\ UNCHANGED <<scenario, disk, past, records, unit, target, evidence, verdict>>

BindSources ==
    /\ c.pc = "bind"
    /\ c' = IF c.lowered = c.mem[Source] THEN [c EXCEPT !.pc = "prove"] ELSE Idle(c.run)
    /\ Quiet

\* rustc, Lean and the rechecks of Verifier take any time.
Prove ==
    /\ c.pc = "prove"
    /\ c' = [c EXCEPT !.pc = "revalidate", !.pending = SetToSeq(DOMAIN c.mem)]
    /\ Quiet

TrustCapture ==
    /\ c.pc = "revalidate"
    /\ c' = [c EXCEPT !.pending = <<>>, !.pc = "certify"]
    /\ Quiet
Revalidate ==
    /\ c.pc = "revalidate"
    /\ c' = IF c.pending = <<>> THEN [c EXCEPT !.pc = "certify"]
            ELSE IF Agrees(Head(c.pending)) THEN [c EXCEPT !.pending = Tail(@)]
            ELSE Idle(c.run)
    /\ Quiet

Certify ==
    /\ c.pc = "certify"
    /\ verdict' = [v |-> "certified", lowered |-> c.lowered, mem |-> c.mem, units |-> Units]
    /\ c' = Idle(c.run)
    /\ UNCHANGED <<scenario, disk, past, since, records, unit, target, evidence>>

-----------------------------------------------------------------------------
Cargo ==
    \/ \E pid \in Bounds.pids : Probe(pid)
    \/ \E p \in Packages, pid \in Bounds.pids : StartUnit(p, pid)
    \/ \E p \in Packages, ok \in BOOLEAN : QueryCfg(p, ok) \/ CompileUnit(p, ok)
    \/ CargoEnds

Verify == Return \/ Lower \/ BindSources \/ Prove \/ Revalidate \/ Certify

Next ==
    \/ \E f \in Files : Edit(f)
    \/ Fail \/ Crash \/ Begin \/ Metadata \/ Resolve \/ ReadWorkspace \/ ReadSources \/ Snapshot
    \/ Cargo
    \/ Decode \/ RecheckSources \/ RecheckManifest \/ RecheckWorkspace \/ Publish
    \/ Verify

Spec == Init /\ [][Next]_vars

-----------------------------------------------------------------------------
Captured == evidence # None

\* The manifests of all packages, the lock file and the sources that a capture
\* reports existed together, and the compiler that it watched read these sources,
\* although all of them are read at different moments and may be edited.
CapturedTogether ==
    Captured => /\ \E d \in past : \A f \in DOMAIN evidence.mem : d[f] = evidence.mem[f]
                /\ evidence.saw = evidence.mem[Source]

\* The report has a record of every unit that Cargo built: a process id that
\* Cargo's children use twice never replaces a record, and no unit is taken from
\* the cache of an earlier target directory.
EveryUnitCaptured == evidence.units = Whole(Bounds, evidence.built)

\* The resolved graph is everything the root needs through normal and build
\* dependencies, and nothing that only tests need, in the manifests that the
\* metadata were made from.
GraphIsClosed == evidence.graph = Whole(Bounds, evidence.meta)

\* Unless a manifest of the graph was edited between the metadata and its hash,
\* the units that were built are the packages of the graph, although the records
\* are never compared with it: the manifests' hashes stand around the build.
UnitsAreTheGraph ==
    (\A p \in evidence.graph : evidence.meta[Manifest(p)] = evidence.mem[Manifest(p)])
        => evidence.units = evidence.graph

\* A capture holds a record of every unit of the build, the closed graph of the
\* metadata, and the two agree when the metadata read the manifests that were
\* hashed (capture, WRAPPER, resolve).
WholeBuildCaptured == Captured => EveryUnitCaptured /\ GraphIsClosed /\ UnitsAreTheGraph

\* A capture that failed or was killed leaves no evidence of an earlier one.
FailureRemovesSuccess == Captured => evidence.run = c.run

\* A method certificate rests on a capture that was still true of the disk after
\* the sources were lowered, and the lowered sources are the captured ones.
CaptureStillTrue ==
    verdict # None =>
        /\ verdict.lowered = verdict.mem[Source]
        /\ \E d \in since : \A f \in DOMAIN verdict.mem : d[f] = verdict.mem[f]

\* What README.md and the refusal in Build::capture say of a verified method
\* project: its captured build has no dependencies.  An edit between cargo metadata
\* and the hash of the root's manifest makes this false.
DependencyFree == verdict # None => verdict.units = {Root}
=============================================================================
