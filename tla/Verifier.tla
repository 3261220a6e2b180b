------------------------------ MODULE Verifier ------------------------------
(***************************************************************************)
(* Provium's verification runs: the suite of a consuming crate (suite.rs)   *)
(* and its three backends, scalar projects (project.rs), complete method    *)
(* bodies (methods.rs) and handwritten specifications (specification.rs).   *)
(*                                                                         *)
(* A verifier reads files that somebody may be editing, writes artifacts    *)
(* and Lean objects into an output directory, runs rustc and Lean, and only *)
(* then publishes verified.json.  It may fail or be killed at every step.   *)
(* A file's content is a record with a version; an edit never restores an   *)
(* earlier content, which is what makes comparing contents a sound check.   *)
(***************************************************************************)
EXTENDS Integers, Sequences, FiniteSets, SequencesExt

CONSTANTS
    Threads,     \* test threads of one process that verify suites
    Scenarios    \* what they have to do: suite, the project directories below the
                 \* suite's own one for each thread that has one; kinds, the
                 \* backends that configurations may select; maxEdits, a bound on
                 \* edits; maxRuns, a bound on verifications started

ASSUME SuitesAreDisjoint ==
    \A n \in DOMAIN Scenarios : LET suite == Scenarios[n].suite IN
        /\ DOMAIN suite \subseteq Threads
        /\ \A s, t \in DOMAIN suite : s # t => suite[s] \cap suite[t] = {}

Backends == {"scalar", "methods", "specification"}
ASSUME ScenariosAssumption ==
    \A n \in DOMAIN Scenarios :
        /\ Scenarios[n].kinds \subseteq Backends
        /\ \A t \in DOMAIN Scenarios[n].suite : IsFiniteSet(Scenarios[n].suite[t])

Inputs == {"config", "source", "proofs", "library"}
None   == [v |-> -1]

VARIABLES
    scenario,  \* the scenario of this behaviour, never changed
    files,     \* [Dirs -> [Inputs -> content or None]]
    past,      \* [Dirs -> every combination of contents that has existed]
    clock,     \* edits so far, and the version of the next content
    out,       \* [Dirs -> output directory]
    worker,    \* [Threads -> the verification in progress]
    lean,      \* holder of LEAN_PROCESS, or "free"
    runs       \* verifications started
vars == <<scenario, files, past, clock, out, worker, lean, runs>>

Bounds == Scenarios[scenario]
Suite  == Bounds.suite
Dirs   == UNION {Suite[t] : t \in DOMAIN Suite}

\* A configuration selects a backend and lists obligations or not; a proof
\* file may import the proof library Lemma; other contents are opaque.
Contents(f, v) ==
    CASE f = "config" -> [v : {v}, kind : Bounds.kinds, obligations : BOOLEAN]
      [] f = "proofs" -> [v : {v}, imports : BOOLEAN]
      [] OTHER -> [v : {v}]

NoOutput == [sources |-> None, objects |-> <<>>, manifest |-> None, staged |-> None, cert |-> None]
Idle == [pc |-> "idle", run |-> 0, ok |-> FALSE, whole |-> FALSE, cleaned |-> FALSE, found |-> {},
         queue |-> <<>>, d |-> "none", kind |-> "none", step |-> 0, todo |-> <<>>, mem |-> <<>>,
         checked |-> None, objects |-> <<>>]

-----------------------------------------------------------------------------
(* What the backends do, in order. *)

ScalarPhases == <<"config", "read", "write", "typecheck", "manifest", "lean", "recheck",
                  "intact", "stage", "certify">>
MethodsPhases == <<"config", "read", "typecheck", "write", "lean", "intact", "recheck",
                   "publish", "manifest", "stage", "certify">>
SpecificationPhases == <<"config", "read", "write", "lean", "recheck", "intact", "stage",
                         "certify">>
Phases(kind) == CASE kind = "scalar"  -> ScalarPhases
                  [] kind = "methods" -> MethodsPhases
                  [] kind = "specification" -> SpecificationPhases

\* Inputs in the order they are read.
ScalarReads(config) == IF config.obligations THEN <<"source", "proofs">> ELSE <<"source">>
MethodsReads        == <<"source", "proofs", "library">>
SpecificationReads  == <<"proofs">>
Reads(kind, config) == CASE kind = "scalar"  -> ScalarReads(config)
                         [] kind = "methods" -> MethodsReads
                         [] kind = "specification" -> SpecificationReads

\* ... and in the order they are compared with what is on disk at the end.
ScalarRechecks(config)  == <<"config">> \o ScalarReads(config)
MethodsRechecks         == <<"config", "proofs", "library", "source">>
SpecificationRechecks   == <<"config", "proofs">>
TrustingRechecks(kind, config) == <<"config">>
Rechecks(kind, config) == CASE kind = "scalar"  -> ScalarRechecks(config)
                            [] kind = "methods" -> MethodsRechecks
                            [] kind = "specification" -> SpecificationRechecks

\* Lean files in the order they are compiled; Semantics stands for the library
\* modules that Provium supplies, Lemma for the consumer's.
ScalarModules(config) ==
    <<"Semantics", "Generated">> \o (IF config.obligations THEN <<"Proofs">> ELSE <<>>)
                                 \o <<"Check">>
MethodsModules       == <<"Semantics", "Generated", "Lemma", "Proofs", "Check">>
SpecificationModules == <<"Semantics", "Specification", "Check">>
Modules(kind, config) == CASE kind = "scalar"  -> ScalarModules(config)
                           [] kind = "methods" -> MethodsModules
                           [] kind = "specification" -> SpecificationModules

Imports(w, m) ==
    CASE m = "Generated" -> {"Semantics"}
      [] m = "Proofs" -> {"Semantics", "Generated"}
                         \cup (IF w.mem["proofs"].imports THEN {"Lemma"} ELSE {})
      [] m = "Check" -> {"Semantics"} \cup (ToSet(Modules(w.kind, w.mem["config"])) \ {"Check"})
      [] OTHER -> {}

\* project::parse and the checks of the other two backends.  A configuration of
\* another kind is an unknown field to the parser.
Parses(kind, config) ==
    /\ config # None
    /\ config.kind = kind
    /\ kind # "scalar" => config.obligations

Phase(w) == Phases(w.kind)[w.step]
At(t, p) == worker[t].pc = "verify" /\ Phase(worker[t]) = p

Todo(kind, step, config) ==
    LET p == Phases(kind)[step]
    IN CASE p = "read" -> Reads(kind, config)
         [] p = "recheck" -> Rechecks(kind, config)
         [] p = "lean" -> Modules(kind, config)
         [] OTHER -> <<>>

Advance(w) == [w EXCEPT !.step = @ + 1, !.todo = Todo(w.kind, w.step + 1, w.mem["config"])]
Done(w)    == IF Len(w.todo) = 1 THEN Advance(w) ELSE [w EXCEPT !.todo = Tail(@)]

\* The first error ends the whole suite.
FailOne(w) == [w EXCEPT !.pc = "next"]
Fail(w) == [Idle EXCEPT !.pc = "ended", !.run = w.run, !.whole = w.whole,
                         !.cleaned = w.cleaned]

\* project::prepare_output
Keep(o) == o
Invalidate(o) == [o EXCEPT !.cert = None]

Set(t, w) == worker' = [worker EXCEPT ![t] = w]

-----------------------------------------------------------------------------
Init ==
    /\ scenario \in DOMAIN Scenarios
    /\ files \in [Dirs -> [config : Contents("config", 0), source : Contents("source", 0),
                           proofs : Contents("proofs", 0), library : Contents("library", 0)]]
    /\ past = [d \in Dirs |-> {files[d]}]
    /\ clock = 1
    /\ out = [d \in Dirs |-> NoOutput]
    /\ worker = [t \in Threads |-> Idle]
    /\ lean = "free"
    /\ runs = 0

\* Somebody writes a new content, or removes or renames a project directory.
Edit(d, f) ==
    /\ clock <= Bounds.maxEdits
    /\ \E c \in Contents(f, clock) \cup (IF f = "config" THEN {None} ELSE {}) :
          /\ files' = [files EXCEPT ![d][f] = c]
          /\ past' = [past EXCEPT ![d] = @ \cup {[files[d] EXCEPT ![f] = c]}]
    /\ clock' = clock + 1
    /\ UNCHANGED <<scenario, out, worker, lean, runs>>

\* The process is killed: threads, lock and workspaces are gone, files stay.
Crash ==
    /\ \E t \in Threads : worker[t].pc # "idle"
    /\ worker' = [t \in Threads |-> Idle]
    /\ lean' = "free"
    /\ UNCHANGED <<scenario, files, past, clock, out, runs>>

\* suite::verify_suite, up to the first project.  A directory is listed in any order.
StartSuite(t) ==
    /\ worker[t].pc \in {"idle", "ended"}
    /\ runs < Bounds.maxRuns
    /\ runs' = runs + 1
    /\ \E order \in SetToSeqs(Suite[t]) :
          Set(t, [Idle EXCEPT !.pc = "clean", !.run = runs + 1, !.whole = TRUE, !.queue = order])
    /\ UNCHANGED <<scenario, files, past, clock, out, lean>>

KeepCertificates(t) ==
    /\ worker[t].pc = "clean"
    /\ Set(t, [worker[t] EXCEPT !.pc = "discover", !.cleaned = TRUE, !.queue = <<>>])
    /\ UNCHANGED <<scenario, files, past, clock, out, lean, runs>>
RemoveCertificates(t) ==
    LET w == worker[t] IN
    /\ w.pc = "clean"
    /\ IF w.queue = <<>>
       THEN Set(t, [w EXCEPT !.pc = "discover", !.cleaned = TRUE]) /\ UNCHANGED out
       ELSE /\ out' = [out EXCEPT ![Head(w.queue)] = Invalidate(@)]
            /\ Set(t, [w EXCEPT !.queue = Tail(@)])
    /\ UNCHANGED <<scenario, files, past, clock, lean, runs>>

Discover(t) ==
    LET found == {d \in Suite[t] : files[d]["config"] # None} IN
    /\ worker[t].pc = "discover"
    /\ Set(t, IF found = {} THEN Fail(worker[t])
              ELSE [worker[t] EXCEPT !.pc = "prepare", !.found = found, !.queue = SetToSeq(found)])
    /\ UNCHANGED <<scenario, files, past, clock, out, lean, runs>>

\* Every selected certificate is invalidated before the toolchain is looked for;
\* prepare_output may fail after any number n of projects.
Preflight(t, n, installed) ==
    LET w == worker[t] IN
    /\ w.pc = "prepare"
    /\ out' = [d \in Dirs |-> IF d \in {w.queue[i] : i \in 1..n} THEN Invalidate(out[d]) ELSE out[d]]
    /\ Set(t, IF n = Len(w.queue) /\ installed THEN [w EXCEPT !.pc = "next", !.ok = TRUE] ELSE Fail(w))
    /\ UNCHANGED <<scenario, files, past, clock, lean, runs>>

\* The errors outside a backend: paths that do not resolve, leave the crate or
\* overlap the output, before anything is removed; a directory or a certificate
\* that cannot be read or removed; a symlink among the projects; an output
\* directory that cannot be prepared.
SuiteFails(t) ==
    LET w == worker[t] IN
    /\ w.pc \in {"clean", "discover"} \/ (w.pc = "next" /\ w.queue # <<>>)
    /\ Set(t, Fail(w))
    /\ UNCHANGED <<scenario, files, past, clock, out, lean, runs>>

\* suite::verify_project on its own.
StartProject(t, d) ==
    /\ worker[t].pc \in {"idle", "ended"}
    /\ runs < Bounds.maxRuns
    /\ runs' = runs + 1
    /\ Set(t, [Idle EXCEPT !.pc = "next", !.run = runs + 1, !.ok = TRUE, !.found = {d},
                           !.queue = <<d>>])
    /\ UNCHANGED <<scenario, files, past, clock, out, lean>>

\* The next project of the suite: read its configuration once, to choose the
\* backend and insist on obligations.
Dispatch(t) ==
    LET w == worker[t]
        d == Head(w.queue)
        c == files[d]["config"]
    IN
    /\ w.pc = "next"
    /\ w.queue # <<>>
    /\ out' = [out EXCEPT ![d] = Invalidate(@)]
    /\ Set(t, IF c = None \/ ~c.obligations THEN Fail(w)
              ELSE [w EXCEPT !.pc = "verify", !.d = d, !.queue = Tail(@), !.kind = c.kind,
                             !.step = 1, !.todo = <<>>, !.mem = <<>>, !.checked = None,
                             !.objects = <<>>])
    /\ UNCHANGED <<scenario, files, past, clock, lean, runs>>

Finish(t) ==
    /\ worker[t].pc = "next"
    /\ worker[t].queue = <<>>
    /\ Set(t, [worker[t] EXCEPT !.pc = "ended"])
    /\ UNCHANGED <<scenario, files, past, clock, out, lean, runs>>

-----------------------------------------------------------------------------
(* The steps of a backend.  Any of them may fail; a thread that waits for Lean *)
(* waits for the lock.                                                        *)

Abort(t) ==
    /\ worker[t].pc = "verify"
    /\ Phase(worker[t]) # "lean"
    /\ Set(t, Fail(worker[t]))
    /\ UNCHANGED <<scenario, files, past, clock, out, lean, runs>>

\* clear_lean_objects: the methods backend compiles in a fresh workspace instead.
KeepObjects(o, kind) == o
ClearObjects(o, kind) == IF kind = "methods" THEN o ELSE [o EXCEPT !.objects = <<>>]

ReadConfig(t) ==
    LET w == worker[t]
        c == files[w.d]["config"]
    IN
    /\ At(t, "config")
    /\ out' = [out EXCEPT ![w.d] = ClearObjects(Invalidate(@), w.kind)]
    /\ Set(t, IF Parses(w.kind, c) THEN Advance([w EXCEPT !.mem = [config |-> c]]) ELSE Fail(w))
    /\ UNCHANGED <<scenario, files, past, clock, lean, runs>>

\* A specification may not import anything.
ReadInput(t) ==
    LET w == worker[t]
        f == Head(w.todo)
        c == files[w.d][f]
    IN
    /\ At(t, "read")
    /\ Set(t, IF w.kind = "specification" /\ c.imports THEN Fail(w)
              ELSE Done([w EXCEPT !.mem = [g \in DOMAIN @ \cup {f} |-> IF g = f THEN c ELSE @[g]]]))
    /\ UNCHANGED <<scenario, files, past, clock, out, lean, runs>>

WriteArtifacts(t) ==
    LET w == worker[t] IN
    /\ At(t, "write")
    /\ out' = [out EXCEPT ![w.d].sources = w.mem]
    /\ Set(t, Advance(w))
    /\ UNCHANGED <<scenario, files, past, clock, lean, runs>>

\* rustc: the scalar backend checks its snapshot, the methods backend the crate
\* on disk.
Typecheck(t) ==
    LET w == worker[t] IN
    /\ At(t, "typecheck")
    /\ Set(t, Advance([w EXCEPT !.checked = IF w.kind = "scalar" THEN out[w.d].sources["source"]
                                            ELSE files[w.d]["source"]]))
    /\ UNCHANGED <<scenario, files, past, clock, out, lean, runs>>

\* lean_file: one Lean process at a time; LEAN_PATH is the directory compiled in.
Objects(w) == IF w.kind = "methods" THEN w.objects ELSE out[w.d].objects

LeanStart(t) ==
    /\ At(t, "lean")
    /\ lean = "free"
    /\ lean' = t
    /\ UNCHANGED <<scenario, files, past, clock, out, worker, runs>>

Hold(t) == lean
Release(t) == "free"

LeanAccepts(t) ==
    LET w  == worker[t]
        m  == Head(w.todo)
        os == [n \in DOMAIN Objects(w) \cup {m} |-> IF n = m THEN w.run ELSE Objects(w)[n]]
    IN
    /\ At(t, "lean")
    /\ lean = t
    /\ Imports(w, m) \subseteq DOMAIN Objects(w)
    /\ lean' = Release(t)
    /\ IF w.kind = "methods"
       THEN Set(t, Done([w EXCEPT !.objects = IF m = "Check" THEN @ ELSE os])) /\ UNCHANGED out
       ELSE /\ Set(t, Done(w))
            /\ out' = [out EXCEPT ![w.d].objects = IF m = "Check" THEN @ ELSE os]
    /\ UNCHANGED <<scenario, files, past, clock, runs>>

\* A missing import, a wrong proof, too little memory or an incomplete audit.
LeanRejects(t) ==
    /\ At(t, "lean")
    /\ lean = t
    /\ lean' = Release(t)
    /\ Set(t, Fail(worker[t]))
    /\ UNCHANGED <<scenario, files, past, clock, out, runs>>

Recheck(t) ==
    LET w == worker[t]
        f == Head(w.todo)
    IN
    /\ At(t, "recheck")
    /\ Set(t, IF files[w.d][f] = w.mem[f] THEN Done(w) ELSE Fail(w))
    /\ UNCHANGED <<scenario, files, past, clock, out, lean, runs>>

Intact(t) ==
    LET w == worker[t] IN
    /\ At(t, "intact")
    /\ Set(t, IF /\ out[w.d].sources = w.mem
                 /\ w.kind = "scalar" => out[w.d].manifest = [run |-> w.run, inputs |-> w.mem]
              THEN Advance(w) ELSE Fail(w))
    /\ UNCHANGED <<scenario, files, past, clock, out, lean, runs>>

PublishObjects(t) ==
    LET w == worker[t] IN
    /\ At(t, "publish")
    /\ out' = [out EXCEPT ![w.d].objects = w.objects]
    /\ Set(t, Advance(w))
    /\ UNCHANGED <<scenario, files, past, clock, lean, runs>>

WriteManifest(t) ==
    LET w == worker[t] IN
    /\ At(t, "manifest")
    /\ out' = [out EXCEPT ![w.d].manifest = [run |-> w.run, inputs |-> w.mem]]
    /\ Set(t, Advance(w))
    /\ UNCHANGED <<scenario, files, past, clock, lean, runs>>

\* publish_certificate: write beside, then rename.
Certificate(w) ==
    [run |-> w.run, kind |-> w.kind, inputs |-> w.mem, checked |-> w.checked,
     objects |-> Objects(w), manifest |-> out[w.d].manifest]

StageCertificate(t) ==
    LET w == worker[t] IN
    /\ At(t, "stage")
    /\ out' = [out EXCEPT ![w.d].staged = Certificate(w)]
    /\ Set(t, Advance(w))
    /\ UNCHANGED <<scenario, files, past, clock, lean, runs>>

Certify(t) ==
    LET w == worker[t] IN
    /\ At(t, "certify")
    /\ out' = [out EXCEPT ![w.d].cert = out[w.d].staged, ![w.d].staged = None]
    /\ Set(t, [w EXCEPT !.pc = "next"])
    /\ UNCHANGED <<scenario, files, past, clock, lean, runs>>

-----------------------------------------------------------------------------
SuiteStep(t) ==
    \/ RemoveCertificates(t) \/ Discover(t)
    \/ \E n \in 0..Len(worker[t].queue), installed \in BOOLEAN : Preflight(t, n, installed)
    \/ Dispatch(t) \/ Finish(t) \/ SuiteFails(t)

BackendStep(t) ==
    \/ Abort(t) \/ ReadConfig(t) \/ ReadInput(t) \/ WriteArtifacts(t) \/ Typecheck(t)
    \/ LeanStart(t) \/ LeanAccepts(t) \/ LeanRejects(t)
    \/ Recheck(t) \/ Intact(t) \/ PublishObjects(t) \/ WriteManifest(t)
    \/ StageCertificate(t) \/ Certify(t)

Next ==
    \/ \E d \in Dirs, f \in Inputs : Edit(d, f)
    \/ Crash
    \/ \E t \in DOMAIN Suite : \/ StartSuite(t) \/ \E d \in Suite[t] : StartProject(t, d)
                               \/ SuiteStep(t) \/ BackendStep(t)

Spec == Init /\ [][Next]_vars

\* Every process the verifier starts ends (Lean's memory is bounded), and the
\* lock is handed to a waiting thread.
FairSpec == Spec /\ \A t \in Threads : WF_vars(SuiteStep(t) \/ BackendStep(t))

-----------------------------------------------------------------------------
Certified(d) == out[d].cert # None

\* A certificate on disk always stands beside the artifacts and the manifest it
\* was issued for: every run invalidates it before it overwrites anything, and a
\* run that is killed or fails leaves no certificate (prepare_output).
CertificateMatchesEvidence ==
    \A d \in Dirs : Certified(d) =>
        /\ out[d].sources = out[d].cert.inputs
        /\ out[d].cert.kind # "specification" =>
              /\ out[d].manifest = out[d].cert.manifest
              /\ out[d].manifest = [run |-> out[d].cert.run, inputs |-> out[d].cert.inputs]

\* Although configuration, sources, proofs and library are read one after the
\* other and rechecked one after the other while they are being edited, the
\* contents a certificate names existed together, and rustc and Lean saw those.
CertifiedTogether ==
    \A d \in Dirs : Certified(d) =>
        /\ \E p \in past[d] : \A f \in DOMAIN out[d].cert.inputs : p[f] = out[d].cert.inputs[f]
        /\ out[d].cert.kind # "specification" => out[d].cert.checked = out[d].cert.inputs["source"]

\* Every Lean object that a certified check could import was compiled by the
\* same run: an object left by an earlier run, or by another backend in the same
\* directory, never satisfies an import (clear_lean_objects, Workspace::new).
OwnObjects ==
    \A d \in Dirs : Certified(d) =>
        \A m \in DOMAIN out[d].cert.objects : out[d].cert.objects[m] = out[d].cert.run

\* What a certificate says is true of the evidence beside it, of inputs that
\* existed together and of the objects Lean imported, whoever edits, kills or
\* verifies again meanwhile (project.rs: verify, recheck).
CertificatesTrue == CertificateMatchesEvidence /\ CertifiedTogether /\ OwnObjects

\* A suite that has removed the earlier certificates, or that reports success,
\* ends with certificates of this very run only below its directory, at whichever
\* later step it failed, also of projects that were removed or renamed meanwhile.
\* One that failed before or during the removal may leave earlier certificates,
\* and reports the failure (verify_suite, remove_certificates).
FreshCertificates ==
    \A t \in DOMAIN Suite : LET w == worker[t] IN
        w.pc = "ended" /\ w.whole /\ (w.cleaned \/ w.ok) =>
            \A d \in Suite[t] : Certified(d) => out[d].cert.run = w.run

\* A suite reports success only if each project that it discovered is certified
\* by this run, verify_project only if its project is; one failure is the failure
\* of the suite.
SuccessIsCertified ==
    \A t \in DOMAIN Suite : worker[t].pc = "ended" /\ worker[t].ok =>
        /\ worker[t].found # {}
        /\ \A d \in worker[t].found : Certified(d) /\ out[d].cert.run = worker[t].run

\* A verification claims no success that it did not certify, and a suite that got
\* past its cleaning leaves no success of an earlier run, whichever of its steps
\* fails and whoever edits, kills or verifies meanwhile (verify_suite).
NoFalseSuccess == FreshCertificates /\ SuccessIsCertified

\* Every verification ends, whatever is edited meanwhile, whoever holds Lean's
\* lock and whichever of its processes fails.
Terminates ==
    \A t \in Threads : worker[t].pc \notin {"idle", "ended"} ~> worker[t].pc \in {"idle", "ended"}
=============================================================================
