--------------------------- MODULE VerifierProofs ---------------------------
(***************************************************************************)
(* Certificates are true and no success is false, for any threads, suites, *)
(* backends, edits, kills and numbers of runs.                             *)
(*                                                                         *)
(* The inductive invariant follows one thread through its verification.    *)
(* Contents never recur, so an input that is found unchanged at its        *)
(* recheck has not changed since it was read: all inputs existed together  *)
(* at the moment the last of them had been read (Together).  Nothing else  *)
(* writes the output directory of a project that a thread verifies, and    *)
(* the certificate is absent while it does (Verifying).                    *)
(***************************************************************************)
EXTENDS Verifier, FiniteSetTheorems, SequenceTheorems, TLAPS

(* The head of a sequence and the elements of its tail are its elements.   *)
LEMMA HeadAndTail ==
  ASSUME NEW S, NEW s \in Seq(S), s # <<>>
  PROVE  /\ Head(s) \in S /\ Tail(s) \in Seq(S) /\ Len(s) \in Nat \ {0}
         /\ ToSet(s) = {Head(s)} \cup ToSet(Tail(s))
         /\ Len(s) = 1 => ToSet(s) = {Head(s)}
         /\ Len(s) # 1 => Tail(s) # <<>>
<1>1. Len(s) \in Nat /\ Len(s) # 0 /\ DOMAIN s = 1..Len(s)
  OBVIOUS
<1>2. Len(Tail(s)) = Len(s) - 1 /\ Tail(s) \in Seq(S) /\ DOMAIN Tail(s) = 1..Len(s) - 1
      /\ \A i \in 1..Len(s) - 1 : Tail(s)[i] = s[i + 1]
  OBVIOUS
<1>3. Head(s) = s[1]
  OBVIOUS
<1>4. ASSUME NEW i \in 1..Len(s) PROVE s[i] \in {Head(s)} \cup ToSet(Tail(s))
  <2>1. CASE i = 1
    BY <1>3, <2>1
  <2>2. CASE i # 1
    <3>1. i - 1 \in 1..Len(s) - 1 /\ Tail(s)[i - 1] = s[i]
      BY <1>1, <1>2, <2>2
    <3> QED BY <1>2, <3>1 DEF ToSet
  <2> QED BY <2>1, <2>2
<1>5. ASSUME NEW i \in 1..Len(s) - 1 PROVE Tail(s)[i] \in ToSet(s)
  BY <1>1, <1>2 DEF ToSet
<1>6. ToSet(s) = {Head(s)} \cup ToSet(Tail(s))
  BY <1>1, <1>2, <1>3, <1>4, <1>5 DEF ToSet
<1>7. Len(s) = 1 => ToSet(s) = {Head(s)}
  BY <1>1, <1>3 DEF ToSet
<1>8. Len(s) # 1 => Tail(s) # <<>>
  BY <1>1, <1>2
<1> QED BY <1>1, <1>2, <1>3, <1>6, <1>7, <1>8

(* An element put before a sequence.                                       *)
LEMMA Prepended ==
  ASSUME NEW S, NEW x \in S, NEW s \in Seq(S)
  PROVE  /\ <<x>> \o s \in Seq(S) /\ <<x>> \o s # <<>>
         /\ ToSet(<<x>> \o s) = {x} \cup ToSet(s)
<1> DEFINE r == <<x>> \o s
<1>1. <<x>> \in Seq(S) /\ Len(<<x>>) = 1 /\ <<x>>[1] = x
  OBVIOUS
<1>2. Len(s) \in Nat /\ DOMAIN s = 1..Len(s)
  OBVIOUS
<1>3. /\ r \in Seq(S) /\ Len(r) = 1 + Len(s) /\ r[1] = x
      /\ \A i \in 1..Len(s) : r[i + 1] = s[i]
  BY <1>1, <1>2, ConcatProperties
<1>4. DOMAIN r = 1..(1 + Len(s)) /\ r # <<>>
  BY <1>2, <1>3
<1>5. ASSUME NEW i \in 1..(1 + Len(s)) PROVE r[i] \in {x} \cup ToSet(s)
  <2>1. CASE i = 1
    BY <1>3, <2>1
  <2>2. CASE i # 1
    <3>1. i - 1 \in 1..Len(s) /\ r[i] = s[i - 1]
      BY <1>2, <1>3, <2>2
    <3> QED BY <1>2, <3>1 DEF ToSet
  <2> QED BY <2>1, <2>2
<1>6. ASSUME NEW i \in 1..Len(s) PROVE s[i] \in ToSet(r)
  <2>1. i + 1 \in 1..(1 + Len(s)) /\ r[i + 1] = s[i]
    BY <1>2, <1>3
  <2> QED BY <1>4, <2>1 DEF ToSet
<1>7. x \in ToSet(r)
  BY <1>2, <1>3, <1>4 DEF ToSet
<1>8. ToSet(r) = {x} \cup ToSet(s)
  <2>1. ToSet(r) \subseteq {x} \cup ToSet(s)
    BY <1>4, <1>5 DEF ToSet
  <2>2. {x} \cup ToSet(s) \subseteq ToSet(r)
    BY <1>2, <1>6, <1>7 DEF ToSet
  <2> QED BY <2>1, <2>2
<1> QED BY <1>3, <1>4, <1>8

(* An empty list has no elements.                                          *)
LEMMA NoElements == ToSet(<<>>) = {}
BY DEF ToSet

(* A list of a finite set without repetition, as long as the set is large,  *)
(* has all its elements.                                                   *)
LEMMA ListsWhole ==
  ASSUME NEW S, IsFiniteSet(S), NEW f \in [1..Cardinality(S) -> S],
         \A i, j \in 1..Cardinality(S) : i # j => f[i] # f[j]
  PROVE  f \in Seq(S) /\ ToSet(f) = S
<1> DEFINE n == Cardinality(S)
<1>1. n \in Nat
  BY FS_CardinalityType
<1>2. f \in Injection(1..n, S)
  BY DEF Injection, IsInjective
<1>3. IsFiniteSet(1..n) /\ Cardinality(1..n) = n
  BY <1>1, FS_Interval
<1>4. f \in Surjection(1..n, S)
  BY <1>2, <1>3, FS_Injection
<1>5. f \in Seq(S)
  BY <1>1
<1>6. ToSet(f) = S
  BY <1>4 DEF ToSet, Surjection
<1> QED BY <1>5, <1>6

(* Every order of a finite set lists exactly its elements.                 *)
LEMMA OrdersListAll ==
  ASSUME NEW S, IsFiniteSet(S), NEW f \in SetToSeqs(S)
  PROVE  f \in Seq(S) /\ ToSet(f) = S
<1>1. f \in [1..Cardinality(S) -> S] /\ \A i, j \in 1..Cardinality(S) : i # j => f[i] # f[j]
  BY DEF SetToSeqs
<1> QED BY <1>1, ListsWhole

(* SetToSeq lists exactly the elements of a finite set.                    *)
LEMMA ListsAll ==
  ASSUME NEW S, IsFiniteSet(S)
  PROVE  SetToSeq(S) \in Seq(S) /\ ToSet(SetToSeq(S)) = S
<1> DEFINE n == Cardinality(S)
           f == SetToSeq(S)
<1>1. n \in Nat /\ ExistsBijection(1..n, S)
  BY FS_CardinalityType
<1>2. PICK b : b \in Bijection(1..n, S)
  BY <1>1 DEF ExistsBijection
<1>3. b \in [1..n -> S] /\ IsInjective(b)
  BY <1>2 DEF Bijection, Injection, IsInjective
<1>4. f \in [1..n -> S] /\ IsInjective(f)
  BY <1>3 DEF SetToSeq
<1>5. \A i, j \in 1..n : i # j => f[i] # f[j]
  BY <1>4 DEF IsInjective
<1> HIDE DEF f
<1>6. f \in Seq(S) /\ ToSet(f) = S
  BY <1>4, <1>5, ListsWhole
<1> QED BY <1>6 DEF f

(* The fields of a thread's record, and of an output directory.            *)
WorkerFields == {"pc", "run", "ok", "whole", "cleaned", "found", "queue", "d", "kind", "step",
                 "todo", "mem", "checked", "objects"}
OutputFields == {"sources", "objects", "manifest", "staged", "cert"}

(* Where the phases that leave something behind stand in Phases; a backend *)
(* that has no such phase never gets beyond it.                            *)
PlaceOf ==
  [scalar  |-> [write |-> 3, typecheck |-> 4, manifest |-> 5, recheck |-> 7, stage |-> 9],
   methods |-> [write |-> 4, typecheck |-> 3, manifest |-> 9, recheck |-> 7, stage |-> 10],
   specification |-> [write |-> 3, typecheck |-> 9, manifest |-> 9, recheck |-> 5, stage |-> 7]]
LastStep == [scalar |-> 10, methods |-> 11, specification |-> 8]
Beyond(w, phase) == w.step > PlaceOf[w.kind][phase]

(* The inputs that a verification reads, and those that it has compared    *)
(* with the disk again.                                                    *)
Named(w) == {"config"} \cup ToSet(Reads(w.kind, w.mem["config"]))
Rechecked(w) == IF Beyond(w, "recheck") THEN Named(w)
                ELSE IF w.step = PlaceOf[w.kind].recheck THEN Named(w) \ ToSet(w.todo) ELSE {}

(* Which functions and records the variables are.                          *)
Shape ==
  /\ scenario \in DOMAIN Scenarios /\ clock \in Nat
  /\ DOMAIN worker = Threads /\ \A t \in Threads : DOMAIN worker[t] = WorkerFields
  /\ DOMAIN out = Dirs /\ \A d \in Dirs : DOMAIN out[d] = OutputFields

(* What is on disk is part of the past, and older than the next edit.      *)
Disk ==
  /\ DOMAIN files = Dirs /\ DOMAIN past = Dirs
  /\ \A d \in Dirs : /\ DOMAIN files[d] = Inputs
                     /\ files[d] \in past[d]
                     /\ \A f \in Inputs : files[d][f].v \in Int /\ files[d][f].v < clock
                     /\ files[d]["config"] # None => files[d]["config"].kind \in Backends

(* A thread works below its own suite.                                     *)
Below(t) ==
  LET w == worker[t] IN
  /\ w.queue \in Seq(Suite[t]) /\ w.found \subseteq Suite[t]
  /\ w.pc = "verify" => w.d \in Suite[t] /\ w.kind \in Backends /\ w.step \in 1..LastStep[w.kind]

(* What has been read is known, and older than the next edit.              *)
HasRead(t) ==
  LET w == worker[t] IN w.pc = "verify" =>
  /\ w.step > 1 => /\ "config" \in DOMAIN w.mem /\ Parses(w.kind, w.mem["config"])
                   /\ \A f \in DOMAIN w.mem : w.mem[f].v \in Int /\ w.mem[f].v < clock
  /\ w.step = 2 => /\ w.todo \in Seq(Inputs) /\ w.todo # <<>>
                   /\ "config" \notin ToSet(w.todo) /\ DOMAIN w.mem \cup ToSet(w.todo) = Named(w)
  /\ w.step > 2 => DOMAIN w.mem = Named(w)
  /\ w.step = PlaceOf[w.kind].recheck => w.todo \in Seq(Inputs) /\ w.todo # <<>>

(* Some moment since the reads ended had every input that was rechecked,   *)
(* or that is still as it was read; and rustc saw these sources.           *)
Together(t) ==
  LET w == worker[t]
      Same(f) == f \in Rechecked(w) \/ files[w.d][f] = w.mem[f]
  IN  w.pc = "verify" =>
  /\ w.step > 2 => \E p \in past[w.d] : \A f \in Named(w) : Same(f) => p[f] = w.mem[f]
  /\ Beyond(w, "typecheck") => (Same("source") => w.checked = w.mem["source"])

(* What the run has left in the output directory is its own.               *)
Verifying(t) ==
  LET w == worker[t]
      o == out[w.d]
  IN  w.pc = "verify" =>
  /\ o.cert = None
  /\ w.kind = "methods" => \A m \in DOMAIN w.objects : w.objects[m] = w.run
  /\ w.kind # "methods" /\ w.step > 1 => \A m \in DOMAIN o.objects : o.objects[m] = w.run
  /\ Beyond(w, "write") => o.sources = w.mem
  /\ Beyond(w, "manifest") => o.manifest = [run |-> w.run, inputs |-> w.mem]
  /\ Beyond(w, "stage") => o.staged = Certificate(w)

(* What CertificatesTrue says of one project.                              *)
Truthful(d) ==
  Certified(d) =>
    LET cert == out[d].cert IN
    /\ out[d].sources = cert.inputs
    /\ cert.kind # "specification" => /\ out[d].manifest = cert.manifest
                                      /\ out[d].manifest = [run |-> cert.run, inputs |-> cert.inputs]
                                      /\ cert.checked = cert.inputs["source"]
    /\ \E p \in past[d] : \A f \in DOMAIN cert.inputs : p[f] = cert.inputs[f]
    /\ \A m \in DOMAIN cert.objects : cert.objects[m] = cert.run

(* What the invariant says of one thread, and all of it.                   *)
Thread(t) == Below(t) /\ HasRead(t) /\ Together(t) /\ Verifying(t)

IInv == Shape /\ Disk /\ (\A t \in DOMAIN Suite : Thread(t)) /\ (\A d \in Dirs : Truthful(d))

-----------------------------------------------------------------------------
(* The lists of Verifier, read as tables.                                  *)

(* What the three phase lists say of a step number.                        *)
LEMMA Tables ==
  ASSUME NEW w, w.kind \in Backends, w.step \in 1..LastStep[w.kind]
  PROVE  /\ LastStep[w.kind] \in {8, 10, 11} /\ w.step \in Nat
         /\ \A p \in {"write", "typecheck", "manifest", "recheck", "stage"} : PlaceOf[w.kind][p] \in 3..10
         /\ Phase(w) = "config" <=> w.step = 1
         /\ Phase(w) = "read" <=> w.step = 2
         /\ Phase(w) = "write" <=> w.step = PlaceOf[w.kind].write
         /\ Phase(w) = "typecheck" <=> w.step = PlaceOf[w.kind].typecheck
         /\ Phase(w) = "manifest" <=> w.step = PlaceOf[w.kind].manifest
         /\ Phase(w) \in {"typecheck", "manifest"} => w.kind \in {"scalar", "methods"}
         /\ Phase(w) = "lean" => Beyond(w, "write")
         /\ Phase(w) = "certify" => /\ Beyond(w, "write") /\ Beyond(w, "recheck") /\ Beyond(w, "stage")
                                    /\ w.kind # "specification" => Beyond(w, "typecheck") /\ Beyond(w, "manifest")
         /\ Phase(w) # "certify" => w.step + 1 \in 1..LastStep[w.kind]
         /\ Phase(w) = "recheck" <=> w.step = PlaceOf[w.kind].recheck
         /\ Phase(w) = "stage" <=> w.step = PlaceOf[w.kind].stage
         /\ Phase(w) = "certify" <=> w.step = LastStep[w.kind]
         /\ Phase(w) = "lean" => w.step > 3 /\ w.step < PlaceOf[w.kind].recheck
         /\ Phase(w) = "publish" => w.kind = "methods" /\ w.step = 8
         /\ Phase(w) = "intact" => w.step > 3 /\ w.step < PlaceOf[w.kind].stage
<1> USE DEF Phase, Phases, PlaceOf, LastStep, Beyond
<1>1. CASE w.kind = "scalar"
  BY <1>1 DEF ScalarPhases
<1>2. CASE w.kind = "methods"
  BY <1>2 DEF MethodsPhases
<1>3. CASE w.kind = "specification"
  BY <1>3 DEF SpecificationPhases
<1> QED BY <1>1, <1>2, <1>3 DEF Backends

(* A step of a backend changes its place and what is left to do there.     *)
LEMMA AdvanceFields ==
  ASSUME NEW w, DOMAIN w = WorkerFields
  PROVE  /\ DOMAIN Advance(w) = WorkerFields
         /\ Advance(w).step = w.step + 1
         /\ Advance(w).todo = Todo(w.kind, w.step + 1, w.mem["config"])
         /\ \A f \in WorkerFields \ {"step", "todo"} : Advance(w)[f] = w[f]
BY DEF Advance, WorkerFields

(* Finishing one item of a phase goes on to the next item or phase.        *)
LEMMA DoneFields ==
  ASSUME NEW w, DOMAIN w = WorkerFields
  PROVE  /\ DOMAIN Done(w) = WorkerFields
         /\ IF Len(w.todo) = 1
            THEN Done(w).step = w.step + 1 /\ Done(w).todo = Todo(w.kind, w.step + 1, w.mem["config"])
            ELSE Done(w).step = w.step /\ Done(w).todo = Tail(w.todo)
         /\ \A f \in WorkerFields \ {"step", "todo"} : Done(w)[f] = w[f]
<1>1. CASE Len(w.todo) = 1
  BY <1>1, AdvanceFields DEF Done
<1>2. CASE Len(w.todo) # 1
  BY <1>2 DEF Done, WorkerFields
<1> QED BY <1>1, <1>2

(* What there is to read, and to compare again, is what the certificate    *)
(* will name.                                                              *)
LEMMA Work ==
  ASSUME NEW w, w.kind \in Backends, Parses(w.kind, w.mem["config"])
  PROVE  /\ Named(w) \subseteq Inputs
         /\ w.kind # "specification" => "source" \in Named(w)
         /\ LET todo == Todo(w.kind, 2, w.mem["config"])
            IN  /\ todo \in Seq(Inputs) /\ todo # <<>>
                /\ "config" \notin ToSet(todo) /\ {"config"} \cup ToSet(todo) = Named(w)
         /\ LET todo == Todo(w.kind, PlaceOf[w.kind].recheck, w.mem["config"])
            IN  todo \in Seq(Inputs) /\ todo # <<>> /\ ToSet(todo) = Named(w)
<1> DEFINE config == w.mem["config"]
           reads == Reads(w.kind, config)
           rechecks == Rechecks(w.kind, config)
<1>0. w.kind \in {"scalar", "methods", "specification"}
  BY DEF Backends
<1>1. Todo(w.kind, 2, config) = reads
  BY <1>0 DEF Todo, Phases, ScalarPhases, MethodsPhases, SpecificationPhases
<1>2. Todo(w.kind, PlaceOf[w.kind].recheck, config) = rechecks
  <2>1. Phases(w.kind)[PlaceOf[w.kind].recheck] = "recheck"
    BY <1>0 DEF Phases, PlaceOf, ScalarPhases, MethodsPhases, SpecificationPhases
  <2> QED BY <2>1 DEF Todo
<1> HIDE DEF reads, rechecks
<1> SUFFICES /\ reads \in Seq(Inputs) /\ reads # <<>> /\ "config" \notin ToSet(reads)
             /\ w.kind # "specification" => "source" \in ToSet(reads)
             /\ rechecks \in Seq(Inputs) /\ rechecks # <<>>
             /\ ToSet(rechecks) = {"config"} \cup ToSet(reads)
  <2>1. ASSUME NEW s \in Seq(Inputs) PROVE ToSet(s) \subseteq Inputs
    BY DEF ToSet
  <2>2. Named(w) = {"config"} \cup ToSet(reads)
    BY DEF Named, reads
  <2> QED BY <1>1, <1>2, <2>1, <2>2 DEF Inputs
<1>3. CASE w.kind = "scalar"
  <2>1. rechecks = <<"config">> \o reads /\ reads \in {<<"source">>, <<"source", "proofs">>}
    BY <1>3 DEF reads, rechecks, Reads, Rechecks, ScalarReads, ScalarRechecks
  <2>2. reads \in Seq(Inputs) /\ reads # <<>> /\ "source" \in ToSet(reads) /\ "config" \notin ToSet(reads)
    BY <2>1 DEF Inputs, ToSet
  <2> QED BY <2>1, <2>2, Prepended DEF Inputs
<1>4. CASE w.kind = "methods"
  <2>1. reads = <<"source", "proofs", "library">>
        /\ rechecks = <<"config", "proofs", "library", "source">>
    BY <1>4 DEF reads, rechecks, Reads, Rechecks, MethodsReads, MethodsRechecks
  <2>2. ToSet(reads) = {"source", "proofs", "library"}
        /\ ToSet(rechecks) = {"config", "source", "proofs", "library"}
    BY <2>1 DEF ToSet
  <2>3. reads \in Seq(Inputs) /\ reads # <<>> /\ rechecks \in Seq(Inputs) /\ rechecks # <<>>
    BY <2>1 DEF Inputs
  <2> QED BY <2>2, <2>3
<1>5. CASE w.kind = "specification"
  <2>1. reads = <<"proofs">> /\ rechecks = <<"config", "proofs">>
    BY <1>5 DEF reads, rechecks, Reads, Rechecks, SpecificationReads, SpecificationRechecks
  <2>2. ToSet(reads) = {"proofs"} /\ ToSet(rechecks) = {"config", "proofs"}
    BY <2>1 DEF ToSet
  <2>3. reads \in Seq(Inputs) /\ reads # <<>> /\ rechecks \in Seq(Inputs) /\ rechecks # <<>>
    BY <2>1 DEF Inputs
  <2> QED BY <1>5, <2>2, <2>3
<1> QED BY <1>0, <1>3, <1>4, <1>5

-----------------------------------------------------------------------------
(* A step of thread t touches its own record and its own directories.      *)
Touches(t) ==
  /\ UNCHANGED <<scenario, files, past, clock>>
  /\ DOMAIN worker' = Threads /\ DOMAIN worker'[t] = WorkerFields
  /\ \A s \in Threads \ {t} : worker'[s] = worker[s]
  /\ DOMAIN out' = Dirs /\ \A d \in Suite[t] : DOMAIN out'[d] = OutputFields
  /\ \A d \in Dirs \ Suite[t] : out'[d] = out[d]

(* ... hence the invariant of the other threads and directories stands.    *)
LEMMA OwnStep ==
  ASSUME IInv, NEW t \in DOMAIN Suite, Touches(t), Thread(t)', \A d \in Suite[t] : Truthful(d)'
  PROVE  IInv'
<1>0. t \in Threads /\ DOMAIN Suite \subseteq Threads /\ Suite' = Suite /\ Dirs' = Dirs
      /\ \A s \in DOMAIN Suite : Suite[s] \subseteq Dirs
  BY SuitesAreDisjoint DEF IInv, Shape, Touches, Suite, Bounds, Dirs
<1>1. Shape'
  BY <1>0 DEF IInv, Shape, Touches
<1>2. Disk'
  BY <1>0 DEF IInv, Disk, Touches
<1>3. ASSUME NEW s \in DOMAIN Suite, s # t PROVE Thread(s)'
  <2>1. worker'[s] = worker[s] /\ Thread(s)
    BY <1>0, <1>3 DEF Touches, IInv
  <2>2. Suite[s] \cap Suite[t] = {}
    BY <1>3, SuitesAreDisjoint DEF IInv, Shape, Suite, Bounds
  <2>3. \A d \in Suite[s] : out'[d] = out[d]
    BY <1>0, <2>2 DEF Touches
  <2>4. Below(s)' /\ HasRead(s)' /\ Together(s)'
    BY <1>0, <2>1 DEF Touches, Thread, Below, HasRead, Together, Named, Rechecked, Beyond
  <2>5. Verifying(s)'
    <3>1. CASE worker[s].pc # "verify"
      BY <2>1, <3>1 DEF Verifying
    <3>2. CASE worker[s].pc = "verify"
      <4>1. out'[worker[s].d] = out[worker[s].d]
        BY <2>1, <2>3, <3>2 DEF Thread, Below
      <4> QED BY <2>1, <3>2, <4>1 DEF Thread, Verifying, Beyond, Certificate, Objects
    <3> QED BY <3>1, <3>2
  <2> QED BY <2>4, <2>5 DEF Thread
<1>4. ASSUME NEW d \in Dirs \ Suite[t] PROVE Truthful(d)'
  BY <1>4 DEF IInv, Touches, Truthful, Certified
<1>5. \A s \in DOMAIN Suite' : Thread(s)'
  BY <1>0, <1>3
<1>6. \A d \in Dirs' : Truthful(d)'
  BY <1>0, <1>4
<1> QED BY <1>1, <1>2, <1>5, <1>6 DEF IInv

(* A thread that has ended, or waits between projects, has little to keep. *)
LEMMA NotVerifying ==
  ASSUME NEW t \in DOMAIN Suite, scenario' = scenario, worker'[t].pc # "verify",
         worker'[t].queue \in Seq(Suite[t]), worker'[t].found \subseteq Suite[t]
  PROVE  Thread(t)'
BY DEF Thread, Below, HasRead, Together, Verifying, Suite, Bounds

(* What the constants and the shapes say of a thread.                      *)
LEMMA Mine ==
  ASSUME IInv, NEW t \in DOMAIN Suite
  PROVE  /\ t \in Threads /\ Suite[t] \subseteq Dirs /\ IsFiniteSet(Suite[t])
         /\ DOMAIN worker = Threads /\ DOMAIN worker[t] = WorkerFields
         /\ DOMAIN out = Dirs /\ \A d \in Dirs : DOMAIN out[d] = OutputFields
         /\ \A d \in Dirs : DOMAIN files[d] = Inputs
         /\ Thread(t) /\ \A d \in Dirs : Truthful(d)
         /\ worker[t].pc = "verify" => worker[t].d \in Suite[t] /\ worker[t].d \in Dirs
<1>1. Suite[t] \subseteq Dirs
  BY DEF Dirs
<1>2. t \in Threads /\ IsFiniteSet(Suite[t])
  BY SuitesAreDisjoint, ScenariosAssumption DEF IInv, Shape, Suite, Bounds
<1>3. Thread(t)
  BY DEF IInv
<1>4. worker[t].pc = "verify" => worker[t].d \in Suite[t]
  BY <1>3 DEF Thread, Below
<1> QED BY <1>1, <1>2, <1>3, <1>4 DEF IInv, Shape, Disk

(* A step that leaves a project's directory, or its missing certificate,   *)
(* alone says nothing new.                                                 *)
LEMMA StillTruthful ==
  ASSUME IInv, NEW d \in Dirs, past' = past,
         \/ out'[d] = out[d]
         \/ DOMAIN out'[d] = OutputFields /\ out'[d].cert = None
  PROVE  Truthful(d)'
BY DEF IInv, Truthful, Certified

(* A backend between its reads and its certificate moves to its next       *)
(* phase or stays where it is: what it has read stays true.                *)
LEMMA Advancing ==
  ASSUME IInv, NEW t \in DOMAIN Suite, Touches(t), worker[t].pc = "verify",
         worker[t].step > 2, worker[t].step # PlaceOf[worker[t].kind].recheck,
         worker[t].step # LastStep[worker[t].kind],
         \A f \in {"pc", "d", "kind", "mem", "queue", "found"} : worker'[t][f] = worker[t][f],
         \/ /\ worker'[t].step = worker[t].step + 1
            /\ worker'[t].todo = Todo(worker[t].kind, worker[t].step + 1, worker[t].mem["config"])
         \/ worker'[t].step = worker[t].step,
         \/ worker'[t].checked = worker[t].checked /\ worker[t].step # PlaceOf[worker[t].kind].typecheck
         \/ worker'[t].checked = worker[t].mem["source"]
         \/ worker'[t].checked = files[worker[t].d]["source"] /\ worker[t].kind = "methods" /\ worker[t].step = 3
  PROVE  Below(t)' /\ HasRead(t)' /\ Together(t)'
<1> DEFINE w == worker[t]
           v == worker'[t]
           Same(f) == f \in Rechecked(w) \/ files[w.d][f] = w.mem[f]
<1>0. Thread(t) /\ Suite' = Suite /\ Dirs' = Dirs /\ UNCHANGED <<files, past, clock>>
  <2>1. Thread(t)
    BY Mine
  <2> QED BY <2>1 DEF Touches, Suite, Bounds, Dirs
<1>1. /\ w.d \in Suite[t] /\ w.kind \in Backends /\ w.step \in 1..LastStep[w.kind]
      /\ w.queue \in Seq(Suite[t]) /\ w.found \subseteq Suite[t]
  BY <1>0 DEF Thread, Below
<1>2. /\ LastStep[w.kind] \in {8, 10, 11} /\ w.step \in Nat
      /\ \A p \in {"write", "typecheck", "manifest", "recheck", "stage"} : PlaceOf[w.kind][p] \in 3..10
  BY <1>1, Tables
<1>3. v.step \in 1..LastStep[w.kind] /\ v.step > 2 /\ v.step \in {w.step, w.step + 1}
  BY <1>1, <1>2
<1>4. /\ v.pc = "verify" /\ v.d = w.d /\ v.kind = w.kind /\ v.mem = w.mem
      /\ v.queue = w.queue /\ v.found = w.found /\ Named(v) = Named(w)
  BY DEF Named
<1>5. Below(t)'
  BY <1>0, <1>1, <1>3, <1>4 DEF Below
<1>6. /\ "config" \in DOMAIN w.mem /\ Parses(w.kind, w.mem["config"]) /\ DOMAIN w.mem = Named(w)
      /\ \A f \in DOMAIN w.mem : w.mem[f].v \in Int /\ w.mem[f].v < clock
  BY <1>0, <1>1, <1>2 DEF Thread, HasRead
<1>7. LET todo == Todo(w.kind, PlaceOf[w.kind].recheck, w.mem["config"])
      IN  todo \in Seq(Inputs) /\ todo # <<>> /\ ToSet(todo) = Named(w)
  BY <1>1, <1>6, Work
<1>8. v.step = PlaceOf[w.kind].recheck =>
        v.todo \in Seq(Inputs) /\ v.todo # <<>> /\ ToSet(v.todo) = Named(w)
  BY <1>2, <1>7
<1>9. HasRead(t)'
  BY <1>0, <1>3, <1>4, <1>6, <1>8 DEF HasRead
<1>10. Rechecked(v) = Rechecked(w)
  <2>1. CASE w.step > PlaceOf[w.kind].recheck
    BY <1>2, <1>3, <1>4, <2>1 DEF Rechecked, Beyond
  <2>2. CASE w.step < PlaceOf[w.kind].recheck /\ v.step = PlaceOf[w.kind].recheck
    <3>1. Rechecked(w) = {}
      BY <1>2, <2>2 DEF Rechecked, Beyond
    <3>2. Rechecked(v) = Named(v) \ ToSet(v.todo)
      BY <1>2, <1>3, <1>4, <2>2 DEF Rechecked, Beyond
    <3> QED BY <1>4, <1>8, <2>2, <3>1, <3>2
  <2>3. CASE w.step < PlaceOf[w.kind].recheck /\ v.step # PlaceOf[w.kind].recheck
    BY <1>2, <1>3, <1>4, <2>3 DEF Rechecked, Beyond
  <2> QED BY <1>2, <2>1, <2>2, <2>3
<1>11. PICK p \in past[w.d] : \A f \in Named(w) : Same(f) => p[f] = w.mem[f]
  BY <1>0, <1>1, <1>2 DEF Thread, Together
<1>12. Beyond(w, "typecheck") => (Same("source") => w.checked = w.mem["source"])
  BY <1>0 DEF Thread, Together
<1>13. Beyond(v, "typecheck") => (Same("source") => v.checked = w.mem["source"])
  <2>1. CASE v.checked = w.checked /\ w.step # PlaceOf[w.kind].typecheck
    BY <1>2, <1>3, <1>4, <1>12, <2>1 DEF Beyond
  <2>2. CASE v.checked = w.mem["source"]
    BY <2>2
  <2>3. CASE v.checked = files[w.d]["source"] /\ w.kind = "methods" /\ w.step = 3
    <3>1. Rechecked(w) = {}
      BY <2>3 DEF Rechecked, Beyond, PlaceOf
    <3> QED BY <2>3, <3>1
  <2> QED BY <2>1, <2>2, <2>3
<1>14. Together(t)'
  BY <1>0, <1>4, <1>10, <1>11, <1>13 DEF Together
<1> QED BY <1>5, <1>9, <1>14

-----------------------------------------------------------------------------
(* What the environment does: the first contents, edits, kills.            *)

(* A content carries its version, a configuration a known backend.         *)
LEMMA Versions ==
  ASSUME scenario \in DOMAIN Scenarios, NEW f \in Inputs, NEW v \in Nat, NEW c \in Contents(f, v)
  PROVE  c.v = v /\ (f = "config" => c # None /\ c.kind \in Backends)
<1>1. Bounds.kinds \subseteq Backends
  BY ScenariosAssumption DEF Bounds
<1>2. CASE f = "config"
  BY <1>1, <1>2 DEF Contents, None
<1>3. CASE f = "proofs"
  BY <1>3 DEF Contents
<1>4. CASE f \notin {"config", "proofs"}
  BY <1>4 DEF Contents
<1> QED BY <1>2, <1>3, <1>4

(* No run has started and no certificate exists.                           *)
LEMMA Starting == Init => IInv
<1> SUFFICES ASSUME Init PROVE IInv
  OBVIOUS
<1>1. Shape
  BY DEF Init, Shape, Idle, NoOutput, WorkerFields, OutputFields
<1>2. Disk
  <2>1. ASSUME NEW d \in Dirs
        PROVE  /\ DOMAIN files[d] = Inputs /\ files[d] \in past[d]
               /\ \A f \in Inputs : files[d][f] \in Contents(f, 0)
    BY DEF Init, Inputs
  <2>2. ASSUME NEW d \in Dirs, NEW f \in Inputs
        PROVE  files[d][f].v = 0 /\ (f = "config" => files[d][f].kind \in Backends)
    BY <1>1, <2>1, Versions DEF Shape
  <2> QED BY <2>1, <2>2 DEF Init, Disk, Inputs
<1>3. ASSUME NEW t \in DOMAIN Suite PROVE Thread(t)
  <2>1. t \in Threads
    BY SuitesAreDisjoint DEF Init, Suite, Bounds
  <2>2. worker[t].pc = "idle" /\ worker[t].queue = <<>> /\ worker[t].found = {}
    BY <2>1 DEF Init, Idle
  <2> QED BY <2>2 DEF Thread, Below, HasRead, Together, Verifying
<1>4. ASSUME NEW d \in Dirs PROVE Truthful(d)
  BY DEF Init, Truthful, Certified, NoOutput
<1> QED BY <1>1, <1>2, <1>3, <1>4 DEF IInv

(* Contents never recur, so an edit makes no input look as it was read.    *)
LEMMA Editing ==
  ASSUME IInv, NEW d \in Dirs, NEW f \in Inputs, Edit(d, f)
  PROVE  IInv'
<1>0. /\ Suite' = Suite /\ Dirs' = Dirs /\ UNCHANGED <<scenario, out, worker>> /\ clock' = clock + 1
      /\ clock \in Nat /\ scenario \in DOMAIN Scenarios
  BY DEF Edit, Suite, Bounds, Dirs, IInv, Shape
<1>1. PICK c \in Contents(f, clock) \cup (IF f = "config" THEN {None} ELSE {}) :
        /\ files' = [files EXCEPT ![d][f] = c]
        /\ past' = [past EXCEPT ![d] = @ \cup {[files[d] EXCEPT ![f] = c]}]
  BY DEF Edit
<1>2. \/ c.v = clock /\ (f = "config" => c.kind \in Backends)
      \/ f = "config" /\ c = None /\ c.v = -1
  <2>1. CASE c \in Contents(f, clock)
    BY <1>0, <2>1, Versions
  <2>2. CASE c \notin Contents(f, clock)
    BY <1>1, <2>2 DEF None
  <2> QED BY <2>1, <2>2
<1>3. Shape'
  BY <1>0 DEF IInv, Shape
<1>4. /\ DOMAIN files = Dirs /\ DOMAIN past = Dirs /\ DOMAIN files' = Dirs /\ DOMAIN past' = Dirs
      /\ \A e \in Dirs : past[e] \subseteq past'[e] /\ DOMAIN files[e] = Inputs
      /\ \A e \in Dirs \ {d} : files'[e] = files[e]
      /\ files'[d] = [files[d] EXCEPT ![f] = c] /\ files'[d] \in past'[d]
      /\ files'[d][f] = c /\ \A g \in Inputs \ {f} : files'[d][g] = files[d][g]
  BY <1>1 DEF IInv, Disk
<1>5. Disk'
  <2> SUFFICES ASSUME NEW e \in Dirs
               PROVE  /\ DOMAIN files'[e] = Inputs /\ files'[e] \in past'[e]
                      /\ \A g \in Inputs : files'[e][g].v \in Int /\ files'[e][g].v < clock'
                      /\ files'[e]["config"] # None => files'[e]["config"].kind \in Backends
    BY <1>0, <1>4 DEF Disk
  <2>0. /\ files[e] \in past[e]
        /\ \A g \in Inputs : files[e][g].v \in Int /\ files[e][g].v < clock
        /\ files[e]["config"] # None => files[e]["config"].kind \in Backends
    BY DEF IInv, Disk
  <2>1. CASE e # d
    BY <1>0, <1>4, <2>0, <2>1
  <2>2. CASE e = d
    <3>1. DOMAIN files'[d] = Inputs /\ files'[d] \in past'[d]
      BY <1>4
    <3>2. ASSUME NEW g \in Inputs PROVE files'[d][g].v \in Int /\ files'[d][g].v < clock + 1
      <4>1. CASE g = f
        BY <1>0, <1>2, <1>4, <4>1
      <4>2. CASE g # f
        BY <1>0, <1>4, <2>0, <2>2, <4>2
      <4> QED BY <4>1, <4>2
    <3>3. files'[d]["config"] # None => files'[d]["config"].kind \in Backends
      <4>1. CASE f = "config"
        BY <1>2, <1>4, <4>1
      <4>2. CASE f # "config"
        BY <1>4, <2>0, <2>2, <4>2 DEF Inputs
      <4> QED BY <4>1, <4>2
    <3> QED BY <1>0, <2>2, <3>1, <3>2, <3>3
  <2> QED BY <2>1, <2>2
<1>6. ASSUME NEW t \in DOMAIN Suite PROVE Thread(t)'
  <2> DEFINE w == worker[t]
             Same(g) == g \in Rechecked(w) \/ files[w.d][g] = w.mem[g]
  <2>0. Thread(t)
    BY Mine
  <2>1. Below(t)'
    BY <1>0, <2>0 DEF Thread, Below
  <2>2. HasRead(t)'
    BY <1>0, <2>0 DEF Thread, HasRead, Named
  <2>3. Verifying(t)'
    BY <1>0, <2>0 DEF Thread, Verifying, Beyond, Certificate, Objects
  <2>4. Together(t)'
    <3> SUFFICES ASSUME w.pc = "verify" PROVE Together(t)'
      BY <1>0 DEF Together
    <3>0. w.d \in Dirs /\ w.kind \in Backends /\ w.step \in 1..LastStep[w.kind]
      BY <2>0, Mine DEF Thread, Below
    <3>1. /\ \A p \in {"write", "typecheck", "manifest", "recheck", "stage"} : PlaceOf[w.kind][p] \in 3..10
          /\ w.step \in Nat
      BY <3>0, Tables
    <3>2. ASSUME w.step > 2, NEW g \in Named(w), files'[w.d][g] = w.mem[g]
          PROVE  files[w.d][g] = w.mem[g]
      <4>1. /\ "config" \in DOMAIN w.mem /\ Parses(w.kind, w.mem["config"])
            /\ DOMAIN w.mem = Named(w) /\ w.mem[g].v \in Int /\ w.mem[g].v < clock
        BY <2>0, <3>1, <3>2 DEF Thread, HasRead
      <4>2. g \in Inputs
        BY <3>0, <4>1, Work
      <4>3. ~(w.d = d /\ g = f)
        BY <1>0, <1>2, <1>4, <3>2, <4>1 DEF Parses
      <4> QED BY <1>4, <3>0, <3>2, <4>2, <4>3
    <3>3. w.step > 2 => \E p \in past'[w.d] : \A g \in Named(w) :
            (g \in Rechecked(w) \/ files'[w.d][g] = w.mem[g]) => p[g] = w.mem[g]
      <4> SUFFICES ASSUME w.step > 2
                   PROVE  \E p \in past'[w.d] : \A g \in Named(w) :
                            (g \in Rechecked(w) \/ files'[w.d][g] = w.mem[g]) => p[g] = w.mem[g]
        OBVIOUS
      <4>1. PICK p \in past[w.d] : \A g \in Named(w) : Same(g) => p[g] = w.mem[g]
        BY <2>0 DEF Thread, Together
      <4>2. p \in past'[w.d]
        BY <1>4, <3>0
      <4> QED BY <3>2, <4>1, <4>2
    <3>4. Beyond(w, "typecheck") =>
            ("source" \in Rechecked(w) \/ files'[w.d]["source"] = w.mem["source"] => w.checked = w.mem["source"])
      <4> SUFFICES ASSUME Beyond(w, "typecheck")
                   PROVE  "source" \in Rechecked(w) \/ files'[w.d]["source"] = w.mem["source"]
                            => w.checked = w.mem["source"]
        OBVIOUS
      <4>1. w.step > 2 /\ w.kind # "specification"
        BY <3>0, <3>1 DEF Beyond, PlaceOf, LastStep
      <4>2. Parses(w.kind, w.mem["config"])
        BY <2>0, <3>1, <4>1 DEF Thread, HasRead
      <4>3. "source" \in Named(w)
        BY <3>0, <4>1, <4>2, Work
      <4> QED BY <2>0, <3>2, <4>1, <4>3 DEF Thread, Together
    <3>5. worker'[t] = w
      BY <1>0
    <3> QED BY <3>3, <3>4, <3>5 DEF Together
  <2> QED BY <2>1, <2>2, <2>3, <2>4 DEF Thread
<1>7. ASSUME NEW e \in Dirs PROVE Truthful(e)'
  <2>1. Truthful(e) /\ past[e] \subseteq past'[e] /\ out'[e] = out[e]
    BY <1>0, <1>4 DEF IInv
  <2> QED BY <2>1 DEF Truthful, Certified
<1>8. (\A t \in DOMAIN Suite' : Thread(t)') /\ (\A e \in Dirs' : Truthful(e)')
  BY <1>0, <1>6, <1>7
<1> QED BY <1>3, <1>5, <1>8 DEF IInv

(* A kill leaves the files and forgets the threads.                        *)
LEMMA Killing ==
  ASSUME IInv, Crash
  PROVE  IInv'
<1>0. Suite' = Suite /\ Dirs' = Dirs /\ UNCHANGED <<scenario, files, past, clock, out>>
  BY DEF Crash, Suite, Bounds, Dirs
<1>1. Shape'
  BY <1>0 DEF IInv, Shape, Crash, Idle, WorkerFields
<1>2. Disk'
  BY <1>0 DEF IInv, Disk
<1>3. ASSUME NEW t \in DOMAIN Suite PROVE Thread(t)'
  <2>1. /\ worker'[t].pc # "verify" /\ worker'[t].queue \in Seq(Suite[t])
        /\ worker'[t].found \subseteq Suite[t]
    BY Mine DEF Crash, Idle
  <2> QED BY <1>0, <2>1, NotVerifying
<1>4. ASSUME NEW d \in Dirs PROVE Truthful(d)'
  BY <1>0, StillTruthful
<1>5. (\A t \in DOMAIN Suite' : Thread(t)') /\ (\A d \in Dirs' : Truthful(d)')
  BY <1>0, <1>3, <1>4
<1> QED BY <1>1, <1>2, <1>5 DEF IInv

-----------------------------------------------------------------------------
(* Steps of a suite, and failures: the thread verifies no project after    *)
(* them, and at most takes certificates away.                              *)

(* Thread t stops verifying and leaves the files as they are, or takes     *)
(* certificates of its own suite away.                                     *)
Resting(t, v) ==
  /\ worker' = [worker EXCEPT ![t] = v] /\ UNCHANGED <<scenario, files, past, clock>>
  /\ DOMAIN v = WorkerFields /\ v.pc # "verify" /\ v.queue \in Seq(Suite[t]) /\ v.found \subseteq Suite[t]
  /\ DOMAIN out' = Dirs
  /\ \A d \in Dirs : \/ out'[d] = out[d]
                     \/ d \in Suite[t] /\ DOMAIN out'[d] = OutputFields /\ out'[d].cert = None

(* Such a step keeps the invariant.                                        *)
LEMMA RestingStep ==
  ASSUME IInv, NEW t \in DOMAIN Suite, NEW v, Resting(t, v)
  PROVE  IInv'
<1>1. Touches(t) /\ worker'[t] = v
  BY Mine DEF Resting, Touches
<1>2. Thread(t)'
  BY <1>1, NotVerifying DEF Resting
<1>3. ASSUME NEW d \in Suite[t] PROVE Truthful(d)'
  <2>1. d \in Dirs
    BY Mine
  <2> QED BY <2>1, StillTruthful DEF Resting
<1> QED BY <1>1, <1>2, <1>3, OwnStep

(* Invalidation takes the certificate and nothing else.                    *)
LEMMA InvalidateFields ==
  ASSUME NEW o, DOMAIN o = OutputFields
  PROVE  /\ DOMAIN Invalidate(o) = OutputFields /\ Invalidate(o).cert = None
         /\ \A f \in OutputFields \ {"cert"} : Invalidate(o)[f] = o[f]
BY DEF Invalidate, OutputFields

(* A run that fails ends without a claim.                                  *)
LEMMA FailFields ==
  ASSUME NEW w, NEW S
  PROVE  /\ DOMAIN Fail(w) = WorkerFields /\ Fail(w).pc = "ended" /\ ~Fail(w).ok
         /\ Fail(w).queue \in Seq(S) /\ Fail(w).found \subseteq S
         /\ Fail(w).run = w.run /\ Fail(w).whole = w.whole /\ Fail(w).cleaned = w.cleaned
BY DEF Fail, Idle, WorkerFields

(* A failure that leaves the files alone keeps the invariant.              *)
LEMMA Failing ==
  ASSUME IInv, NEW t \in DOMAIN Suite, Set(t, Fail(worker[t])),
         UNCHANGED <<scenario, files, past, clock, out>>
  PROVE  IInv'
<1>1. Resting(t, Fail(worker[t]))
  BY Mine, FailFields DEF Resting, Set
<1> QED BY <1>1, RestingStep

(* Outside a backend, certificates of the own suite are taken away only.   *)
LEMMA SuiteSteps ==
  ASSUME IInv, NEW t \in DOMAIN Suite,
         StartSuite(t) \/ (\E d \in Suite[t] : StartProject(t, d)) \/ RemoveCertificates(t)
           \/ Discover(t) \/ Finish(t) \/ SuiteFails(t)
           \/ (\E n \in 0..Len(worker[t].queue), installed \in BOOLEAN : Preflight(t, n, installed))
  PROVE  IInv'
<1> DEFINE w == worker[t]
<1>0. /\ DOMAIN w = WorkerFields /\ w.queue \in Seq(Suite[t]) /\ w.found \subseteq Suite[t]
      /\ DOMAIN out = Dirs /\ Suite[t] \subseteq Dirs /\ \A d \in Dirs : DOMAIN out[d] = OutputFields
  BY Mine DEF Thread, Below
<1>1. CASE StartSuite(t)
  <2>0. PICK order \in SetToSeqs(Suite[t]) :
          Set(t, [Idle EXCEPT !.pc = "clean", !.run = runs + 1, !.whole = TRUE, !.queue = order])
    BY <1>1 DEF StartSuite
  <2> DEFINE v == [Idle EXCEPT !.pc = "clean", !.run = runs + 1, !.whole = TRUE, !.queue = order]
  <2>1. order \in Seq(Suite[t])
    BY Mine, OrdersListAll
  <2>2. DOMAIN v = WorkerFields /\ v.pc # "verify" /\ v.queue \in Seq(Suite[t]) /\ v.found \subseteq Suite[t]
    BY <2>1 DEF Idle, WorkerFields
  <2>3. Resting(t, v)
    BY <1>0, <1>1, <2>0, <2>2 DEF StartSuite, Set, Resting
  <2> QED BY <2>3, RestingStep
<1>2. CASE \E d \in Suite[t] : StartProject(t, d)
  <2>0. PICK d \in Suite[t] : StartProject(t, d)
    BY <1>2
  <2> DEFINE v == [Idle EXCEPT !.pc = "next", !.run = runs + 1, !.ok = TRUE, !.found = {d}, !.queue = <<d>>]
  <2>2. DOMAIN v = WorkerFields /\ v.pc # "verify" /\ v.queue \in Seq(Suite[t]) /\ v.found \subseteq Suite[t]
    BY DEF Idle, WorkerFields
  <2>3. Resting(t, v)
    BY <1>0, <2>0, <2>2 DEF StartProject, Set, Resting
  <2> QED BY <2>3, RestingStep
<1>3. CASE RemoveCertificates(t)
  <2>1. CASE w.queue = <<>>
    <3> DEFINE v == [w EXCEPT !.pc = "discover", !.cleaned = TRUE]
    <3>1. DOMAIN v = WorkerFields /\ v.pc # "verify" /\ v.queue \in Seq(Suite[t]) /\ v.found \subseteq Suite[t]
      BY <1>0 DEF WorkerFields
    <3>2. Resting(t, v)
      BY <1>0, <1>3, <2>1, <3>1 DEF RemoveCertificates, Set, Resting
    <3> QED BY <3>2, RestingStep
  <2>2. CASE w.queue # <<>>
    <3> DEFINE v == [w EXCEPT !.queue = Tail(@)]
               d == Head(w.queue)
    <3>0. d \in Suite[t] /\ Tail(w.queue) \in Seq(Suite[t])
      BY <1>0, <2>2, HeadAndTail
    <3>1. DOMAIN v = WorkerFields /\ v.pc # "verify" /\ v.queue \in Seq(Suite[t]) /\ v.found \subseteq Suite[t]
      BY <1>0, <1>3, <3>0 DEF RemoveCertificates, WorkerFields
    <3>2. out' = [out EXCEPT ![d] = Invalidate(out[d])]
      BY <1>3, <2>2 DEF RemoveCertificates
    <3>3. Resting(t, v)
      BY <1>0, <1>3, <2>2, <3>0, <3>1, <3>2, InvalidateFields DEF RemoveCertificates, Set, Resting
    <3> QED BY <3>3, RestingStep
  <2> QED BY <2>1, <2>2
<1>4. CASE Discover(t)
  <2> DEFINE found == {d \in Suite[t] : files[d]["config"] # None}
             v == [w EXCEPT !.pc = "prepare", !.found = found, !.queue = SetToSeq(found)]
  <2>1. CASE found = {}
    BY <1>4, <2>1, Failing DEF Discover
  <2>2. CASE found # {}
    <3>1. IsFiniteSet(found)
      BY Mine, FS_Subset
    <3>2. SetToSeq(found) \in Seq(found)
      BY <3>1, ListsAll
    <3>3. SetToSeq(found) \in Seq(Suite[t])
      BY <3>2
    <3>4. DOMAIN v = WorkerFields /\ v.pc # "verify" /\ v.queue \in Seq(Suite[t]) /\ v.found \subseteq Suite[t]
      BY <1>0, <3>3 DEF WorkerFields
    <3>5. Resting(t, v)
      BY <1>0, <1>4, <2>2, <3>4 DEF Discover, Set, Resting
    <3> QED BY <3>5, RestingStep
  <2> QED BY <2>1, <2>2
<1>5. CASE \E n \in 0..Len(w.queue), installed \in BOOLEAN : Preflight(t, n, installed)
  <2>0. PICK n \in 0..Len(w.queue), installed \in BOOLEAN : Preflight(t, n, installed)
    BY <1>5
  <2> DEFINE ok == n = Len(w.queue) /\ installed
             v == IF ok THEN [w EXCEPT !.pc = "next", !.ok = TRUE] ELSE Fail(w)
             prepared == {w.queue[i] : i \in 1..n}
  <2>1. DOMAIN v = WorkerFields /\ v.pc # "verify" /\ v.queue \in Seq(Suite[t]) /\ v.found \subseteq Suite[t]
    <3>1. CASE ok
      BY <1>0, <3>1 DEF WorkerFields
    <3>2. CASE ~ok
      BY <3>2, FailFields
    <3> QED BY <3>1, <3>2
  <2>2. prepared \subseteq Suite[t]
    BY <1>0
  <2>3. out' = [d \in Dirs |-> IF d \in prepared THEN Invalidate(out[d]) ELSE out[d]]
    BY <2>0 DEF Preflight
  <2>4. worker' = [worker EXCEPT ![t] = v] /\ UNCHANGED <<scenario, files, past, clock>>
    BY <2>0 DEF Preflight, Set
  <2> HIDE DEF v, prepared
  <2>5. Resting(t, v)
    BY <1>0, <2>1, <2>2, <2>3, <2>4, InvalidateFields DEF Resting
  <2> QED BY <2>5, RestingStep
<1>6. CASE Finish(t)
  <2> DEFINE v == [w EXCEPT !.pc = "ended"]
  <2>1. DOMAIN v = WorkerFields /\ v.pc # "verify" /\ v.queue \in Seq(Suite[t]) /\ v.found \subseteq Suite[t]
    BY <1>0 DEF WorkerFields
  <2>2. Resting(t, v)
    BY <1>0, <1>6, <2>1 DEF Finish, Set, Resting
  <2> QED BY <2>2, RestingStep
<1>7. CASE SuiteFails(t)
  BY <1>7, Failing DEF SuiteFails
<1> QED BY <1>1, <1>2, <1>3, <1>4, <1>5, <1>6, <1>7

-----------------------------------------------------------------------------
(* The steps of a backend.                                                 *)

(* The other projects of the suite are not touched, and the one that is    *)
(* verified has no certificate.                                            *)
LEMMA Moved ==
  ASSUME IInv, NEW t \in DOMAIN Suite, NEW d \in Suite[t], Touches(t), Thread(t)',
         \A e \in Suite[t] \ {d} : out'[e] = out[e], out'[d].cert = None
  PROVE  IInv'
<1>1. ASSUME NEW e \in Suite[t] PROVE Truthful(e)'
  <2>1. e \in Dirs /\ past' = past /\ DOMAIN out'[e] = OutputFields
    BY Mine DEF Touches
  <2> QED BY <2>1, StillTruthful
<1> QED BY <1>1, OwnStep

(* What a thread that verifies knows of itself.                            *)
LEMMA Busy ==
  ASSUME IInv, NEW t \in DOMAIN Suite, worker[t].pc = "verify"
  PROVE  LET w == worker[t] IN
         /\ t \in Threads /\ DOMAIN worker = Threads /\ DOMAIN w = WorkerFields
         /\ w.d \in Suite[t] /\ w.d \in Dirs /\ DOMAIN out = Dirs /\ DOMAIN out[w.d] = OutputFields
         /\ \A d \in Suite[t] : DOMAIN out[d] = OutputFields
         /\ w.kind \in Backends /\ w.step \in 1..LastStep[w.kind] /\ w.step \in Nat
         /\ w.queue \in Seq(Suite[t]) /\ w.found \subseteq Suite[t]
         /\ HasRead(t) /\ Together(t) /\ Verifying(t) /\ out[w.d].cert = None
         /\ \A p \in {"write", "typecheck", "manifest", "recheck", "stage"} : PlaceOf[w.kind][p] \in 3..10
<1>1. Thread(t) /\ worker[t].d \in Suite[t] /\ worker[t].d \in Dirs
  BY Mine
<1>2. worker[t].kind \in Backends /\ worker[t].step \in 1..LastStep[worker[t].kind]
  BY <1>1 DEF Thread, Below
<1>3. \A p \in {"write", "typecheck", "manifest", "recheck", "stage"} : PlaceOf[worker[t].kind][p] \in 3..10
  BY <1>2, Tables
<1>4. out[worker[t].d].cert = None
  BY <1>1 DEF Thread, Verifying
<1>5. /\ worker[t].step \in Nat /\ worker[t].queue \in Seq(Suite[t]) /\ worker[t].found \subseteq Suite[t]
      /\ HasRead(t) /\ Together(t) /\ Verifying(t)
  BY <1>1, <1>2, Tables DEF Thread, Below
<1>6. /\ t \in Threads /\ DOMAIN worker = Threads /\ DOMAIN worker[t] = WorkerFields
      /\ DOMAIN out = Dirs /\ DOMAIN out[worker[t].d] = OutputFields
      /\ \A d \in Suite[t] : DOMAIN out[d] = OutputFields
  BY <1>1, Mine
<1> QED BY <1>1, <1>2, <1>3, <1>4, <1>5, <1>6

(* A step at another place does not get beyond this one.                   *)
LEMMA SamePlace ==
  ASSUME NEW w, NEW v, w.kind \in Backends, w.step \in 1..LastStep[w.kind],
         v.kind = w.kind, v.step \in {w.step, w.step + 1},
         NEW p \in {"write", "typecheck", "manifest", "recheck", "stage"}, w.step # PlaceOf[w.kind][p]
  PROVE  Beyond(v, p) <=> Beyond(w, p)
<1>1. w.step \in Nat /\ PlaceOf[w.kind][p] \in 3..10
  BY Tables
<1> QED BY <1>1 DEF Beyond

(* The reads come before every place of the table.                         *)
LEMMA Early ==
  ASSUME NEW v, v.kind \in Backends, v.step \in {1, 2, 3}
  PROVE  /\ v.step \in 1..LastStep[v.kind] /\ v.step # PlaceOf[v.kind].recheck
         /\ ~Beyond(v, "write") /\ ~Beyond(v, "typecheck") /\ ~Beyond(v, "manifest")
         /\ ~Beyond(v, "recheck") /\ ~Beyond(v, "stage")
<1> USE DEF LastStep, PlaceOf, Beyond
<1>1. CASE v.kind = "scalar"
  BY <1>1
<1>2. CASE v.kind = "methods"
  BY <1>2
<1>3. CASE v.kind = "specification"
  BY <1>3
<1> QED BY <1>1, <1>2, <1>3 DEF Backends

(* The next project is opened: its certificate goes first.                 *)
LEMMA DispatchStep ==
  ASSUME IInv, NEW t \in DOMAIN Suite, Dispatch(t)
  PROVE  IInv'
<1> DEFINE w == worker[t]
           d == Head(w.queue)
           c == files[d]["config"]
<1>0. /\ DOMAIN w = WorkerFields /\ w.queue \in Seq(Suite[t]) /\ w.found \subseteq Suite[t]
      /\ DOMAIN out = Dirs /\ Suite[t] \subseteq Dirs /\ \A e \in Dirs : DOMAIN out[e] = OutputFields
      /\ DOMAIN worker = Threads /\ t \in Threads
  BY Mine DEF Thread, Below
<1>1. d \in Suite[t] /\ Tail(w.queue) \in Seq(Suite[t])
  BY <1>0, HeadAndTail DEF Dispatch
<1>2. /\ DOMAIN out' = Dirs /\ out'[d] = Invalidate(out[d]) /\ \A e \in Dirs \ {d} : out'[e] = out[e]
      /\ DOMAIN out'[d] = OutputFields /\ out'[d].cert = None
  BY <1>0, <1>1, InvalidateFields DEF Dispatch
<1>3. CASE c = None \/ ~c.obligations
  <2>1. Resting(t, Fail(w))
    BY <1>0, <1>1, <1>2, <1>3, FailFields DEF Dispatch, Set, Resting
  <2> QED BY <2>1, RestingStep
<1>4. CASE ~(c = None \/ ~c.obligations)
  <2> DEFINE v == worker'[t]
  <2>1. worker' = [worker EXCEPT ![t] =
           [w EXCEPT !.pc = "verify", !.d = d, !.queue = Tail(@), !.kind = c.kind, !.step = 1,
                     !.todo = <<>>, !.mem = <<>>, !.checked = None, !.objects = <<>>]]
    BY <1>4 DEF Dispatch, Set
  <2>2. /\ DOMAIN v = WorkerFields /\ v.pc = "verify" /\ v.d = d /\ v.queue = Tail(w.queue)
        /\ v.kind = c.kind /\ v.step = 1 /\ v.objects = <<>> /\ v.found = w.found
    BY <1>0, <2>1 DEF WorkerFields
  <2>3. c.kind \in Backends
    BY <1>0, <1>1, <1>4 DEF IInv, Disk
  <2>4. Touches(t)
    BY <1>0, <1>1, <1>2, <2>1, <2>2 DEF Touches, Dispatch
  <2>5. /\ v.step \in 1..LastStep[v.kind] /\ v.step # PlaceOf[v.kind].recheck
        /\ ~Beyond(v, "write") /\ ~Beyond(v, "typecheck") /\ ~Beyond(v, "manifest")
        /\ ~Beyond(v, "recheck") /\ ~Beyond(v, "stage")
    BY <2>2, <2>3, Early
  <2>6. Suite' = Suite
    BY DEF Dispatch, Suite, Bounds
  <2>7. Below(t)'
    BY <1>0, <1>1, <2>2, <2>3, <2>5, <2>6 DEF Below
  <2>8. HasRead(t)' /\ Together(t)'
    BY <2>2, <2>5 DEF HasRead, Together
  <2>9. Verifying(t)'
    BY <1>2, <2>2, <2>5 DEF Verifying
  <2>10. Thread(t)'
    BY <2>7, <2>8, <2>9 DEF Thread
  <2> QED BY <1>0, <1>1, <1>2, <2>4, <2>10, Moved
<1> QED BY <1>3, <1>4

(* The configuration is read and the outputs of earlier runs cleared.      *)
LEMMA ReadConfigStep ==
  ASSUME IInv, NEW t \in DOMAIN Suite, ReadConfig(t)
  PROVE  IInv'
<1> DEFINE w == worker[t]
           c == files[w.d]["config"]
           o == ClearObjects(Invalidate(out[w.d]), w.kind)
<1>0. /\ w.pc = "verify" /\ Phase(w) = "config"
      /\ out' = [out EXCEPT ![w.d] = o] /\ UNCHANGED <<scenario, files, past, clock>>
  BY DEF ReadConfig, At
<1>a. /\ t \in Threads /\ DOMAIN worker = Threads /\ DOMAIN w = WorkerFields
      /\ w.d \in Suite[t] /\ w.d \in Dirs /\ DOMAIN out = Dirs /\ DOMAIN out[w.d] = OutputFields
      /\ \A e \in Suite[t] : DOMAIN out[e] = OutputFields
      /\ w.kind \in Backends /\ w.step \in 1..LastStep[w.kind] /\ w.queue \in Seq(Suite[t])
      /\ w.found \subseteq Suite[t] /\ Verifying(t)
  BY <1>0, Busy
<1>1. w.step = 1
  BY <1>0, <1>a, Tables
<1>2. DOMAIN o = OutputFields /\ o.cert = None /\ (w.kind # "methods" => o.objects = <<>>)
  <2>1. DOMAIN Invalidate(out[w.d]) = OutputFields /\ Invalidate(out[w.d]).cert = None
    BY <1>a, InvalidateFields
  <2> QED BY <2>1 DEF ClearObjects, OutputFields
<1>3. /\ DOMAIN out' = Dirs /\ out'[w.d] = o
      /\ \A e \in Dirs : e # w.d => out'[e] = out[e]
  BY <1>0, <1>a
<1>4. CASE ~Parses(w.kind, c)
  <2>1. Resting(t, Fail(w))
    BY <1>0, <1>a, <1>2, <1>3, <1>4, FailFields DEF ReadConfig, Set, Resting
  <2> QED BY <2>1, RestingStep
<1>5. CASE Parses(w.kind, c)
  <2> DEFINE u == [w EXCEPT !.mem = [config |-> c]]
             v == worker'[t]
  <2>1. worker' = [worker EXCEPT ![t] = Advance(u)]
    BY <1>5 DEF ReadConfig, Set
  <2>2. /\ DOMAIN u = WorkerFields /\ u.mem = [config |-> c]
        /\ \A f \in WorkerFields \ {"mem"} : u[f] = w[f]
    BY <1>a DEF WorkerFields
  <2>3. v = Advance(u) /\ DOMAIN v = WorkerFields
    BY <1>a, <2>1, <2>2, AdvanceFields
  <2>4. /\ v.step = 2 /\ v.mem = [config |-> c] /\ v.todo = Todo(w.kind, 2, c)
        /\ v.pc = "verify" /\ v.kind = w.kind /\ v.d = w.d /\ v.run = w.run /\ v.objects = w.objects
        /\ v.queue = w.queue /\ v.found = w.found
    <3>1. u.step = 1 /\ u.kind = w.kind /\ u.mem["config"] = c
      BY <1>1, <2>2 DEF WorkerFields
    <3>a. /\ Advance(u).step = u.step + 1 /\ Advance(u).todo = Todo(u.kind, u.step + 1, u.mem["config"])
          /\ \A f \in WorkerFields \ {"step", "todo"} : Advance(u)[f] = u[f]
      <4> HIDE DEF u
      <4> QED BY ONLY <2>2, AdvanceFields, ZenonT(60)
    <3> HIDE DEF u, v
    <3>2. v.step = u.step + 1 /\ v.todo = Todo(u.kind, u.step + 1, u.mem["config"])
      BY ONLY <2>3, <3>a, ZenonT(60)
    <3>3. \A f \in WorkerFields \ {"step", "todo"} : v[f] = u[f]
      BY ONLY <2>3, <3>a, ZenonT(60)
    <3>4. \A f \in WorkerFields \ {"step", "todo", "mem"} : v[f] = w[f]
      BY <2>2, <3>3
    <3>5. v.step = 2 /\ v.todo = Todo(w.kind, 2, c)
      BY <3>1, <3>2
    <3>6. v.mem = [config |-> c]
      BY <2>2, <3>3 DEF WorkerFields
    <3> QED BY <1>0, <3>4, <3>5, <3>6 DEF WorkerFields
  <2>5. Touches(t)
    BY <1>0, <1>a, <1>2, <1>3, <2>1, <2>3 DEF Touches
  <2>6. /\ v.step \in 1..LastStep[v.kind] /\ v.step # PlaceOf[v.kind].recheck
        /\ ~Beyond(v, "write") /\ ~Beyond(v, "typecheck") /\ ~Beyond(v, "manifest")
        /\ ~Beyond(v, "recheck") /\ ~Beyond(v, "stage")
    BY <1>a, <2>4, Early
  <2>7. Suite' = Suite
    BY <1>0 DEF Suite, Bounds
  <2>8. Below(t)'
    BY <1>a, <2>4, <2>6, <2>7 DEF Below
  <2>9. HasRead(t)'
    <3>1. /\ v.todo \in Seq(Inputs) /\ v.todo # <<>>
          /\ "config" \notin ToSet(v.todo) /\ {"config"} \cup ToSet(v.todo) = Named(v)
      BY <1>a, <1>5, <2>4, Work
    <3>2. DOMAIN v.mem = {"config"} /\ v.mem["config"] = c
      BY <2>4
    <3>3. c.v \in Int /\ c.v < clock
      BY <1>a DEF IInv, Disk, Inputs
    <3> QED BY <1>0, <1>5, <2>4, <2>6, <3>1, <3>2, <3>3 DEF HasRead
  <2>10. Together(t)'
    BY <2>4, <2>6 DEF Together
  <2>11. Verifying(t)'
    <3>1. w.kind = "methods" => \A m \in DOMAIN w.objects : w.objects[m] = w.run
      BY <1>0, <1>a DEF Verifying
    <3> QED BY <1>2, <1>3, <2>4, <2>6, <3>1 DEF Verifying
  <2>12. Thread(t)'
    BY <2>8, <2>9, <2>10, <2>11 DEF Thread
  <2>13. \A e \in Suite[t] \ {w.d} : out'[e] = out[e]
    BY <1>a, <1>3, Mine
  <2> QED BY <1>a, <1>2, <1>3, <2>5, <2>12, <2>13, Moved
<1> QED BY <1>4, <1>5

(* An input is read: the last one read is the moment all are compared      *)
(* with.                                                                   *)
LEMMA ReadInputStep ==
  ASSUME IInv, NEW t \in DOMAIN Suite, ReadInput(t)
  PROVE  IInv'
<1> DEFINE w == worker[t]
           f == Head(w.todo)
           c == files[w.d][f]
<1>0. w.pc = "verify" /\ Phase(w) = "read" /\ UNCHANGED <<scenario, files, past, clock, out>>
  BY DEF ReadInput, At
<1>a. /\ t \in Threads /\ DOMAIN worker = Threads /\ DOMAIN w = WorkerFields
      /\ w.d \in Suite[t] /\ w.d \in Dirs /\ DOMAIN out = Dirs
      /\ \A e \in Suite[t] : DOMAIN out[e] = OutputFields
      /\ w.kind \in Backends /\ w.step \in 1..LastStep[w.kind] /\ w.queue \in Seq(Suite[t])
      /\ w.found \subseteq Suite[t] /\ HasRead(t) /\ Verifying(t)
      /\ out[w.d].cert = None
  BY <1>0, Busy
<1>1. w.step = 2
  BY <1>0, <1>a, Tables
<1>2. CASE w.kind = "specification" /\ c.imports
  BY <1>0, <1>2, Failing DEF ReadInput
<1>3. CASE ~(w.kind = "specification" /\ c.imports)
  <2> DEFINE mem == [g \in DOMAIN w.mem \cup {f} |-> IF g = f THEN c ELSE w.mem[g]]
             u == [w EXCEPT !.mem = mem]
             v == worker'[t]
  <2> HIDE DEF mem
  <2>1. worker' = [worker EXCEPT ![t] = Done(u)]
    BY <1>3 DEF ReadInput, Set, mem
  <2>2. DOMAIN u = WorkerFields /\ u.mem = mem /\ \A g \in WorkerFields \ {"mem"} : u[g] = w[g]
    BY <1>a DEF WorkerFields
  <2> HIDE DEF u
  <2>3. v = Done(u) /\ DOMAIN v = WorkerFields
    BY <1>a, <2>1, <2>2, DoneFields
  <2>4. \A g \in WorkerFields \ {"step", "todo"} : v[g] = u[g]
    BY <2>2, <2>3, DoneFields
  <2>5. /\ v.mem = mem /\ v.pc = "verify" /\ v.kind = w.kind /\ v.d = w.d /\ v.run = w.run
        /\ v.objects = w.objects /\ v.queue = w.queue /\ v.found = w.found
    BY <1>0, <2>2, <2>4 DEF WorkerFields
  <2>6. /\ "config" \in DOMAIN w.mem /\ Parses(w.kind, w.mem["config"])
        /\ \A g \in DOMAIN w.mem : w.mem[g].v \in Int /\ w.mem[g].v < clock
        /\ w.todo \in Seq(Inputs) /\ w.todo # <<>>
        /\ "config" \notin ToSet(w.todo) /\ DOMAIN w.mem \cup ToSet(w.todo) = Named(w)
    BY <1>0, <1>a, <1>1 DEF HasRead
  <2>7. /\ f \in Inputs /\ Tail(w.todo) \in Seq(Inputs)
        /\ ToSet(w.todo) = {f} \cup ToSet(Tail(w.todo))
        /\ Len(w.todo) = 1 => ToSet(w.todo) = {f}
        /\ Len(w.todo) # 1 => Tail(w.todo) # <<>>
    BY <2>6, HeadAndTail
  <2>8. /\ DOMAIN mem = DOMAIN w.mem \cup {f} /\ mem["config"] = w.mem["config"] /\ mem[f] = c
        /\ \A g \in DOMAIN w.mem : g # f => mem[g] = w.mem[g]
    BY <2>6, <2>7 DEF mem
  <2>9. c.v \in Int /\ c.v < clock
    BY <1>a, <2>7 DEF IInv, Disk
  <2>10. \A g \in DOMAIN mem : mem[g].v \in Int /\ mem[g].v < clock
    BY <2>6, <2>8, <2>9
  <2>11. Named(v) = Named(w)
    BY <2>5, <2>8 DEF Named
  <2>12. /\ Len(w.todo) = 1 => v.step = 3
         /\ Len(w.todo) # 1 => v.step = 2 /\ v.todo = Tail(w.todo)
    <3>1. u.step = 2 /\ u.todo = w.todo
      BY <1>1, <2>2 DEF WorkerFields
    <3> QED BY <2>2, <2>3, <3>1, DoneFields
  <2>13. /\ v.step \in 1..LastStep[v.kind] /\ v.step # PlaceOf[v.kind].recheck
         /\ ~Beyond(v, "write") /\ ~Beyond(v, "typecheck") /\ ~Beyond(v, "manifest")
         /\ ~Beyond(v, "recheck") /\ ~Beyond(v, "stage")
    BY <1>a, <2>5, <2>12, Early
  <2>14. Suite' = Suite
    BY <1>0 DEF Suite, Bounds
  <2>15. Below(t)'
    BY <1>a, <2>5, <2>13, <2>14 DEF Below
  <2>16. HasRead(t)'
    <3>1. "config" \in DOMAIN v.mem /\ Parses(v.kind, v.mem["config"])
      BY <2>5, <2>6, <2>8
    <3>2. v.step = 2 => /\ v.todo \in Seq(Inputs) /\ v.todo # <<>>
                        /\ "config" \notin ToSet(v.todo) /\ DOMAIN v.mem \cup ToSet(v.todo) = Named(v)
      <4>1. v.step = 2 => Len(w.todo) # 1 /\ v.todo = Tail(w.todo)
        BY <2>12
      <4>2. v.step = 2 => v.todo \in Seq(Inputs) /\ v.todo # <<>>
        BY <2>7, <4>1
      <4>3. "config" \notin ToSet(Tail(w.todo)) /\ DOMAIN mem \cup ToSet(Tail(w.todo)) = Named(w)
        BY <2>6, <2>7, <2>8
      <4> QED BY <2>5, <2>11, <4>1, <4>2, <4>3
    <3>3. v.step > 2 => DOMAIN v.mem = Named(v)
      BY <2>5, <2>6, <2>7, <2>8, <2>11, <2>12
    <3> QED BY <1>0, <2>5, <2>10, <2>13, <3>1, <3>2, <3>3 DEF HasRead
  <2>17. Together(t)'
    <3>1. files[w.d] \in past[w.d]
      BY <1>a DEF IInv, Disk
    <3>2. Rechecked(v) = {}
      BY <2>13 DEF Rechecked
    <3> QED BY <1>0, <2>5, <2>13, <3>1, <3>2 DEF Together
  <2>18. Verifying(t)'
    <3>1. /\ w.kind = "methods" => \A m \in DOMAIN w.objects : w.objects[m] = w.run
          /\ w.kind # "methods" => \A m \in DOMAIN out[w.d].objects : out[w.d].objects[m] = w.run
      BY <1>0, <1>a, <1>1 DEF Verifying
    <3> QED BY <1>0, <1>a, <2>5, <2>13, <3>1 DEF Verifying
  <2>19. Thread(t)'
    BY <2>15, <2>16, <2>17, <2>18 DEF Thread
  <2>20. Touches(t)
    BY <1>0, <1>a, <2>1, <2>3 DEF Touches
  <2> QED BY <1>0, <1>a, <2>19, <2>20, Moved
<1> QED BY <1>2, <1>3

(* The steps between the reads and the certificate, other than rechecks.   *)
Forward(t, u, v) ==
  LET w == worker[t] IN
  /\ w.pc = "verify" /\ w.step > 2 /\ Phase(w) \notin {"recheck", "certify"}
  /\ DOMAIN u = WorkerFields /\ \A f \in WorkerFields \ {"checked", "objects"} : u[f] = w[f]
  /\ v \in {Advance(u), Done(u)} /\ worker' = [worker EXCEPT ![t] = v]
  /\ UNCHANGED <<scenario, files, past, clock>>
  /\ DOMAIN out' = Dirs /\ \A e \in Dirs : e # w.d => out'[e] = out[e]
  /\ DOMAIN out'[w.d] = OutputFields /\ out'[w.d].cert = None

(* What moving forward keeps of the thread's record.                       *)
LEMMA ForwardFields ==
  ASSUME IInv, NEW t \in DOMAIN Suite, NEW u, NEW v, Forward(t, u, v)
  PROVE  LET w == worker[t] IN
         /\ worker'[t] = v /\ Touches(t) /\ v.pc = "verify" /\ v.d = w.d /\ v.kind = w.kind
         /\ v.mem = w.mem /\ v.run = w.run /\ v.queue = w.queue /\ v.found = w.found
         /\ v.checked = u.checked /\ v.objects = u.objects
         /\ \/ v.step = w.step + 1 /\ v.todo = Todo(w.kind, w.step + 1, w.mem["config"])
            \/ v.step = w.step
         /\ Phase(w) # "write" => (Beyond(v, "write") <=> Beyond(w, "write"))
         /\ Phase(w) # "manifest" => (Beyond(v, "manifest") <=> Beyond(w, "manifest"))
         /\ Phase(w) # "stage" => (Beyond(v, "stage") <=> Beyond(w, "stage"))
<1> DEFINE w == worker[t]
<1>0. /\ t \in Threads /\ DOMAIN worker = Threads /\ w.d \in Suite[t] /\ w.d \in Dirs
      /\ \A e \in Suite[t] : DOMAIN out[e] = OutputFields
      /\ w.kind \in Backends /\ w.step \in 1..LastStep[w.kind] /\ Suite[t] \subseteq Dirs
  BY Busy, Mine DEF Forward
<1>1. /\ DOMAIN u = WorkerFields /\ u.pc = "verify" /\ u.d = w.d /\ u.kind = w.kind /\ u.mem = w.mem
      /\ u.run = w.run /\ u.queue = w.queue /\ u.found = w.found /\ u.step = w.step
  BY DEF Forward, WorkerFields
<1>2. worker'[t] = v
  BY <1>0 DEF Forward
<1>3. /\ DOMAIN v = WorkerFields /\ \A f \in WorkerFields \ {"step", "todo"} : v[f] = u[f]
      /\ \/ v.step = u.step + 1 /\ v.todo = Todo(u.kind, u.step + 1, u.mem["config"])
         \/ v.step = u.step
  <2>1. CASE v = Advance(u)
    BY <1>1, <2>1, AdvanceFields
  <2>2. CASE v = Done(u)
    BY <1>1, <2>2, DoneFields
  <2> QED BY <2>1, <2>2 DEF Forward
<1>4. /\ v.pc = "verify" /\ v.d = w.d /\ v.kind = w.kind /\ v.mem = w.mem
      /\ v.run = w.run /\ v.queue = w.queue /\ v.found = w.found
      /\ v.checked = u.checked /\ v.objects = u.objects
  BY <1>1, <1>3 DEF WorkerFields
<1>5. \/ v.step = w.step + 1 /\ v.todo = Todo(w.kind, w.step + 1, w.mem["config"])
      \/ v.step = w.step
  BY <1>1, <1>3
<1>6. Touches(t)
  <2>1. \A e \in Suite[t] : DOMAIN out'[e] = OutputFields
    BY <1>0 DEF Forward
  <2>2. \A e \in Dirs \ Suite[t] : out'[e] = out[e]
    BY <1>0 DEF Forward
  <2> QED BY <1>0, <1>2, <1>3, <2>1, <2>2 DEF Touches, Forward
<1>7. v.step \in {w.step, w.step + 1}
  BY <1>5
<1>8. Phase(w) # "write" => (Beyond(v, "write") <=> Beyond(w, "write"))
  <2>1. Phase(w) # "write" => w.step # PlaceOf[w.kind]["write"]
    BY <1>0, Tables
  <2> QED BY <1>0, <1>4, <1>7, <2>1, SamePlace
<1>9. Phase(w) # "manifest" => (Beyond(v, "manifest") <=> Beyond(w, "manifest"))
  <2>1. Phase(w) # "manifest" => w.step # PlaceOf[w.kind]["manifest"]
    BY <1>0, Tables
  <2> QED BY <1>0, <1>4, <1>7, <2>1, SamePlace
<1>10. Phase(w) # "stage" => (Beyond(v, "stage") <=> Beyond(w, "stage"))
  <2>1. Phase(w) # "stage" => w.step # PlaceOf[w.kind]["stage"]
    BY <1>0, Tables
  <2> QED BY <1>0, <1>4, <1>7, <2>1, SamePlace
<1> QED BY <1>2, <1>4, <1>5, <1>6, <1>8, <1>9, <1>10

(* A backend that moves forward has only its outputs left to justify.      *)
LEMMA ForwardStep ==
  ASSUME IInv, NEW t \in DOMAIN Suite, NEW u, NEW v, Forward(t, u, v), Verifying(t)',
         \/ u.checked = worker[t].checked /\ Phase(worker[t]) # "typecheck"
         \/ u.checked = worker[t].mem["source"]
         \/ u.checked = files[worker[t].d]["source"] /\ worker[t].kind = "methods" /\ worker[t].step = 3
  PROVE  IInv'
<1> DEFINE w == worker[t]
<1>0. /\ w.d \in Suite[t] /\ w.kind \in Backends /\ w.step \in 1..LastStep[w.kind] /\ Suite[t] \subseteq Dirs
      /\ w.pc = "verify" /\ w.step > 2
  BY Busy, Mine DEF Forward
<1>1. /\ Phase(w) # "recheck" /\ w.step # PlaceOf[w.kind].recheck /\ w.step # LastStep[w.kind]
      /\ Phase(w) # "typecheck" => w.step # PlaceOf[w.kind].typecheck
  BY <1>0, Tables DEF Forward
<1>2. /\ worker'[t] = v /\ Touches(t) /\ v.pc = "verify" /\ v.d = w.d /\ v.kind = w.kind
      /\ v.mem = w.mem /\ v.queue = w.queue /\ v.found = w.found /\ v.checked = u.checked
      /\ \/ v.step = w.step + 1 /\ v.todo = Todo(w.kind, w.step + 1, w.mem["config"])
         \/ v.step = w.step
  BY ForwardFields
<1>3. \A f \in {"pc", "d", "kind", "mem", "queue", "found"} : worker'[t][f] = w[f]
  BY <1>0, <1>2
<1>4. Below(t)' /\ HasRead(t)' /\ Together(t)'
  BY <1>0, <1>1, <1>2, <1>3, Advancing
<1>5. Thread(t)'
  BY <1>4 DEF Thread
<1>6. (\A e \in Suite[t] \ {w.d} : out'[e] = out[e]) /\ out'[w.d].cert = None
  BY <1>0 DEF Forward
<1> QED BY <1>0, <1>2, <1>5, <1>6, Moved

(* The generated sources are those of the inputs read.                     *)
LEMMA WriteArtifactsStep ==
  ASSUME IInv, NEW t \in DOMAIN Suite, WriteArtifacts(t)
  PROVE  IInv'
<1> DEFINE w == worker[t]
<1>0. /\ w.pc = "verify" /\ Phase(w) = "write" /\ worker' = [worker EXCEPT ![t] = Advance(w)]
      /\ out' = [out EXCEPT ![w.d].sources = w.mem] /\ UNCHANGED <<scenario, files, past, clock>>
  BY DEF WriteArtifacts, At, Set
<1>1. /\ DOMAIN w = WorkerFields /\ w.d \in Dirs /\ DOMAIN out = Dirs /\ DOMAIN out[w.d] = OutputFields
      /\ w.kind \in Backends /\ w.step \in 1..LastStep[w.kind] /\ Verifying(t) /\ out[w.d].cert = None
  BY <1>0, Busy
<1>2. w.step > 2 /\ ~Beyond(w, "manifest") /\ ~Beyond(w, "stage")
  <2>1. w.step = PlaceOf[w.kind].write
    BY <1>0, <1>1, Tables
  <2> QED BY <1>1, <2>1 DEF Backends, PlaceOf, Beyond
<1>3. /\ DOMAIN out' = Dirs /\ DOMAIN out'[w.d] = OutputFields /\ \A e \in Dirs : e # w.d => out'[e] = out[e]
      /\ out'[w.d].sources = w.mem /\ out'[w.d].cert = None /\ out'[w.d].objects = out[w.d].objects
  BY <1>0, <1>1 DEF OutputFields
<1>4. Forward(t, w, Advance(w))
  BY <1>0, <1>1, <1>2, <1>3 DEF Forward
<1>5. LET v == worker'[t] IN
      /\ v.pc = "verify" /\ v.d = w.d /\ v.kind = w.kind /\ v.mem = w.mem /\ v.run = w.run
      /\ v.objects = w.objects /\ ~Beyond(v, "manifest") /\ ~Beyond(v, "stage")
  BY <1>0, <1>2, <1>4, ForwardFields
<1>6. /\ w.kind = "methods" => \A m \in DOMAIN w.objects : w.objects[m] = w.run
      /\ w.kind # "methods" => \A m \in DOMAIN out[w.d].objects : out[w.d].objects[m] = w.run
  BY <1>0, <1>1, <1>2 DEF Verifying
<1>7. Verifying(t)'
  BY <1>3, <1>5, <1>6 DEF Verifying
<1> QED BY <1>0, <1>4, <1>7, ForwardStep

(* rustc sees the sources written, or those on disk.                       *)
LEMMA TypecheckStep ==
  ASSUME IInv, NEW t \in DOMAIN Suite, Typecheck(t)
  PROVE  IInv'
<1> DEFINE w == worker[t]
           checked == IF w.kind = "scalar" THEN out[w.d].sources["source"] ELSE files[w.d]["source"]
           u == [w EXCEPT !.checked = checked]
<1> HIDE DEF checked
<1>0. /\ w.pc = "verify" /\ Phase(w) = "typecheck" /\ worker' = [worker EXCEPT ![t] = Advance(u)]
      /\ UNCHANGED <<scenario, files, past, clock, out>>
  BY DEF Typecheck, At, Set, checked
<1>1. /\ DOMAIN w = WorkerFields /\ w.d \in Dirs /\ DOMAIN out = Dirs /\ DOMAIN out[w.d] = OutputFields
      /\ w.kind \in Backends /\ w.step \in 1..LastStep[w.kind] /\ Verifying(t) /\ out[w.d].cert = None
  BY <1>0, Busy
<1>2. /\ w.step > 2 /\ ~Beyond(w, "stage")
      /\ (w.kind = "scalar" /\ Beyond(w, "write")) \/ (w.kind = "methods" /\ w.step = 3)
  <2>1. w.step = PlaceOf[w.kind].typecheck /\ w.kind \in {"scalar", "methods"}
    BY <1>0, <1>1, Tables
  <2> QED BY <1>1, <2>1 DEF Backends, PlaceOf, Beyond
<1>3. \/ checked = w.mem["source"]
      \/ checked = files[w.d]["source"] /\ w.kind = "methods" /\ w.step = 3
  BY <1>0, <1>1, <1>2 DEF checked, Verifying
<1>4. /\ DOMAIN u = WorkerFields /\ u.checked = checked /\ u.objects = w.objects
      /\ \A f \in WorkerFields \ {"checked"} : u[f] = w[f]
  BY <1>1 DEF WorkerFields
<1> HIDE DEF u
<1>5. Forward(t, u, Advance(u))
  BY <1>0, <1>1, <1>2, <1>4 DEF Forward
<1>6. LET v == worker'[t] IN
      /\ v.pc = "verify" /\ v.d = w.d /\ v.kind = w.kind /\ v.mem = w.mem /\ v.run = w.run
      /\ v.objects = w.objects /\ ~Beyond(v, "stage")
      /\ Beyond(v, "write") <=> Beyond(w, "write")
      /\ Beyond(v, "manifest") <=> Beyond(w, "manifest")
  BY <1>0, <1>2, <1>4, <1>5, ForwardFields
<1>7. Verifying(t)'
  BY <1>0, <1>1, <1>2, <1>6 DEF Verifying
<1> QED BY <1>3, <1>4, <1>5, <1>7, ForwardStep

(* The outputs are compared and stay as they are.                          *)
LEMMA IntactStep ==
  ASSUME IInv, NEW t \in DOMAIN Suite, Intact(t)
  PROVE  IInv'
<1> DEFINE w == worker[t]
<1>0. w.pc = "verify" /\ Phase(w) = "intact" /\ UNCHANGED <<scenario, files, past, clock, out>>
  BY DEF Intact, At
<1>1. CASE worker' = [worker EXCEPT ![t] = Fail(w)]
  BY <1>0, <1>1, Failing DEF Set
<1>2. CASE worker' = [worker EXCEPT ![t] = Advance(w)]
  <2>1. /\ DOMAIN w = WorkerFields /\ w.d \in Dirs /\ DOMAIN out = Dirs /\ DOMAIN out[w.d] = OutputFields
        /\ w.kind \in Backends /\ w.step \in 1..LastStep[w.kind] /\ Verifying(t) /\ out[w.d].cert = None
    BY <1>0, Busy
  <2>2. w.step > 2 /\ ~Beyond(w, "stage")
    <3>1. w.step > 3 /\ w.step < PlaceOf[w.kind].stage
      BY <1>0, <2>1, Tables
    <3> QED BY <2>1, <3>1 DEF Backends, PlaceOf, Beyond
  <2>3. Forward(t, w, Advance(w))
    BY <1>0, <1>2, <2>1, <2>2 DEF Forward
  <2>4. LET v == worker'[t] IN
        /\ v.pc = "verify" /\ v.d = w.d /\ v.kind = w.kind /\ v.mem = w.mem /\ v.run = w.run
        /\ v.objects = w.objects /\ ~Beyond(v, "stage")
        /\ Beyond(v, "write") <=> Beyond(w, "write")
        /\ Beyond(v, "manifest") <=> Beyond(w, "manifest")
    BY <1>0, <2>2, <2>3, ForwardFields
  <2>5. Verifying(t)'
    BY <1>0, <2>1, <2>2, <2>4 DEF Verifying
  <2> QED BY <1>0, <2>3, <2>5, ForwardStep
<1> QED BY <1>1, <1>2 DEF Intact, Set

(* The objects published are this run's.                                   *)
LEMMA PublishObjectsStep ==
  ASSUME IInv, NEW t \in DOMAIN Suite, PublishObjects(t)
  PROVE  IInv'
<1> DEFINE w == worker[t]
<1>0. /\ w.pc = "verify" /\ Phase(w) = "publish" /\ worker' = [worker EXCEPT ![t] = Advance(w)]
      /\ out' = [out EXCEPT ![w.d].objects = w.objects] /\ UNCHANGED <<scenario, files, past, clock>>
  BY DEF PublishObjects, At, Set
<1>1. /\ DOMAIN w = WorkerFields /\ w.d \in Dirs /\ DOMAIN out = Dirs /\ DOMAIN out[w.d] = OutputFields
      /\ w.kind \in Backends /\ w.step \in 1..LastStep[w.kind] /\ Verifying(t) /\ out[w.d].cert = None
  BY <1>0, Busy
<1>2. w.kind = "methods" /\ w.step > 2 /\ ~Beyond(w, "stage")
  <2>1. w.kind = "methods" /\ w.step = 8
    BY <1>0, <1>1, Tables
  <2> QED BY <2>1 DEF PlaceOf, Beyond
<1>3. /\ DOMAIN out' = Dirs /\ DOMAIN out'[w.d] = OutputFields /\ \A e \in Dirs : e # w.d => out'[e] = out[e]
      /\ out'[w.d].cert = None /\ out'[w.d].sources = out[w.d].sources
      /\ out'[w.d].manifest = out[w.d].manifest
  BY <1>0, <1>1 DEF OutputFields
<1>4. Forward(t, w, Advance(w))
  BY <1>0, <1>1, <1>2, <1>3 DEF Forward
<1>5. LET v == worker'[t] IN
      /\ v.pc = "verify" /\ v.d = w.d /\ v.kind = w.kind /\ v.mem = w.mem /\ v.run = w.run
      /\ v.objects = w.objects /\ ~Beyond(v, "stage")
      /\ Beyond(v, "write") <=> Beyond(w, "write")
      /\ Beyond(v, "manifest") <=> Beyond(w, "manifest")
  BY <1>0, <1>2, <1>4, ForwardFields
<1>6. Verifying(t)'
  BY <1>0, <1>1, <1>2, <1>3, <1>5 DEF Verifying
<1> QED BY <1>0, <1>4, <1>6, ForwardStep

(* The manifest names this run and the inputs read.                        *)
LEMMA WriteManifestStep ==
  ASSUME IInv, NEW t \in DOMAIN Suite, WriteManifest(t)
  PROVE  IInv'
<1> DEFINE w == worker[t]
<1>0. /\ w.pc = "verify" /\ Phase(w) = "manifest" /\ worker' = [worker EXCEPT ![t] = Advance(w)]
      /\ out' = [out EXCEPT ![w.d].manifest = [run |-> w.run, inputs |-> w.mem]]
      /\ UNCHANGED <<scenario, files, past, clock>>
  BY DEF WriteManifest, At, Set
<1>1. /\ DOMAIN w = WorkerFields /\ w.d \in Dirs /\ DOMAIN out = Dirs /\ DOMAIN out[w.d] = OutputFields
      /\ w.kind \in Backends /\ w.step \in 1..LastStep[w.kind] /\ Verifying(t) /\ out[w.d].cert = None
  BY <1>0, Busy
<1>2. w.step > 2 /\ ~Beyond(w, "stage")
  <2>1. w.step = PlaceOf[w.kind].manifest /\ w.kind \in {"scalar", "methods"}
    BY <1>0, <1>1, Tables
  <2> QED BY <1>1, <2>1 DEF PlaceOf, Beyond
<1>3. /\ DOMAIN out' = Dirs /\ DOMAIN out'[w.d] = OutputFields /\ \A e \in Dirs : e # w.d => out'[e] = out[e]
      /\ out'[w.d].cert = None /\ out'[w.d].sources = out[w.d].sources
      /\ out'[w.d].objects = out[w.d].objects
      /\ out'[w.d].manifest = [run |-> w.run, inputs |-> w.mem]
  BY <1>0, <1>1 DEF OutputFields
<1>4. Forward(t, w, Advance(w))
  BY <1>0, <1>1, <1>2, <1>3 DEF Forward
<1>5. LET v == worker'[t] IN
      /\ v.pc = "verify" /\ v.d = w.d /\ v.kind = w.kind /\ v.mem = w.mem /\ v.run = w.run
      /\ v.objects = w.objects /\ ~Beyond(v, "stage")
      /\ Beyond(v, "write") <=> Beyond(w, "write")
  BY <1>0, <1>2, <1>4, ForwardFields
<1>6. Verifying(t)'
  BY <1>0, <1>1, <1>2, <1>3, <1>5 DEF Verifying
<1> QED BY <1>0, <1>4, <1>6, ForwardStep

(* The staged certificate is not yet a certificate.                        *)
LEMMA StageCertificateStep ==
  ASSUME IInv, NEW t \in DOMAIN Suite, StageCertificate(t)
  PROVE  IInv'
<1> DEFINE w == worker[t]
<1>0. /\ w.pc = "verify" /\ Phase(w) = "stage" /\ worker' = [worker EXCEPT ![t] = Advance(w)]
      /\ out' = [out EXCEPT ![w.d].staged = Certificate(w)] /\ UNCHANGED <<scenario, files, past, clock>>
  BY DEF StageCertificate, At, Set
<1>1. /\ DOMAIN w = WorkerFields /\ w.d \in Dirs /\ DOMAIN out = Dirs /\ DOMAIN out[w.d] = OutputFields
      /\ w.kind \in Backends /\ w.step \in 1..LastStep[w.kind] /\ Verifying(t) /\ out[w.d].cert = None
  BY <1>0, Busy
<1>2. w.step > 2
  <2>1. w.step = PlaceOf[w.kind].stage
    BY <1>0, <1>1, Tables
  <2> QED BY <1>1, <2>1 DEF Backends, PlaceOf
<1>3. /\ DOMAIN out' = Dirs /\ DOMAIN out'[w.d] = OutputFields /\ \A e \in Dirs : e # w.d => out'[e] = out[e]
      /\ out'[w.d].cert = None /\ out'[w.d].sources = out[w.d].sources
      /\ out'[w.d].objects = out[w.d].objects /\ out'[w.d].manifest = out[w.d].manifest
      /\ out'[w.d].staged = Certificate(w)
  BY <1>0, <1>1 DEF OutputFields
<1>4. Forward(t, w, Advance(w))
  BY <1>0, <1>1, <1>2, <1>3 DEF Forward
<1>5. LET v == worker'[t] IN
      /\ v.pc = "verify" /\ v.d = w.d /\ v.kind = w.kind /\ v.mem = w.mem /\ v.run = w.run
      /\ v.objects = w.objects /\ v.checked = w.checked
      /\ Beyond(v, "write") <=> Beyond(w, "write")
      /\ Beyond(v, "manifest") <=> Beyond(w, "manifest")
  BY <1>0, <1>4, ForwardFields
<1>6. Certificate(worker[t])' = Certificate(w)
  BY <1>3, <1>5 DEF Certificate, Objects
<1>7. Verifying(t)'
  BY <1>0, <1>1, <1>2, <1>3, <1>5, <1>6 DEF Verifying
<1> QED BY <1>0, <1>4, <1>7, ForwardStep

(* Lean adds an object of this run.                                        *)
LEMMA LeanAcceptsStep ==
  ASSUME IInv, NEW t \in DOMAIN Suite, LeanAccepts(t)
  PROVE  IInv'
<1> DEFINE w == worker[t]
           m == Head(w.todo)
           os == [n \in DOMAIN Objects(w) \cup {m} |-> IF n = m THEN w.run ELSE Objects(w)[n]]
           new == IF m = "Check" THEN Objects(w) ELSE os
<1> HIDE DEF new
<1>0. w.pc = "verify" /\ Phase(w) = "lean" /\ UNCHANGED <<scenario, files, past, clock>>
  BY DEF LeanAccepts, At
<1>1. /\ DOMAIN w = WorkerFields /\ w.d \in Dirs /\ DOMAIN out = Dirs /\ DOMAIN out[w.d] = OutputFields
      /\ w.kind \in Backends /\ w.step \in 1..LastStep[w.kind] /\ Verifying(t) /\ out[w.d].cert = None
  BY <1>0, Busy
<1>2. w.step > 2 /\ ~Beyond(w, "stage")
  <2>1. w.step > 3 /\ w.step < PlaceOf[w.kind].recheck
    BY <1>0, <1>1, Tables
  <2> QED BY <1>1, <2>1 DEF Backends, PlaceOf, Beyond
<1>3. \A n \in DOMAIN new : new[n] = w.run
  <2>1. \A n \in DOMAIN Objects(w) : Objects(w)[n] = w.run
    BY <1>0, <1>1, <1>2 DEF Verifying, Objects
  <2> QED BY <2>1 DEF new
<1>4. CASE w.kind = "methods"
  <2> DEFINE u == [w EXCEPT !.objects = new]
  <2>1. worker' = [worker EXCEPT ![t] = Done(u)] /\ out' = out
    BY <1>4 DEF LeanAccepts, Set, new, Objects
  <2>2. DOMAIN u = WorkerFields /\ u.objects = new /\ \A f \in WorkerFields \ {"objects"} : u[f] = w[f]
    BY <1>1 DEF WorkerFields
  <2> HIDE DEF u
  <2>3. Forward(t, u, Done(u))
    BY <1>0, <1>1, <1>2, <2>1, <2>2 DEF Forward
  <2>4. LET v == worker'[t] IN
        /\ v.pc = "verify" /\ v.d = w.d /\ v.kind = w.kind /\ v.mem = w.mem /\ v.run = w.run
        /\ v.objects = new /\ ~Beyond(v, "stage")
        /\ Beyond(v, "write") <=> Beyond(w, "write")
        /\ Beyond(v, "manifest") <=> Beyond(w, "manifest")
    BY <1>0, <1>2, <2>2, <2>3, ForwardFields
  <2>5. Verifying(t)'
    BY <1>0, <1>1, <1>3, <1>4, <2>1, <2>4 DEF Verifying
  <2>6. u.checked = w.checked
    BY <2>2 DEF WorkerFields
  <2> QED BY <1>0, <2>3, <2>5, <2>6, ForwardStep
<1>5. CASE w.kind # "methods"
  <2>1. worker' = [worker EXCEPT ![t] = Done(w)] /\ out' = [out EXCEPT ![w.d].objects = new]
    BY <1>5 DEF LeanAccepts, Set, new, Objects
  <2>2. /\ DOMAIN out' = Dirs /\ DOMAIN out'[w.d] = OutputFields /\ \A e \in Dirs : e # w.d => out'[e] = out[e]
        /\ out'[w.d].cert = None /\ out'[w.d].sources = out[w.d].sources
        /\ out'[w.d].objects = new /\ out'[w.d].manifest = out[w.d].manifest
    BY <1>1, <2>1 DEF OutputFields
  <2>3. Forward(t, w, Done(w))
    BY <1>0, <1>1, <1>2, <2>1, <2>2 DEF Forward
  <2>4. LET v == worker'[t] IN
        /\ v.pc = "verify" /\ v.d = w.d /\ v.kind = w.kind /\ v.mem = w.mem /\ v.run = w.run
        /\ ~Beyond(v, "stage")
        /\ Beyond(v, "write") <=> Beyond(w, "write")
        /\ Beyond(v, "manifest") <=> Beyond(w, "manifest")
    BY <1>0, <1>2, <2>3, ForwardFields
  <2>5. Verifying(t)'
    BY <1>0, <1>1, <1>3, <1>5, <2>2, <2>4 DEF Verifying
  <2> QED BY <1>0, <2>3, <2>5, ForwardStep
<1> QED BY <1>4, <1>5

(* An input that is still as it was read joins those that were rechecked.  *)
LEMMA RecheckStep ==
  ASSUME IInv, NEW t \in DOMAIN Suite, Recheck(t)
  PROVE  IInv'
<1> DEFINE w == worker[t]
           v == worker'[t]
           f == Head(w.todo)
           Same(g) == g \in Rechecked(w) \/ files[w.d][g] = w.mem[g]
<1>0. w.pc = "verify" /\ Phase(w) = "recheck" /\ UNCHANGED <<scenario, files, past, clock, out>>
  BY DEF Recheck, At
<1>1. CASE files[w.d][f] # w.mem[f]
  BY <1>0, <1>1, Failing DEF Recheck
<1>2. CASE files[w.d][f] = w.mem[f]
  <2>1. /\ t \in Threads /\ DOMAIN worker = Threads /\ DOMAIN w = WorkerFields
        /\ w.d \in Suite[t] /\ w.d \in Dirs /\ DOMAIN out = Dirs
        /\ \A e \in Suite[t] : DOMAIN out[e] = OutputFields
        /\ w.kind \in Backends /\ w.step \in 1..LastStep[w.kind] /\ w.queue \in Seq(Suite[t])
        /\ w.found \subseteq Suite[t] /\ HasRead(t) /\ Together(t) /\ Verifying(t)
        /\ out[w.d].cert = None
    BY <1>0, Busy
  <2>2. /\ w.step = PlaceOf[w.kind].recheck /\ PlaceOf[w.kind].recheck \in 3..10
        /\ w.step + 1 \in 1..LastStep[w.kind] /\ w.step > 2
        /\ w.step # PlaceOf[w.kind]["write"] /\ w.step # PlaceOf[w.kind]["typecheck"]
        /\ w.step # PlaceOf[w.kind]["manifest"] /\ w.step # PlaceOf[w.kind]["stage"]
    BY <1>0, <2>1, Tables
  <2>3. v = Done(w) /\ DOMAIN v = WorkerFields /\ worker' = [worker EXCEPT ![t] = v]
    BY <1>2, <2>1, DoneFields DEF Recheck, Set
  <2>4. \A g \in WorkerFields \ {"step", "todo"} : v[g] = w[g]
    BY <2>1, <2>3, DoneFields
  <2>5. /\ v.mem = w.mem /\ v.pc = "verify" /\ v.kind = w.kind /\ v.d = w.d /\ v.run = w.run
        /\ v.objects = w.objects /\ v.queue = w.queue /\ v.found = w.found /\ v.checked = w.checked
    BY <1>0, <2>4 DEF WorkerFields
  <2>6. /\ Len(w.todo) = 1 => v.step = w.step + 1
        /\ Len(w.todo) # 1 => v.step = w.step /\ v.todo = Tail(w.todo)
    BY <2>1, <2>3, DoneFields
  <2>7. /\ "config" \in DOMAIN w.mem /\ Parses(w.kind, w.mem["config"])
        /\ \A g \in DOMAIN w.mem : w.mem[g].v \in Int /\ w.mem[g].v < clock
        /\ w.todo \in Seq(Inputs) /\ w.todo # <<>> /\ DOMAIN w.mem = Named(w)
    BY <1>0, <2>1, <2>2 DEF HasRead
  <2>8. /\ Tail(w.todo) \in Seq(Inputs) /\ ToSet(w.todo) = {f} \cup ToSet(Tail(w.todo))
        /\ Len(w.todo) = 1 => ToSet(w.todo) = {f}
        /\ Len(w.todo) # 1 => Tail(w.todo) # <<>>
    BY <2>7, HeadAndTail
  <2>9. Named(v) = Named(w)
    BY <2>5 DEF Named
  <2>10. Suite' = Suite
    BY <1>0 DEF Suite, Bounds
  <2>11. v.step \in {w.step, w.step + 1} /\ v.step \in 1..LastStep[w.kind] /\ v.step > 2
    BY <2>1, <2>2, <2>6
  <2>12. Below(t)'
    BY <2>1, <2>5, <2>10, <2>11 DEF Below
  <2>13. HasRead(t)'
    <3>1. v.step = PlaceOf[v.kind].recheck => v.todo \in Seq(Inputs) /\ v.todo # <<>>
      <4>1. v.step = PlaceOf[v.kind].recheck => Len(w.todo) # 1
        BY <2>2, <2>5, <2>6
      <4> QED BY <2>6, <2>8, <4>1
    <3> QED BY <1>0, <2>5, <2>7, <2>9, <2>11, <3>1 DEF HasRead
  <2>14. ASSUME NEW g \in Rechecked(v) PROVE Same(g)
    <3>1. Rechecked(w) = Named(w) \ ToSet(w.todo)
      BY <2>2 DEF Rechecked, Beyond
    <3>2. CASE Len(w.todo) = 1
      <4>1. Rechecked(v) = Named(w)
        BY <2>2, <2>5, <2>6, <2>9, <3>2 DEF Rechecked, Beyond
      <4> QED BY <1>2, <2>8, <3>1, <3>2, <4>1
    <3>3. CASE Len(w.todo) # 1
      <4>1. Rechecked(v) = Named(w) \ ToSet(Tail(w.todo))
        BY <2>2, <2>5, <2>6, <2>9, <3>3 DEF Rechecked, Beyond
      <4> QED BY <1>2, <2>8, <3>1, <3>3, <4>1
    <3> QED BY <3>2, <3>3
  <2>15. Together(t)'
    <3>1. PICK p \in past[w.d] : \A g \in Named(w) : Same(g) => p[g] = w.mem[g]
      BY <1>0, <2>1, <2>2 DEF Together
    <3>2. Beyond(w, "typecheck") => (Same("source") => w.checked = w.mem["source"])
      BY <1>0, <2>1 DEF Together
    <3>3. Beyond(v, "typecheck") <=> Beyond(w, "typecheck")
      BY <2>1, <2>2, <2>5, <2>11, SamePlace
    <3>4. \A g \in Named(v) : (g \in Rechecked(v) \/ files[w.d][g] = w.mem[g]) => p[g] = w.mem[g]
      BY <2>9, <2>14, <3>1
    <3>5. Beyond(v, "typecheck") =>
            ("source" \in Rechecked(v) \/ files[w.d]["source"] = w.mem["source"] => w.checked = w.mem["source"])
      BY <2>14, <3>2, <3>3
    <3> QED BY <1>0, <2>5, <3>4, <3>5 DEF Together
  <2>16. Verifying(t)'
    <3>1. /\ Beyond(v, "write") <=> Beyond(w, "write")
          /\ Beyond(v, "manifest") <=> Beyond(w, "manifest")
      BY <2>1, <2>2, <2>5, <2>11, SamePlace
    <3>2. ~Beyond(v, "stage")
      <4>1. ~Beyond(w, "stage")
        BY <2>1, <2>2 DEF Backends, PlaceOf, Beyond
      <4> QED BY <2>1, <2>2, <2>5, <2>11, <4>1, SamePlace
    <3> QED BY <1>0, <2>1, <2>2, <2>5, <3>1, <3>2 DEF Verifying
  <2>17. Thread(t)'
    BY <2>12, <2>13, <2>15, <2>16 DEF Thread
  <2>18. Touches(t)
    BY <1>0, <2>1, <2>3 DEF Touches
  <2> QED BY <1>0, <2>1, <2>17, <2>18, Moved
<1> QED BY <1>1, <1>2

(* The staged certificate becomes the certificate, and is true.            *)
LEMMA CertifyStep ==
  ASSUME IInv, NEW t \in DOMAIN Suite, Certify(t)
  PROVE  IInv'
<1> DEFINE w == worker[t]
           o == out[w.d]
           v == [w EXCEPT !.pc = "next"]
<1>0. /\ w.pc = "verify" /\ Phase(w) = "certify" /\ UNCHANGED <<scenario, files, past, clock>>
      /\ out' = [out EXCEPT ![w.d].cert = o.staged, ![w.d].staged = None]
      /\ worker' = [worker EXCEPT ![t] = v]
  BY DEF Certify, At, Set
<1>1. /\ t \in Threads /\ DOMAIN worker = Threads /\ DOMAIN w = WorkerFields
      /\ w.d \in Suite[t] /\ w.d \in Dirs /\ DOMAIN out = Dirs /\ DOMAIN o = OutputFields
      /\ \A e \in Suite[t] : DOMAIN out[e] = OutputFields
      /\ w.kind \in Backends /\ w.step \in 1..LastStep[w.kind] /\ w.queue \in Seq(Suite[t])
      /\ w.found \subseteq Suite[t] /\ HasRead(t) /\ Together(t) /\ Verifying(t)
  BY <1>0, Busy
<1>2. /\ w.step = LastStep[w.kind] /\ LastStep[w.kind] \in {8, 10, 11}
      /\ Beyond(w, "write") /\ Beyond(w, "recheck") /\ Beyond(w, "stage")
      /\ w.kind # "specification" => Beyond(w, "typecheck") /\ Beyond(w, "manifest")
  BY <1>0, <1>1, Tables
<1>3. /\ DOMAIN v = WorkerFields /\ v.pc = "next" /\ v.queue = w.queue /\ v.found = w.found
      /\ worker'[t] = v
  BY <1>0, <1>1 DEF WorkerFields
<1>4. /\ DOMAIN out' = Dirs /\ DOMAIN out'[w.d] = OutputFields /\ \A e \in Dirs : e # w.d => out'[e] = out[e]
      /\ out'[w.d].cert = Certificate(w) /\ out'[w.d].sources = o.sources
      /\ out'[w.d].manifest = o.manifest
  <2>1. o.staged = Certificate(w)
    BY <1>0, <1>1, <1>2 DEF Verifying
  <2> QED BY <1>0, <1>1, <2>1 DEF OutputFields
<1>5. Touches(t)
  BY <1>0, <1>1, <1>3, <1>4, Mine DEF Touches
<1>6. Thread(t)'
  BY <1>0, <1>1, <1>3, NotVerifying
<1>7. ASSUME NEW e, e = w.d PROVE Truthful(e)'
  <2>1. /\ o.sources = w.mem
        /\ w.kind # "specification" => o.manifest = [run |-> w.run, inputs |-> w.mem]
        /\ \A m \in DOMAIN Objects(w) : Objects(w)[m] = w.run
    BY <1>0, <1>1, <1>2 DEF Verifying, Objects
  <2>2. DOMAIN w.mem = Named(w) /\ Parses(w.kind, w.mem["config"])
    BY <1>0, <1>1, <1>2 DEF HasRead
  <2>3. Rechecked(w) = Named(w)
    BY <1>2 DEF Rechecked
  <2>4. \E p \in past[w.d] : \A f \in DOMAIN w.mem : p[f] = w.mem[f]
    BY <1>0, <1>1, <1>2, <2>2, <2>3 DEF Together
  <2>5. w.kind # "specification" => w.checked = w.mem["source"]
    <3>1. w.kind # "specification" => "source" \in Rechecked(w)
      BY <1>1, <2>2, <2>3, Work
    <3> QED BY <1>0, <1>1, <1>2, <3>1 DEF Together
  <2>6. LET cert == Certificate(w) IN
        /\ cert.run = w.run /\ cert.kind = w.kind /\ cert.inputs = w.mem /\ cert.checked = w.checked
        /\ cert.objects = Objects(w) /\ cert.manifest = o.manifest
    BY DEF Certificate
  <2>7. past'[e] = past[w.d] /\ out'[e] = out'[w.d]
    BY <1>0, <1>7
  <2> QED BY <1>4, <2>1, <2>4, <2>5, <2>6, <2>7 DEF Truthful
<1>8. ASSUME NEW e \in Suite[t], e # w.d PROVE Truthful(e)'
  <2>1. e \in Dirs
    BY Mine
  <2> QED BY <1>0, <1>4, <1>8, <2>1, StillTruthful
<1> QED BY <1>5, <1>6, <1>7, <1>8, OwnStep

-----------------------------------------------------------------------------
(* A step that touches neither files nor threads.                          *)
LEMMA Unmoved ==
  ASSUME IInv, UNCHANGED <<scenario, files, past, clock, out, worker>>
  PROVE  IInv'
<1>1. Suite' = Suite /\ Dirs' = Dirs
  BY DEF Suite, Dirs, Bounds
<1>2. Shape' /\ Disk'
  BY <1>1 DEF IInv, Shape, Disk
<1>3. ASSUME NEW t \in DOMAIN Suite PROVE Thread(t)'
  <2>1. Thread(t)
    BY DEF IInv
  <2>2. Below(t)' /\ HasRead(t)' /\ Together(t)'
    BY <1>1, <2>1 DEF Thread, Below, HasRead, Together
  <2>3. Verifying(t)'
    BY <2>1 DEF Thread, Verifying, Certificate, Objects
  <2> QED BY <2>2, <2>3 DEF Thread
<1>4. ASSUME NEW d \in Dirs PROVE Truthful(d)'
  BY DEF IInv, Truthful, Certified
<1> QED BY <1>1, <1>2, <1>3, <1>4 DEF IInv

(* Every step keeps the invariant.                                         *)
LEMMA Steps ==
  ASSUME IInv, [Next]_vars
  PROVE  IInv'
<1>1. CASE \E d \in Dirs, f \in Inputs : Edit(d, f)
  BY <1>1, Editing
<1>2. CASE Crash
  BY <1>2, Killing
<1>3. ASSUME NEW t \in DOMAIN Suite,
             StartSuite(t) \/ (\E d \in Suite[t] : StartProject(t, d)) \/ SuiteStep(t)
      PROVE  IInv'
  BY <1>3, SuiteSteps, DispatchStep DEF SuiteStep
<1>4. ASSUME NEW t \in DOMAIN Suite, BackendStep(t) PROVE IInv'
  <2>1. CASE Abort(t)
    BY <2>1, Failing DEF Abort
  <2>2. CASE LeanRejects(t)
    BY <2>2, Failing DEF LeanRejects
  <2>3. CASE LeanStart(t)
    BY <2>3, Unmoved DEF LeanStart
  <2> QED BY <1>4, <2>1, <2>2, <2>3, ReadConfigStep, ReadInputStep, WriteArtifactsStep, TypecheckStep,
             LeanAcceptsStep, RecheckStep, IntactStep, PublishObjectsStep, WriteManifestStep,
             StageCertificateStep, CertifyStep DEF BackendStep
<1>5. CASE UNCHANGED vars
  BY <1>5, Unmoved DEF vars
<1> QED BY <1>1, <1>2, <1>3, <1>4, <1>5 DEF Next

(* What a certificate says is true of the evidence beside it, of inputs    *)
(* that existed together and of the objects that Lean imported, for any    *)
(* number of threads, projects, edits, kills and runs (project.rs: verify, *)
(* recheck; methods.rs; specification.rs).                                 *)
THEOREM CertificatesAreTrue == Spec => []CertificatesTrue
<1>1. IInv /\ [Next]_vars => IInv'
  BY Steps
<1>2. IInv => CertificatesTrue
  BY DEF IInv, Truthful, CertificatesTrue, CertificateMatchesEvidence, CertifiedTogether, OwnObjects
<1> QED BY <1>1, <1>2, Starting, PTL DEF Spec

-----------------------------------------------------------------------------
(***************************************************************************)
(* A suite that got past its cleaning leaves no success of an earlier run,  *)
(* and no verification claims a success that it did not certify, for any   *)
(* threads, suites, backends, edits, failures, kills and numbers of runs.  *)
(*                                                                         *)
(* Certificates of one suite change in three places only: they are taken   *)
(* away while the suite is cleaned, when a project is invalidated, and     *)
(* given by Certify to the project that the thread verifies.  So what was  *)
(* cleaned stays without certificate until this run gives one, and a       *)
(* project that is neither queued nor being verified has got its own.      *)
(* A run that failed while it cleaned has neither cleaned nor succeeded.   *)
(***************************************************************************)
(* The projects that a thread has still to certify.                        *)
Left(w) == ToSet(w.queue) \cup (IF w.pc = "verify" THEN {w.d} ELSE {})

(* How far the suite of a thread has come.                                 *)
Cleaned(t) ==
  LET w == worker[t] IN
  /\ w.pc \in {"idle", "clean"} => ~w.cleaned
  /\ w.pc = "clean" => \A d \in Suite[t] \ ToSet(w.queue) : ~Certified(d)
  /\ w.cleaned => \A d \in Suite[t] : Certified(d) => out[d].cert.run = w.run
  /\ w.whole /\ w.ok => w.cleaned

(* What the result of the verification rests on.                           *)
Claimed(t) ==
  LET w == worker[t] IN
  /\ w.pc \in {"idle", "clean", "discover", "prepare"} => ~w.ok
  /\ w.pc \in {"discover", "prepare"} => w.cleaned
  /\ w.pc = "prepare" => w.found \subseteq ToSet(w.queue) /\ w.found # {}
  /\ w.ok /\ w.pc = "ended" => w.queue = <<>>
  /\ w.ok => w.found # {} /\ \A d \in w.found \ Left(w) : Certified(d) /\ out[d].cert.run = w.run

(* The suites of all threads.                                              *)
SInv == \A t \in DOMAIN Suite : Cleaned(t) /\ Claimed(t)

-----------------------------------------------------------------------------
(* Other threads' suites are not touched by a step of thread t.            *)
LEMMA OwnSuite ==
  ASSUME IInv, SInv, NEW t \in DOMAIN Suite, Touches(t), Cleaned(t)', Claimed(t)'
  PROVE  SInv'
<1>1. Suite' = Suite
  BY DEF Touches, Suite, Bounds
<1>2. ASSUME NEW s \in DOMAIN Suite, s # t PROVE Cleaned(s)' /\ Claimed(s)'
  <2>1. Suite[s] \cap Suite[t] = {}
    BY <1>2, SuitesAreDisjoint DEF IInv, Shape, Suite, Bounds
  <2>2. s \in Threads /\ Suite[s] \subseteq Dirs /\ Thread(s)
    BY Mine
  <2>3. worker'[s] = worker[s] /\ \A d \in Suite[s] : out'[d] = out[d]
    BY <1>2, <2>1, <2>2 DEF Touches
  <2>4. worker[s].found \subseteq Suite[s]
    BY <2>2 DEF Thread, Below
  <2>5. Cleaned(s)'
    BY <1>1, <2>3 DEF SInv, Cleaned, Certified
  <2>6. Claimed(s)'
    BY <2>3, <2>4 DEF SInv, Claimed, Certified
  <2> QED BY <2>5, <2>6
<1> QED BY <1>1, <1>2 DEF SInv

(* What a backend keeps of its thread's record.                            *)
Core == {"pc", "run", "ok", "whole", "cleaned", "found", "queue", "d"}

(* Going on to the next item or phase keeps the core.                      *)
LEMMA Kept ==
  ASSUME NEW w, NEW u, DOMAIN u = WorkerFields, \A f \in Core : u[f] = w[f],
         NEW v \in {Advance(u), Done(u)}
  PROVE  DOMAIN v = WorkerFields /\ \A f \in Core : v[f] = w[f]
<1>1. Core \subseteq WorkerFields \ {"step", "todo"}
  BY DEF Core, WorkerFields
<1>2. CASE v = Advance(u)
  BY <1>1, <1>2, AdvanceFields
<1>3. CASE v = Done(u)
  BY <1>1, <1>3, DoneFields
<1> QED BY <1>2, <1>3

(* A step that gives or takes no certificate and keeps the record's core.  *)
LEMMA Quiet ==
  ASSUME IInv, SInv, NEW t \in DOMAIN Suite, Touches(t),
         \A f \in Core : worker'[t][f] = worker[t][f],
         \A d \in Suite[t] : out'[d].cert = out[d].cert
  PROVE  SInv'
<1>0. worker[t].found \subseteq Suite[t] /\ Suite' = Suite
  <2>1. worker[t].found \subseteq Suite[t]
    BY Mine DEF Thread, Below
  <2> QED BY <2>1 DEF Touches, Suite, Bounds
<1>1. LET w == worker[t] v == worker'[t] IN
      /\ v.pc = w.pc /\ v.run = w.run /\ v.ok = w.ok /\ v.whole = w.whole /\ v.found = w.found
      /\ v.cleaned = w.cleaned /\ v.queue = w.queue /\ v.d = w.d
  BY DEF Core
<1>2. Left(worker'[t]) = Left(worker[t])
  BY <1>1 DEF Left
<1>3. Cleaned(t)'
  BY <1>0, <1>1 DEF SInv, Cleaned, Certified
<1>4. Claimed(t)'
  BY <1>0, <1>1, <1>2 DEF SInv, Claimed, Certified
<1> QED BY <1>3, <1>4, OwnSuite

(* A failure claims nothing and keeps, or takes away, certificates.        *)
LEMMA Failed ==
  ASSUME IInv, SInv, NEW t \in DOMAIN Suite, Resting(t, Fail(worker[t]))
  PROVE  SInv'
<1>0. Touches(t) /\ worker'[t] = Fail(worker[t]) /\ Suite' = Suite /\ Suite[t] \subseteq Dirs
  <2>1. Touches(t) /\ worker'[t] = Fail(worker[t]) /\ Suite[t] \subseteq Dirs
    BY Mine DEF Resting, Touches
  <2> QED BY <2>1 DEF Touches, Suite, Bounds
<1>1. LET w == worker[t] v == worker'[t] IN v.pc = "ended" /\ ~v.ok /\ v.run = w.run /\ v.cleaned = w.cleaned
  BY <1>0, FailFields
<1>2. \A d \in Suite[t] : Certified(d)' => Certified(d) /\ out'[d].cert = out[d].cert
  BY <1>0 DEF Resting, Certified
<1>3. Cleaned(t)'
  BY <1>0, <1>1, <1>2 DEF SInv, Cleaned
<1>4. Claimed(t)'
  BY <1>1 DEF Claimed
<1> QED BY <1>0, <1>3, <1>4, OwnSuite

(* The files and the threads of a suite stand as they were.                *)
LEMMA Still ==
  ASSUME IInv, SInv, UNCHANGED <<scenario, out, worker>>
  PROVE  SInv'
<1>1. Suite' = Suite
  BY DEF Suite, Bounds
<1> QED BY <1>1 DEF SInv, Cleaned, Claimed, Certified

(* A backend gives a certificate only to the project it verifies.          *)
LEMMA BackendKeeps ==
  ASSUME IInv, SInv, NEW t \in DOMAIN Suite, BackendStep(t)
  PROVE  SInv'
<1> DEFINE w == worker[t]
<1>a. BackendStep(t) => w.pc = "verify"
  BY DEF BackendStep, Abort, ReadConfig, ReadInput, WriteArtifacts, Typecheck, LeanStart, LeanAccepts,
         LeanRejects, Recheck, Intact, PublishObjects, WriteManifest, StageCertificate, Certify, At
<1>0. /\ w.pc = "verify" /\ t \in Threads /\ DOMAIN worker = Threads /\ DOMAIN w = WorkerFields
      /\ w.d \in Suite[t] /\ w.d \in Dirs /\ DOMAIN out = Dirs /\ DOMAIN out[w.d] = OutputFields
      /\ out[w.d].cert = None /\ Suite[t] \subseteq Dirs
      /\ \A d \in Suite[t] : DOMAIN out[d] = OutputFields
      /\ w.kind \in Backends /\ w.step \in 1..LastStep[w.kind] /\ w.queue \in Seq(Suite[t])
      /\ w.found \subseteq Suite[t] /\ Verifying(t)
  BY <1>a, Busy, Mine
<1>1. ASSUME Set(t, Fail(w)), UNCHANGED <<scenario, files, past, clock, out>>
      PROVE  SInv'
  <2>1. Resting(t, Fail(w))
    BY <1>0, <1>1, FailFields DEF Resting, Set
  <2> QED BY <2>1, Failed
<1>2. ASSUME NEW u, DOMAIN u = WorkerFields, \A f \in Core : u[f] = w[f],
             Set(t, Advance(u)) \/ Set(t, Done(u)), UNCHANGED <<scenario, files, past, clock>>,
             DOMAIN out' = Dirs, \A e \in Dirs : e # w.d => out'[e] = out[e],
             DOMAIN out'[w.d] = OutputFields, out'[w.d].cert = None
      PROVE  SInv'
  <2>1. PICK v \in {Advance(u), Done(u)} : worker' = [worker EXCEPT ![t] = v]
    BY <1>2 DEF Set
  <2>2. DOMAIN v = WorkerFields /\ \A f \in Core : v[f] = w[f]
    BY <1>2, Kept
  <2>3. worker'[t] = v
    BY <1>0, <2>1
  <2>4. Touches(t)
    BY <1>0, <1>2, <2>1, <2>2, <2>3 DEF Touches
  <2>5. \A d \in Suite[t] : out'[d].cert = out[d].cert
    BY <1>0, <1>2
  <2> QED BY <2>2, <2>3, <2>4, <2>5, Quiet
<1>3. CASE Abort(t)
  BY <1>1, <1>3 DEF Abort
<1>4. CASE LeanRejects(t)
  BY <1>1, <1>4 DEF LeanRejects
<1>5. CASE LeanStart(t)
  BY <1>5, Still DEF LeanStart
<1>6. CASE ReadConfig(t)
  <2> DEFINE c == files[w.d]["config"]
             o == ClearObjects(Invalidate(out[w.d]), w.kind)
             u == [w EXCEPT !.mem = [config |-> c]]
  <2>1. DOMAIN o = OutputFields /\ o.cert = None
    <3>1. DOMAIN Invalidate(out[w.d]) = OutputFields /\ Invalidate(out[w.d]).cert = None
      BY <1>0, InvalidateFields
    <3> QED BY <3>1 DEF ClearObjects, OutputFields
  <2>2. out' = [out EXCEPT ![w.d] = o] /\ UNCHANGED <<scenario, files, past, clock>>
    BY <1>6 DEF ReadConfig
  <2>3. /\ DOMAIN out' = Dirs /\ \A e \in Dirs : e # w.d => out'[e] = out[e]
        /\ DOMAIN out'[w.d] = OutputFields /\ out'[w.d].cert = None
    BY <1>0, <2>1, <2>2
  <2>4. CASE Set(t, Fail(w))
    <3>1. Resting(t, Fail(w))
      BY <1>0, <2>2, <2>3, <2>4, FailFields DEF Resting, Set
    <3> QED BY <3>1, Failed
  <2>5. CASE Set(t, Advance(u))
    <3>1. DOMAIN u = WorkerFields /\ \A f \in Core : u[f] = w[f]
      BY <1>0 DEF WorkerFields, Core
    <3> QED BY <1>2, <2>2, <2>3, <2>5, <3>1
  <2> QED BY <1>6, <2>4, <2>5 DEF ReadConfig, Set
<1>7. CASE ReadInput(t)
  <2> DEFINE f == Head(w.todo)
             c == files[w.d][f]
             u == [w EXCEPT !.mem = [g \in DOMAIN @ \cup {f} |-> IF g = f THEN c ELSE @[g]]]
  <2>1. UNCHANGED <<scenario, files, past, clock, out>>
    BY <1>7 DEF ReadInput
  <2>2. CASE Set(t, Fail(w))
    BY <1>1, <2>1, <2>2
  <2>3. CASE Set(t, Done(u))
    <3>1. DOMAIN u = WorkerFields /\ \A g \in Core : u[g] = w[g]
      BY <1>0 DEF WorkerFields, Core
    <3> QED BY <1>0, <1>2, <2>1, <2>3, <3>1
  <2> QED BY <1>7, <2>2, <2>3 DEF ReadInput, Set
<1>8. CASE Typecheck(t)
  <2> DEFINE c == IF w.kind = "scalar" THEN out[w.d].sources["source"] ELSE files[w.d]["source"]
             u == [w EXCEPT !.checked = c]
  <2>1. DOMAIN u = WorkerFields /\ \A f \in Core : u[f] = w[f]
    BY <1>0 DEF WorkerFields, Core
  <2> QED BY <1>0, <1>2, <1>8, <2>1 DEF Typecheck
<1>9. CASE Recheck(t) \/ Intact(t)
  <2>1. UNCHANGED <<scenario, files, past, clock, out>>
    BY <1>9 DEF Recheck, Intact
  <2>2. Set(t, Fail(w)) \/ Set(t, Done(w)) \/ Set(t, Advance(w))
    BY <1>9 DEF Recheck, Intact
  <2> QED BY <1>0, <1>1, <1>2, <2>1, <2>2
<1>10. CASE WriteArtifacts(t)
  BY <1>0, <1>2, <1>10 DEF WriteArtifacts, OutputFields
<1>11. CASE PublishObjects(t)
  BY <1>0, <1>2, <1>11 DEF PublishObjects, OutputFields
<1>12. CASE WriteManifest(t)
  BY <1>0, <1>2, <1>12 DEF WriteManifest, OutputFields
<1>13. CASE StageCertificate(t)
  BY <1>0, <1>2, <1>13 DEF StageCertificate, OutputFields
<1>14. CASE LeanAccepts(t)
  <2>1. UNCHANGED <<scenario, files, past, clock>>
    BY <1>14 DEF LeanAccepts
  <2>2. CASE w.kind = "methods"
    <3>1. PICK os : Set(t, Done([w EXCEPT !.objects = os])) /\ out' = out
      BY <1>14, <2>2 DEF LeanAccepts
    <3> DEFINE u == [w EXCEPT !.objects = os]
    <3>2. DOMAIN u = WorkerFields /\ \A f \in Core : u[f] = w[f]
      BY <1>0 DEF WorkerFields, Core
    <3> QED BY <1>0, <1>2, <2>1, <3>1, <3>2
  <2>3. CASE w.kind # "methods"
    <3>1. PICK os : out' = [out EXCEPT ![w.d].objects = os]
      BY <1>14, <2>3 DEF LeanAccepts
    <3>2. Set(t, Done(w))
      BY <1>14, <2>3 DEF LeanAccepts
    <3> QED BY <1>0, <1>2, <2>1, <3>1, <3>2 DEF OutputFields
  <2> QED BY <2>2, <2>3
<1>15. CASE Certify(t)
  <2> DEFINE v == [w EXCEPT !.pc = "next"]
  <2>1. /\ Phase(w) = "certify" /\ UNCHANGED <<scenario, files, past, clock>>
        /\ out' = [out EXCEPT ![w.d].cert = out[w.d].staged, ![w.d].staged = None]
        /\ worker' = [worker EXCEPT ![t] = v]
    BY <1>15 DEF Certify, At, Set
  <2>2. Beyond(w, "stage")
    BY <1>0, <2>1, Tables
  <2>3. out[w.d].staged = Certificate(w)
    BY <1>0, <2>2 DEF Verifying
  <2>4. Certificate(w).run = w.run /\ Certificate(w) # None
    BY DEF Certificate, None
  <2>5. /\ DOMAIN out' = Dirs /\ \A e \in Dirs : e # w.d => out'[e] = out[e]
        /\ DOMAIN out'[w.d] = OutputFields /\ out'[w.d].cert = Certificate(w)
    BY <1>0, <2>1, <2>3 DEF OutputFields
  <2>6. /\ DOMAIN v = WorkerFields /\ v.pc = "next" /\ v.run = w.run /\ v.ok = w.ok /\ v.whole = w.whole
        /\ v.cleaned = w.cleaned /\ v.found = w.found /\ v.queue = w.queue /\ worker'[t] = v
    BY <1>0, <2>1 DEF WorkerFields
  <2>7. Touches(t) /\ Suite' = Suite
    BY <1>0, <2>1, <2>5, <2>6 DEF Touches, Suite, Bounds
  <2>8. Cleaned(t)'
    BY <1>0, <2>4, <2>5, <2>6, <2>7 DEF SInv, Cleaned, Certified
  <2>9. Claimed(t)'
    <3>1. Left(w) = Left(worker'[t]) \cup {w.d}
      BY <1>0, <2>6 DEF Left
    <3> QED BY <1>0, <2>4, <2>5, <2>6, <3>1 DEF SInv, Claimed, Certified
  <2> QED BY <2>7, <2>8, <2>9, OwnSuite
<1> QED BY <1>3, <1>4, <1>5, <1>6, <1>7, <1>8, <1>9, <1>10, <1>11, <1>12, <1>13, <1>14, <1>15
        DEF BackendStep

(* The steps of the suite itself.                                          *)
LEMMA SuiteAdvances ==
  ASSUME IInv, SInv, NEW t \in DOMAIN Suite,
         StartSuite(t) \/ (\E d \in Suite[t] : StartProject(t, d)) \/ SuiteStep(t)
  PROVE  SInv'
<1> DEFINE w == worker[t]
           v == worker'[t]
<1>0. /\ t \in Threads /\ DOMAIN worker = Threads /\ DOMAIN w = WorkerFields
      /\ w.queue \in Seq(Suite[t]) /\ w.found \subseteq Suite[t]
      /\ DOMAIN out = Dirs /\ Suite[t] \subseteq Dirs /\ \A d \in Dirs : DOMAIN out[d] = OutputFields
      /\ Cleaned(t) /\ Claimed(t) /\ IsFiniteSet(Suite[t])
  BY Mine DEF Thread, Below, SInv
<1>1. CASE StartSuite(t)
  <2>1. PICK order \in SetToSeqs(Suite[t]) :
          /\ worker' = [worker EXCEPT ![t] = [Idle EXCEPT !.pc = "clean", !.run = runs + 1,
                                                         !.whole = TRUE, !.queue = order]]
          /\ UNCHANGED <<scenario, files, past, clock, out>>
    BY <1>1 DEF StartSuite, Set
  <2>2. DOMAIN v = WorkerFields /\ v.pc = "clean" /\ v.queue = order /\ ~v.ok /\ ~v.cleaned
    BY <1>0, <2>1 DEF Idle, WorkerFields
  <2>3. ToSet(v.queue) = Suite[t]
    BY <1>0, <2>2, OrdersListAll
  <2>4. Touches(t) /\ Suite' = Suite
    BY <1>0, <2>1, <2>2 DEF Touches, Suite, Bounds
  <2>5. Cleaned(t)' /\ Claimed(t)'
    BY <2>2, <2>3, <2>4 DEF Cleaned, Claimed
  <2> QED BY <2>4, <2>5, OwnSuite
<1>2. CASE \E d \in Suite[t] : StartProject(t, d)
  <2>1. PICK d \in Suite[t] :
          /\ worker' = [worker EXCEPT ![t] = [Idle EXCEPT !.pc = "next", !.run = runs + 1,
                                                          !.ok = TRUE, !.found = {d}, !.queue = <<d>>]]
          /\ UNCHANGED <<scenario, files, past, clock, out>>
    BY <1>2 DEF StartProject, Set
  <2>2. DOMAIN v = WorkerFields /\ v.pc = "next" /\ ~v.whole /\ ~v.cleaned /\ v.found = {d} /\ v.queue = <<d>>
    BY <1>0, <2>1 DEF Idle, WorkerFields
  <2>3. Touches(t)
    BY <1>0, <2>1, <2>2 DEF Touches
  <2>4. Left(v) = {d}
    BY <2>2 DEF Left, ToSet
  <2>5. Cleaned(t)' /\ Claimed(t)'
    BY <2>2, <2>4 DEF Cleaned, Claimed
  <2> QED BY <2>3, <2>5, OwnSuite
<1>3. CASE RemoveCertificates(t)
  <2>0. w.pc = "clean" /\ UNCHANGED <<scenario, files, past, clock>> /\ ~w.ok
    BY <1>0, <1>3 DEF RemoveCertificates, Claimed
  <2>1. CASE w.queue = <<>>
    <3>1. worker' = [worker EXCEPT ![t] = [w EXCEPT !.pc = "discover", !.cleaned = TRUE]] /\ out' = out
      BY <1>3, <2>1 DEF RemoveCertificates, Set
    <3>2. /\ DOMAIN v = WorkerFields /\ v.pc = "discover" /\ v.cleaned /\ v.run = w.run /\ v.ok = w.ok
      BY <1>0, <3>1 DEF WorkerFields
    <3>3. Touches(t) /\ Suite' = Suite
      BY <1>0, <2>0, <3>1, <3>2 DEF Touches, Suite, Bounds
    <3>4. \A d \in Suite[t] : ~Certified(d)
      BY <1>0, <2>0, <2>1, NoElements DEF Cleaned
    <3>5. Cleaned(t)' /\ Claimed(t)'
      BY <2>0, <3>1, <3>2, <3>3, <3>4 DEF Cleaned, Claimed, Certified
    <3> QED BY <3>3, <3>5, OwnSuite
  <2>2. CASE w.queue # <<>>
    <3> DEFINE d == Head(w.queue)
    <3>0. d \in Suite[t] /\ ToSet(w.queue) = {d} \cup ToSet(Tail(w.queue))
      BY <1>0, <2>2, HeadAndTail
    <3>1. /\ worker' = [worker EXCEPT ![t] = [w EXCEPT !.queue = Tail(@)]]
          /\ out' = [out EXCEPT ![d] = Invalidate(out[d])]
      BY <1>3, <2>2 DEF RemoveCertificates, Set
    <3>2. /\ DOMAIN v = WorkerFields /\ v.pc = "clean" /\ v.whole = w.whole /\ v.ok = w.ok
          /\ v.cleaned = w.cleaned /\ v.queue = Tail(w.queue)
      BY <1>0, <2>0, <3>1 DEF WorkerFields
    <3>3. /\ DOMAIN out' = Dirs /\ DOMAIN out'[d] = OutputFields /\ out'[d].cert = None
          /\ \A e \in Dirs : e # d => out'[e] = out[e]
      BY <1>0, <3>0, <3>1, InvalidateFields
    <3>4. Touches(t) /\ Suite' = Suite
      BY <1>0, <2>0, <3>0, <3>1, <3>2, <3>3 DEF Touches, Suite, Bounds
    <3>5. Cleaned(t)'
      <4>1. ASSUME NEW e \in Suite[t] \ ToSet(v.queue) PROVE out'[e].cert = None
        <5>1. CASE e = d
          BY <3>3, <5>1
        <5>2. CASE e # d
          BY <1>0, <2>0, <3>0, <3>2, <3>3, <4>1, <5>2 DEF Cleaned, Certified
        <5> QED BY <5>1, <5>2
      <4> QED BY <1>0, <2>0, <3>2, <3>4, <4>1 DEF Cleaned, Certified
    <3>6. Claimed(t)'
      BY <2>0, <3>2 DEF Claimed
    <3> QED BY <3>4, <3>5, <3>6, OwnSuite
  <2> QED BY <2>1, <2>2
<1>4. CASE Discover(t)
  <2> DEFINE found == {d \in Suite[t] : files[d]["config"] # None}
  <2>0. w.pc = "discover" /\ UNCHANGED <<scenario, files, past, clock, out>> /\ ~w.ok
    BY <1>0, <1>4 DEF Discover, Claimed
  <2>1. CASE found = {}
    <3>1. Resting(t, Fail(w))
      BY <1>0, <1>4, <2>0, <2>1, FailFields DEF Discover, Set, Resting
    <3> QED BY <3>1, Failed
  <2>2. CASE found # {}
    <3>1. worker' = [worker EXCEPT ![t] =
              [w EXCEPT !.pc = "prepare", !.found = found, !.queue = SetToSeq(found)]]
      BY <1>4, <2>2 DEF Discover, Set
    <3>2. IsFiniteSet(found)
      BY <1>0, FS_Subset
    <3>3. /\ DOMAIN v = WorkerFields /\ v.pc = "prepare" /\ v.run = w.run /\ v.ok = w.ok
          /\ v.whole = w.whole /\ v.cleaned = w.cleaned /\ v.found = found /\ v.queue = SetToSeq(found)
      BY <1>0, <3>1 DEF WorkerFields
    <3>4. Touches(t) /\ Suite' = Suite
      BY <1>0, <2>0, <3>1, <3>3 DEF Touches, Suite, Bounds
    <3>5. v.found = ToSet(v.queue)
      BY <3>2, <3>3, ListsAll
    <3>6. Cleaned(t)'
      BY <1>0, <2>0, <3>3, <3>4 DEF Cleaned, Certified
    <3>7. Claimed(t)'
      BY <1>0, <2>0, <2>2, <3>3, <3>5 DEF Claimed
    <3> QED BY <3>4, <3>6, <3>7, OwnSuite
  <2> QED BY <2>1, <2>2
<1>5. CASE \E n \in 0..Len(w.queue), installed \in BOOLEAN : Preflight(t, n, installed)
  <2>0. PICK n \in 0..Len(w.queue), installed \in BOOLEAN : Preflight(t, n, installed)
    BY <1>5
  <2> DEFINE ok == n = Len(w.queue) /\ installed
             prepared == {w.queue[i] : i \in 1..n}
  <2>1. /\ w.pc = "prepare" /\ UNCHANGED <<scenario, files, past, clock>>
        /\ out' = [d \in Dirs |-> IF d \in prepared THEN Invalidate(out[d]) ELSE out[d]]
        /\ worker' = [worker EXCEPT ![t] = IF ok THEN [w EXCEPT !.pc = "next", !.ok = TRUE] ELSE Fail(w)]
    BY <2>0 DEF Preflight, Set
  <2>2. prepared \subseteq Suite[t]
    BY <1>0
  <2> HIDE DEF prepared
  <2>3. DOMAIN out' = Dirs /\ \A d \in Dirs : \/ out'[d] = out[d]
                                              \/ d \in Suite[t] /\ DOMAIN out'[d] = OutputFields /\ out'[d].cert = None
    BY <1>0, <2>1, <2>2, InvalidateFields
  <2>4. CASE ~ok
    <3>1. Resting(t, Fail(w))
      BY <1>0, <2>1, <2>3, <2>4, FailFields DEF Resting
    <3> QED BY <3>1, Failed
  <2>5. CASE ok
    <3>1. worker' = [worker EXCEPT ![t] = [w EXCEPT !.pc = "next", !.ok = TRUE]]
      BY <2>1, <2>5
    <3>2. /\ DOMAIN v = WorkerFields /\ v.pc = "next" /\ v.run = w.run /\ v.whole = w.whole
          /\ v.cleaned = w.cleaned /\ v.found = w.found /\ v.queue = w.queue
      BY <1>0, <3>1 DEF WorkerFields
    <3>3. Touches(t) /\ Suite' = Suite
      BY <1>0, <2>1, <2>3, <3>1, <3>2 DEF Touches, Suite, Bounds
    <3>4. w.cleaned /\ w.found \subseteq ToSet(w.queue) /\ w.found # {}
      BY <1>0, <2>1 DEF Claimed
    <3>5. Cleaned(t)'
      <4>1. ASSUME NEW d \in Suite[t], out'[d].cert # None PROVE out'[d].cert.run = w.run
        <5>1. out'[d].cert = out[d].cert
          BY <1>0, <2>3, <4>1
        <5> QED BY <1>0, <3>4, <4>1, <5>1 DEF Cleaned, Certified
      <4> QED BY <3>2, <3>3, <3>4, <4>1 DEF Cleaned, Certified
    <3>6. w.found \subseteq Left(v)
      BY <3>2, <3>4 DEF Left
    <3>7. Claimed(t)'
      BY <3>2, <3>4, <3>6 DEF Claimed
    <3> QED BY <3>3, <3>5, <3>7, OwnSuite
  <2> QED BY <2>4, <2>5
<1>6. CASE Dispatch(t)
  <2> DEFINE d == Head(w.queue)
             c == files[d]["config"]
  <2>0. /\ w.pc = "next" /\ w.queue # <<>> /\ UNCHANGED <<scenario, files, past, clock>>
        /\ out' = [out EXCEPT ![d] = Invalidate(out[d])]
    BY <1>6 DEF Dispatch
  <2>1. d \in Suite[t] /\ ToSet(w.queue) = {d} \cup ToSet(Tail(w.queue))
    BY <1>0, <2>0, HeadAndTail
  <2>2. /\ DOMAIN out' = Dirs /\ DOMAIN out'[d] = OutputFields /\ out'[d].cert = None
        /\ \A e \in Dirs : e # d => out'[e] = out[e]
    BY <1>0, <2>0, <2>1, InvalidateFields
  <2>3. CASE c = None \/ ~c.obligations
    <3>1. Resting(t, Fail(w))
      BY <1>0, <1>6, <2>0, <2>1, <2>2, <2>3, FailFields DEF Dispatch, Set, Resting
    <3> QED BY <3>1, Failed
  <2>4. CASE ~(c = None \/ ~c.obligations)
    <3>1. worker' = [worker EXCEPT ![t] =
             [w EXCEPT !.pc = "verify", !.d = d, !.queue = Tail(@), !.kind = c.kind, !.step = 1,
                       !.todo = <<>>, !.mem = <<>>, !.checked = None, !.objects = <<>>]]
      BY <1>6, <2>4 DEF Dispatch, Set
    <3>2. /\ DOMAIN v = WorkerFields /\ v.pc = "verify" /\ v.run = w.run /\ v.whole = w.whole
          /\ v.cleaned = w.cleaned /\ v.ok = w.ok /\ v.found = w.found /\ v.queue = Tail(w.queue) /\ v.d = d
      BY <1>0, <3>1 DEF WorkerFields
    <3>3. Touches(t) /\ Suite' = Suite
      BY <1>0, <2>0, <2>1, <2>2, <3>1, <3>2 DEF Touches, Suite, Bounds
    <3>4. Cleaned(t)'
      BY <1>0, <2>0, <2>2, <3>2, <3>3 DEF Cleaned, Certified
    <3>5. Left(v) = Left(w) /\ d \in Left(v)
      BY <2>0, <2>1, <3>2 DEF Left
    <3>6. Claimed(t)'
      BY <1>0, <2>0, <2>2, <3>2, <3>5 DEF Claimed, Certified
    <3> QED BY <3>3, <3>4, <3>6, OwnSuite
  <2> QED BY <2>3, <2>4
<1>7. CASE Finish(t)
  <2>1. /\ w.pc = "next" /\ w.queue = <<>> /\ UNCHANGED <<scenario, files, past, clock, out>>
        /\ worker' = [worker EXCEPT ![t] = [w EXCEPT !.pc = "ended"]]
    BY <1>7 DEF Finish, Set
  <2>2. /\ DOMAIN v = WorkerFields /\ v.pc = "ended" /\ v.run = w.run /\ v.whole = w.whole
        /\ v.cleaned = w.cleaned /\ v.ok = w.ok /\ v.found = w.found /\ v.queue = w.queue
    BY <1>0, <2>1 DEF WorkerFields
  <2>3. Touches(t) /\ Suite' = Suite
    BY <1>0, <2>1, <2>2 DEF Touches, Suite, Bounds
  <2>4. Left(v) = Left(w)
    BY <2>1, <2>2 DEF Left
  <2>5. Cleaned(t)'
    BY <1>0, <2>1, <2>2, <2>3 DEF Cleaned, Certified
  <2>6. Claimed(t)'
    BY <1>0, <2>1, <2>2, <2>4 DEF Claimed, Certified
  <2> QED BY <2>3, <2>5, <2>6, OwnSuite
<1>8. CASE SuiteFails(t)
  <2>1. Resting(t, Fail(w))
    BY <1>0, <1>8, FailFields DEF SuiteFails, Resting, Set
  <2> QED BY <2>1, Failed
<1> QED BY <1>1, <1>2, <1>3, <1>4, <1>5, <1>6, <1>7, <1>8 DEF SuiteStep

(* Every step keeps the invariant of the suites.                           *)
LEMMA SuiteHolds ==
  ASSUME IInv, SInv, [Next]_vars
  PROVE  SInv'
<1>1. CASE \E d \in Dirs, f \in Inputs : Edit(d, f)
  BY <1>1, Still DEF Edit
<1>2. CASE Crash
  <2>1. Suite' = Suite
    BY <1>2 DEF Crash, Suite, Bounds
  <2>2. ASSUME NEW t \in DOMAIN Suite PROVE Cleaned(t)' /\ Claimed(t)'
    <3>1. LET v == worker'[t] IN v.pc = "idle" /\ ~v.cleaned /\ ~v.ok
      BY <1>2, Mine DEF Crash, Idle
    <3> QED BY <3>1 DEF Cleaned, Claimed
  <2> QED BY <2>1, <2>2 DEF SInv
<1>3. ASSUME NEW t \in DOMAIN Suite,
             StartSuite(t) \/ (\E d \in Suite[t] : StartProject(t, d)) \/ SuiteStep(t) \/ BackendStep(t)
      PROVE  SInv'
  BY <1>3, SuiteAdvances, BackendKeeps
<1>4. CASE UNCHANGED vars
  BY <1>4, Still DEF vars
<1> QED BY <1>1, <1>2, <1>3, <1>4 DEF Next

(* No verification, of a project or of a suite, reports a success that it   *)
(* did not certify itself, and a suite that got past its cleaning leaves no *)
(* certificate of an earlier run, also not of projects that were removed   *)
(* meanwhile, at whichever step it fails (suite.rs: verify_project,        *)
(* verify_suite, remove_certificates).                                     *)
THEOREM SuccessIsNeverFalse == Spec => []NoFalseSuccess
<1>1. Init => SInv
  <2> SUFFICES ASSUME Init PROVE SInv
    OBVIOUS
  <2>1. IInv
    BY Starting
  <2>2. ASSUME NEW t \in DOMAIN Suite PROVE Cleaned(t) /\ Claimed(t)
    <3>1. worker[t].pc = "idle" /\ ~worker[t].cleaned /\ ~worker[t].ok
      BY <2>1, Mine DEF Init, Idle
    <3> QED BY <3>1 DEF Cleaned, Claimed
  <2> QED BY <2>2 DEF SInv
<1>2. IInv /\ SInv /\ [Next]_vars => IInv' /\ SInv'
  BY Steps, SuiteHolds
<1>3. SInv => NoFalseSuccess
  <2> SUFFICES ASSUME SInv, NEW t \in DOMAIN Suite, worker[t].pc = "ended"
               PROVE  LET w == worker[t] IN
                      /\ w.whole /\ (w.cleaned \/ w.ok) =>
                            \A d \in Suite[t] : Certified(d) => out[d].cert.run = w.run
                      /\ w.ok => w.found # {} /\ \A d \in w.found : Certified(d) /\ out[d].cert.run = w.run
    BY DEF NoFalseSuccess, FreshCertificates, SuccessIsCertified
  <2>1. worker[t].whole /\ (worker[t].cleaned \/ worker[t].ok) =>
           \A d \in Suite[t] : Certified(d) => out[d].cert.run = worker[t].run
    BY DEF SInv, Cleaned
  <2>2. worker[t].ok => Left(worker[t]) = {}
    BY NoElements DEF SInv, Claimed, Left
  <2> QED BY <2>1, <2>2 DEF SInv, Claimed
<1> QED BY <1>1, <1>2, <1>3, Starting, PTL DEF Spec
=============================================================================
