--------------------------- MODULE CaptureProofs ----------------------------
(***************************************************************************)
(* What a captured build reports is true, for any package graph, process   *)
(* ids, edits, crashes and numbers of runs.                                *)
(*                                                                         *)
(* An edit gives a file a version that it never had, so a version that is  *)
(* known is at most the one on disk (Known), and a file that a recheck     *)
(* finds unchanged has not changed since it was read: all files existed    *)
(* together at the moment the last of them had been read (Together), and   *)
(* again after the sources were lowered (StillThere).  Records are never   *)
(* replaced, so each unit that is built has one (Building).  The build     *)
(* reads the manifests between their hash and their recheck (Around): a    *)
(* graph that was resolved from the hashed manifests is what is built.     *)
(***************************************************************************)
EXTENDS Capture, FiniteSetTheorems, SequenceTheorems, TLAPS

(* The head of a sequence and the elements of its tail are its elements.   *)
LEMMA HeadAndTail ==
  ASSUME NEW S, NEW s \in Seq(S), s # <<>>
  PROVE  /\ Head(s) \in S /\ Tail(s) \in Seq(S) /\ Len(s) \in Nat \ {0}
         /\ ToSet(s) = {Head(s)} \cup ToSet(Tail(s))
         /\ Len(s) = 1 => ToSet(s) = {Head(s)}
         /\ Len(s) # 1 => Tail(s) # <<>>
<1>1. Len(s) \in Nat /\ Len(s) # 0 /\ DOMAIN s = 1..Len(s)
  OBVIOUS
<1>2. Len(Tail(s)) = Len(s) - 1 /\ Tail(s) \in Seq(S) /\ DOMAIN Tail(s) = 1..Len(s) - 1
      /\ \A i \in 1..Len(s) - 1 : Tail(s)[i] = s[i + 1]
  OBVIOUS
<1>3. Head(s) = s[1]
  OBVIOUS
<1>4. ASSUME NEW i \in 1..Len(s) PROVE s[i] \in {Head(s)} \cup ToSet(Tail(s))
  <2>1. CASE i = 1
    BY <1>3, <2>1
  <2>2. CASE i # 1
    <3>1. i - 1 \in 1..Len(s) - 1 /\ Tail(s)[i - 1] = s[i]
      BY <1>1, <1>2, <2>2
    <3> QED BY <1>2, <3>1 DEF ToSet
  <2> QED BY <2>1, <2>2
<1>5. ASSUME NEW i \in 1..Len(s) - 1 PROVE Tail(s)[i] \in ToSet(s)
  BY <1>1, <1>2 DEF ToSet
<1>6. ToSet(s) = {Head(s)} \cup ToSet(Tail(s))
  BY <1>1, <1>2, <1>3, <1>4, <1>5 DEF ToSet
<1>7. Len(s) = 1 => ToSet(s) = {Head(s)}
  BY <1>1, <1>3 DEF ToSet
<1>8. Len(s) # 1 => Tail(s) # <<>>
  BY <1>1, <1>2
<1> QED BY <1>1, <1>2, <1>3, <1>6, <1>7, <1>8

(* An empty list has no elements.                                          *)
LEMMA NoElements == ToSet(<<>>) = {}
BY DEF ToSet

(* SetToSeq lists exactly the elements of a finite set.                    *)
LEMMA ListsAll ==
  ASSUME NEW S, IsFiniteSet(S)
  PROVE  SetToSeq(S) \in Seq(S) /\ ToSet(SetToSeq(S)) = S
<1> DEFINE n == Cardinality(S)
           f == SetToSeq(S)
<1>1. n \in Nat /\ ExistsBijection(1..n, S)
  BY FS_CardinalityType
<1>2. PICK b : b \in Bijection(1..n, S)
  BY <1>1 DEF ExistsBijection
<1>3. b \in [1..n -> S] /\ IsInjective(b)
  BY <1>2 DEF Bijection, Injection, IsInjective
<1>4. f \in [1..n -> S] /\ IsInjective(f)
  BY <1>3 DEF SetToSeq
<1>5. f \in Injection(1..n, S)
  BY <1>4 DEF Injection, IsInjective
<1>6. IsFiniteSet(1..n) /\ Cardinality(1..n) = n
  BY <1>1, FS_Interval
<1>7. f \in Surjection(1..n, S)
  BY <1>5, <1>6, FS_Injection
<1>8. f \in Seq(S)
  BY <1>1, <1>4
<1>9. ToSet(f) = S
  BY <1>4, <1>7 DEF ToSet, Surjection
<1> QED BY <1>8, <1>9

(* The last of a sequence and the elements before it are its elements.     *)
LEMMA LastAndFront ==
  ASSUME NEW S, NEW s \in Seq(S), s # <<>>
  PROVE  /\ Last(s) \in S /\ Front(s) \in Seq(S)
         /\ ToSet(s) = {Last(s)} \cup ToSet(Front(s))
<1> DEFINE n == Len(s)
           r == Front(s)
<1>1. n \in Nat /\ n # 0 /\ DOMAIN s = 1..n
  OBVIOUS
<1>2. Last(s) = s[n] /\ Last(s) \in S
  BY <1>1 DEF Last
<1>3. r \in Seq(S) /\ Len(r) = n - 1 /\ \A i \in 1..n - 1 : r[i] = s[i]
  BY <1>1, SubSeqProperties DEF Front
<1>4. DOMAIN r = 1..n - 1
  BY <1>3
<1> HIDE DEF n, r
<1>5. ToSet(s) \subseteq {Last(s)} \cup ToSet(r)
  <2> SUFFICES ASSUME NEW i \in 1..n PROVE s[i] \in {Last(s)} \cup ToSet(r)
    BY <1>1 DEF ToSet
  <2>1. CASE i = n
    BY <1>2, <2>1
  <2>2. CASE i # n
    <3>1. i \in 1..n - 1
      BY <1>1, <2>2
    <3> QED BY <1>3, <1>4, <3>1 DEF ToSet
  <2> QED BY <2>1, <2>2
<1>6. {Last(s)} \cup ToSet(r) \subseteq ToSet(s)
  <2>1. \A i \in 1..n - 1 : i \in 1..n
    BY <1>1
  <2> QED BY <1>1, <1>2, <1>3, <1>4, <2>1 DEF ToSet
<1> QED BY <1>2, <1>3, <1>5, <1>6 DEF r

(* The elements of two sequences joined.                                   *)
LEMMA Joined ==
  ASSUME NEW S, NEW s \in Seq(S), NEW r \in Seq(S)
  PROVE  s \o r \in Seq(S) /\ ToSet(s \o r) = ToSet(s) \cup ToSet(r)
<1> DEFINE t == s \o r
           n == Len(s)
           m == Len(r)
<1>1. n \in Nat /\ m \in Nat /\ DOMAIN s = 1..n /\ DOMAIN r = 1..m
  OBVIOUS
<1>2. /\ t \in Seq(S) /\ Len(t) = n + m
      /\ \A i \in 1..n : t[i] = s[i]
      /\ \A j \in 1..m : t[j + n] = r[j]
  BY <1>1, ConcatProperties
<1>3. DOMAIN t = 1..n + m
  BY <1>2
<1> HIDE DEF t, n, m
<1>4. ToSet(t) \subseteq ToSet(s) \cup ToSet(r)
  <2> SUFFICES ASSUME NEW i \in 1..n + m PROVE t[i] \in ToSet(s) \cup ToSet(r)
    BY <1>3 DEF ToSet
  <2>1. CASE i <= n
    <3>1. i \in 1..n /\ t[i] = s[i]
      BY <1>1, <1>2, <2>1
    <3> QED BY <1>1, <3>1 DEF ToSet
  <2>2. CASE ~(i <= n)
    <3>1. i - n \in 1..m /\ i = (i - n) + n
      BY <1>1, <2>2
    <3> QED BY <1>1, <1>2, <3>1 DEF ToSet
  <2> QED BY <2>1, <2>2
<1>5. ToSet(s) \subseteq ToSet(t)
  <2>1. \A i \in 1..n : i \in 1..n + m /\ t[i] = s[i]
    BY <1>1, <1>2
  <2> QED BY <1>1, <1>3, <2>1 DEF ToSet
<1>6. ToSet(r) \subseteq ToSet(t)
  <2>1. \A j \in 1..m : j + n \in 1..n + m /\ t[j + n] = r[j]
    BY <1>1, <1>2
  <2> QED BY <1>1, <1>3, <2>1 DEF ToSet
<1> QED BY <1>2, <1>4, <1>5, <1>6 DEF t

(* The fields of the capture's record.                                     *)
CFields == {"pc", "run", "pending", "meta", "built", "graph", "mem", "snapshot", "lowered", "probed", "failed"}

(* The phases, by what has happened before them.                           *)
Early == {"metadata", "resolve", "inventory", "snapshot"}
Built == {"decode", "sources", "manifests", "publish"}
Later == {"captured", "bind", "prove", "revalidate", "certify"}

(* The manifests of a set of packages.                                     *)
Manifests(S) == {Manifest(p) : p \in S}

(* The files that the rechecks of the capture, and of the verification     *)
(* after it, have found unchanged.                                         *)
Rechecked == IF c.pc = "manifests" THEN DOMAIN c.mem \ ({Lock} \cup Manifests(ToSet(c.pending)))
             ELSE IF c.pc = "publish" THEN DOMAIN c.mem ELSE {}
Revalidated == IF c.pc = "revalidate" THEN DOMAIN c.mem \ ToSet(c.pending)
               ELSE IF c.pc = "certify" THEN DOMAIN c.mem ELSE {}

(* Which functions and records the variables are.                          *)
Shape == /\ scenario \in DOMAIN Scenarios /\ DOMAIN c = CFields
         /\ DOMAIN unit = Packages /\ \A p \in Packages : DOMAIN unit[p] = {"at", "pid", "saw"}
         /\ \A i \in DOMAIN records : DOMAIN records[i] = {"unit", "cfg"}
         /\ c.pc \in {"idle", "cargo"} \cup Early \cup Built \cup Later

(* Versions on disk are within the bound, and one is the latest.           *)
Disk == /\ disk \in [Files -> 0..Bounds.maxEdits]
        /\ \E g \in Files : \A f \in Files : disk[f] <= disk[g]
        /\ disk \in past /\ (since # {} => disk \in since)

(* What the resolution has found, and what it has still to look at.        *)
Resolving ==
  /\ c.graph \subseteq Whole(Bounds, c.meta)
  /\ c.pc = "metadata" => c.graph = {} /\ c.pending = <<Root>>
  /\ c.pc = "resolve" =>
        /\ c.pending \in Seq(Packages) /\ ToSet(c.pending) \subseteq Whole(Bounds, c.meta)
        /\ Root \in c.graph \cup ToSet(c.pending)
        /\ \A p \in c.graph : Direct(Bounds, c.meta, p) \subseteq c.graph \cup ToSet(c.pending)
  /\ c.pc \notin {"idle", "metadata", "resolve"} => c.graph = Whole(Bounds, c.meta)
  /\ c.pc = "manifests" => c.pending \in Seq(c.graph)
  /\ c.pc = "revalidate" => c.pending \in Seq(DOMAIN c.mem)

(* Which files are known, and that no known version is yet to come.        *)
Known ==
  /\ c.pc # "idle" => \A f \in DOMAIN c.mem : c.mem[f] \in Nat /\ c.mem[f] <= disk[f]
  /\ c.pc \notin {"idle", "captured", "bind", "prove", "revalidate", "certify"} =>
        DOMAIN c.mem = Manifests(c.graph)
                       \cup (IF c.pc \in {"metadata", "resolve"} THEN {} ELSE {Lock})
                       \cup (IF c.pc \in {"metadata", "resolve", "inventory"} THEN {} ELSE {Source})
  /\ c.pc \in Later => DOMAIN c.mem = Manifests(c.graph) \cup {Lock, Source}
  /\ c.pc \in {"prove", "revalidate", "certify"} => c.lowered = c.mem[Source]

(* Some moment had every file that was rechecked, or is still as it was    *)
(* read.                                                                   *)
Together ==
  c.pc \in {"snapshot", "cargo"} \cup Built =>
    \E d \in past : \A f \in DOMAIN c.mem : (f \in Rechecked \/ disk[f] = c.mem[f]) => d[f] = c.mem[f]

(* The same, for the moments since the sources were lowered.               *)
StillThere ==
  c.pc \in Later \ {"captured"} =>
    /\ since # {}
    /\ \E d \in since : \A f \in DOMAIN c.mem : (f \in Revalidated \/ disk[f] = c.mem[f]) => d[f] = c.mem[f]

(* Cargo read every known file after the capture did, and before now; a    *)
(* file that has been rechecked is the one that Cargo read.                *)
Around ==
  (c.pc = "cargo" /\ c.probed) \/ c.pc \in Built =>
    /\ \A f \in DOMAIN c.mem : c.built[f] \in Nat /\ c.mem[f] <= c.built[f] /\ c.built[f] <= disk[f]
    /\ \A f \in Rechecked : c.built[f] = c.mem[f]

(* Each unit that has left a record still has it, and read sources that    *)
(* are not older than those that the capture read.                         *)
Building ==
  /\ c.pc \in Early \/ (c.pc = "cargo" /\ ~c.probed) =>
        target = {} /\ records = <<>> /\ \A p \in Packages : unit[p].at = "waiting"
  /\ c.pc \in Early => ~c.probed
  /\ c.pc \in {"cargo"} \cup Built =>
        /\ \A i \in DOMAIN records : records[i].unit \in Whole(Bounds, c.built) \cup {"probe"}
        /\ \A p \in Packages : unit[p].at # "waiting" => \E i \in DOMAIN records : records[i].unit = p
        /\ \A p \in target : p \in Packages /\ unit[p].at = "done"
        /\ \A p \in Packages : unit[p].at = "done" =>
              unit[p].saw \in Nat /\ c.mem[Source] <= unit[p].saw /\ unit[p].saw <= disk[Source]
  /\ c.pc \in Built => Whole(Bounds, c.built) \subseteq target
  /\ c.pc \in {"manifests", "publish"} => unit[Root].saw = c.mem[Source]

(* What the report says, and the certificate of a verification.            *)
Reported ==
  /\ Captured => /\ evidence.run = c.run /\ evidence.saw = evidence.mem[Source]
                 /\ EveryUnitCaptured /\ GraphIsClosed /\ UnitsAreTheGraph
                 /\ \E d \in past : \A f \in DOMAIN evidence.mem : d[f] = evidence.mem[f]
  /\ c.pc # "idle" => verdict = None
  /\ verdict # None => /\ verdict.lowered = verdict.mem[Source]
                       /\ \E d \in since : \A f \in DOMAIN verdict.mem : d[f] = verdict.mem[f]

(* The inductive invariant.                                                *)
CInv == /\ Shape /\ Disk /\ Resolving /\ Known /\ Together /\ StillThere
        /\ Around /\ Building /\ Reported

-----------------------------------------------------------------------------
(* What the scenario says.                                                 *)
LEMMA Constants ==
  ASSUME scenario \in DOMAIN Scenarios
  PROVE  /\ IsFiniteSet(Packages) /\ "probe" \notin Packages /\ Root \in Packages /\ Bounds.maxEdits \in Nat
         /\ \A d, p : Direct(Bounds, d, p) \subseteq Packages
         /\ \A p : Dependencies(p) = Direct(Bounds, c.meta, p)
BY ScenariosAssumption DEF Packages, Bounds, Dependencies, Direct, Declared

(* The files are different files.                                          *)
LEMMA Distinct ==
  /\ Source \in Files /\ Lock \in Files /\ \A p \in Packages : Manifest(p) \in Files
  /\ Source # Lock /\ \A p : Manifest(p) # Source /\ Manifest(p) # Lock
  /\ \A p, q : Manifest(p) = Manifest(q) => p = q
BY DEF Files, Source, Lock, Manifest

(* What the root needs is the least closed set.                            *)
LEMMA NeedsIsLeast ==
  ASSUME scenario \in DOMAIN Scenarios, NEW d
  PROVE  LET N == Whole(Bounds, d) IN
         /\ N \subseteq Packages /\ IsFiniteSet(N) /\ Root \in N
         /\ \A p \in N : Direct(Bounds, d, p) \subseteq N
         /\ \A G \in SUBSET Packages :
               Root \in G /\ (\A p \in G : Direct(Bounds, d, p) \subseteq G) => N \subseteq G
<1> DEFINE N == Whole(Bounds, d)
<1>0. /\ IsFiniteSet(Packages) /\ Root \in Packages
      /\ \A p : Direct(Bounds, d, p) \subseteq Packages
  BY Constants
<1>a. \A q : q \in Needs(Bounds, d, Root) <=>
        q \in Packages /\ \A C \in SUBSET Packages :
           (\A r \in C \cup {Root} : Direct(Bounds, d, r) \subseteq C) => q \in C
  BY DEF Needs, Packages
<1>1. N \subseteq Packages
  BY <1>0, <1>a DEF Whole
<1>2. IsFiniteSet(N)
  BY <1>0, <1>1, FS_Subset
<1>3. ASSUME NEW p \in N, NEW q \in Direct(Bounds, d, p) PROVE q \in N
  <2>0. q \in Packages
    BY <1>0, <1>3
  <2>1. ASSUME NEW C \in SUBSET Packages, \A r \in C \cup {Root} : Direct(Bounds, d, r) \subseteq C
        PROVE  q \in C
    <3>1. p \in C \cup {Root}
      BY <1>a, <2>1 DEF Whole
    <3> QED BY <1>3, <2>1, <3>1
  <2> QED BY <1>a, <2>0, <2>1 DEF Whole
<1>4. ASSUME NEW G \in SUBSET Packages, Root \in G, \A p \in G : Direct(Bounds, d, p) \subseteq G
      PROVE  N \subseteq G
  <2>1. \A r \in G \cup {Root} : Direct(Bounds, d, r) \subseteq G
    BY <1>4
  <2> QED BY <1>4, <1>a, <2>1 DEF Whole
<1>5. Root \in N
  BY DEF Whole
<1> QED BY <1>1, <1>2, <1>3, <1>4, <1>5

(* Manifests that agree on all that one of them makes of the root make the *)
(* same of it.                                                             *)
LEMMA SameManifests ==
  ASSUME scenario \in DOMAIN Scenarios, NEW d, NEW e,
         \A p \in Whole(Bounds, d) : d[Manifest(p)] = e[Manifest(p)]
  PROVE  Whole(Bounds, d) = Whole(Bounds, e)
<1> DEFINE D == Whole(Bounds, d)
           E == Whole(Bounds, e)
<1>1. /\ D \subseteq Packages /\ Root \in D /\ \A p \in D : Direct(Bounds, d, p) \subseteq D
      /\ \A G \in SUBSET Packages :
            Root \in G /\ (\A p \in G : Direct(Bounds, d, p) \subseteq G) => D \subseteq G
  BY NeedsIsLeast
<1>2. /\ E \subseteq Packages /\ Root \in E /\ \A p \in E : Direct(Bounds, e, p) \subseteq E
      /\ \A G \in SUBSET Packages :
            Root \in G /\ (\A p \in G : Direct(Bounds, e, p) \subseteq G) => E \subseteq G
  BY NeedsIsLeast
<1>3. \A p \in D : Direct(Bounds, d, p) = Direct(Bounds, e, p)
  BY DEF Direct, Declared
<1> HIDE DEF D, E
<1>4. E \subseteq D
  BY <1>1, <1>2, <1>3
<1>5. D \subseteq D \cap E
  BY <1>1, <1>2, <1>3
<1> QED BY <1>4, <1>5 DEF D, E

(* Nothing is captured yet.                                                *)
LEMMA Starting == Init => CInv
<1> SUFFICES ASSUME Init PROVE CInv
  OBVIOUS
<1>0. scenario \in DOMAIN Scenarios /\ Bounds.maxEdits \in Nat
  BY Constants DEF Init
<1>1. /\ DOMAIN c = CFields /\ c.pc = "idle" /\ c.graph = {}
  BY DEF Init, Idle, CFields
<1>2. Shape
  BY <1>0, <1>1 DEF Init, Shape, Waiting
<1>3. Disk
  BY <1>0, Distinct DEF Init, Disk
<1>4. Resolving /\ Known /\ Together /\ StillThere /\ Around /\ Building
  BY <1>1 DEF Resolving, Known, Together, StillThere, Around, Building, Early, Built, Later
<1>5. Reported
  BY <1>1 DEF Init, Reported, Captured, EveryUnitCaptured, GraphIsClosed, UnitsAreTheGraph
<1> QED BY <1>2, <1>3, <1>4, <1>5 DEF CInv

-----------------------------------------------------------------------------
(* A failure, a kill and a capture that nobody verifies end in rest.       *)
LEMMA Resting ==
  ASSUME CInv, c' = Idle(c.run), UNCHANGED <<scenario, disk, past, since, records, evidence, verdict>>,
         unit' = unit \/ unit' = [p \in Packages |-> Waiting]
  PROVE  CInv'
<1>0. Bounds' = Bounds /\ Packages' = Packages /\ Files' = Files
  BY DEF Bounds, Packages, Files
<1>1. DOMAIN c' = CFields /\ c'.pc = "idle" /\ c'.graph = {} /\ c'.run = c.run
  BY DEF Idle, CFields
<1>2. Shape'
  BY <1>0, <1>1 DEF CInv, Shape, Waiting, Early, Built, Later
<1>3. Disk'
  BY <1>0 DEF CInv, Disk
<1>4. Resolving' /\ Known' /\ Together' /\ StillThere' /\ Around' /\ Building'
  BY <1>1 DEF Resolving, Known, Together, StillThere, Around, Building, Early, Built, Later
<1>5. Reported'
  BY <1>0, <1>1 DEF CInv, Reported, Captured, EveryUnitCaptured, GraphIsClosed, UnitsAreTheGraph
<1> QED BY <1>2, <1>3, <1>4, <1>5 DEF CInv

(* A step that changes c alone, and neither begins nor ends a run.         *)
LEMMA QuietFrame ==
  ASSUME CInv, Quiet, DOMAIN c' = CFields, c'.run = c.run, c.pc # "idle",
         c'.pc \in {"cargo"} \cup Early \cup Built \cup Later
  PROVE  /\ Shape' /\ Disk' /\ Reported' /\ Bounds' = Bounds /\ Packages' = Packages /\ Files' = Files
         /\ UNCHANGED <<disk, past, since, records, unit, target>>
<1>0. Bounds' = Bounds /\ Packages' = Packages /\ Files' = Files
  BY DEF Quiet, Bounds, Packages, Files
<1>1. Shape'
  BY <1>0 DEF CInv, Shape, Quiet
<1>2. Disk'
  BY <1>0 DEF CInv, Disk, Quiet
<1>3. Reported'
  BY <1>0 DEF CInv, Reported, Quiet, Captured, EveryUnitCaptured, GraphIsClosed, UnitsAreTheGraph
<1> QED BY <1>0, <1>1, <1>2, <1>3 DEF Quiet

(* An edit gives a file a version later than all known ones.               *)
LEMMA Editing ==
  ASSUME CInv, NEW f \in Files, Edit(f)
  PROVE  CInv'
<1>0. /\ Bounds' = Bounds /\ Packages' = Packages /\ Files' = Files
      /\ UNCHANGED <<scenario, c, records, unit, target, evidence, verdict>>
  BY DEF Edit, Bounds, Packages, Files
<1>1. /\ Edits \in 0..Bounds.maxEdits /\ \A g \in Files : disk[g] <= Edits
      /\ \A g \in Files : disk[g] \in Nat
  <2>1. Bounds.maxEdits \in Nat
    BY Constants DEF CInv, Shape
  <2>2. disk \in [Files -> 0..Bounds.maxEdits]
    BY DEF CInv, Disk
  <2>3. PICK h \in Files : \A g \in Files : disk[g] <= disk[h]
    BY DEF CInv, Disk
  <2>4. \E n \in 0..Bounds.maxEdits : \A g \in Files : disk[g] <= n /\ \E k \in Files : disk[k] = n
    BY <2>1, <2>2, <2>3
  <2> QED BY <2>1, <2>2, <2>4 DEF Edits
<1>2. Bounds.maxEdits \in Nat
  BY Constants DEF CInv, Shape
<1>3. /\ disk' = [disk EXCEPT ![f] = Edits + 1] /\ Edits + 1 \in 0..Bounds.maxEdits
      /\ past' = past \cup {disk'} /\ (since # {} => since' = since \cup {disk'})
      /\ (since = {} => since' = {})
  BY <1>1, <1>2 DEF Edit
<1>4. /\ \A g \in Files : disk'[g] \in Nat /\ disk[g] <= disk'[g] /\ (g # f => disk'[g] = disk[g])
      /\ disk'[f] > disk[f]
  BY <1>1, <1>2, <1>3 DEF CInv, Disk
<1>5. Disk'
  <2>1. disk' \in [Files -> 0..Bounds.maxEdits]
    BY <1>3 DEF CInv, Disk
  <2>2. \A g \in Files : disk'[g] <= disk'[f]
    BY <1>1, <1>2, <1>3 DEF CInv, Disk
  <2> QED BY <1>0, <1>3, <2>1, <2>2 DEF Disk
<1>6. Shape' /\ Resolving'
  BY <1>0 DEF CInv, Shape, Resolving
<1>7. ASSUME c.pc # "idle" PROVE DOMAIN c.mem \subseteq Files
  <2>1. c.graph \subseteq Packages
    BY NeedsIsLeast DEF CInv, Shape, Resolving
  <2>2. DOMAIN c.mem \subseteq Manifests(c.graph) \cup {Lock, Source}
    BY <1>7 DEF CInv, Shape, Known, Early, Built, Later
  <2> QED BY <2>1, <2>2, Distinct DEF Manifests
<1>8. ASSUME c.pc # "idle", NEW g \in DOMAIN c.mem
      PROVE  /\ c.mem[g] \in Nat /\ c.mem[g] <= disk'[g]
             /\ disk'[g] = c.mem[g] => disk[g] = c.mem[g]
  <2>1. g \in Files /\ c.mem[g] \in Nat /\ c.mem[g] <= disk[g]
    BY <1>7, <1>8 DEF CInv, Known
  <2> QED BY <1>1, <1>4, <2>1
<1>9. Known'
  BY <1>0, <1>8 DEF CInv, Known
<1>10. Together'
  <2> SUFFICES ASSUME c.pc \in {"snapshot", "cargo"} \cup Built
               PROVE  \E d \in past' : \A g \in DOMAIN c.mem :
                        (g \in Rechecked \/ disk'[g] = c.mem[g]) => d[g] = c.mem[g]
    BY <1>0 DEF Together, Rechecked
  <2>1. PICK d \in past : \A g \in DOMAIN c.mem : (g \in Rechecked \/ disk[g] = c.mem[g]) => d[g] = c.mem[g]
    BY DEF CInv, Together
  <2>2. c.pc # "idle"
    BY DEF Built
  <2> QED BY <1>3, <1>8, <2>1, <2>2
<1>11. StillThere'
  <2> SUFFICES ASSUME c.pc \in Later \ {"captured"}
               PROVE  /\ since' # {}
                      /\ \E d \in since' : \A g \in DOMAIN c.mem :
                           (g \in Revalidated \/ disk'[g] = c.mem[g]) => d[g] = c.mem[g]
    BY <1>0 DEF StillThere, Revalidated
  <2>1. PICK d \in since : \A g \in DOMAIN c.mem : (g \in Revalidated \/ disk[g] = c.mem[g]) => d[g] = c.mem[g]
    BY DEF CInv, StillThere
  <2>2. c.pc # "idle"
    BY DEF Later
  <2> QED BY <1>3, <1>8, <2>1, <2>2
<1>12. Building'
  <2>1. disk[Source] \in Nat /\ disk'[Source] \in Nat /\ disk[Source] <= disk'[Source]
    BY <1>1, <1>4, Distinct
  <2>2. c.pc \in {"cargo"} \cup Built => c.mem[Source] \in Nat
    <3>1. c.pc \in {"cargo"} \cup Built => Source \in DOMAIN c.mem /\ c.pc # "idle"
      BY DEF CInv, Known, Built
    <3> QED BY <1>8, <3>1
  <2>3. c.pc \in {"cargo"} \cup Built => \A p \in Packages : unit[p].at = "done" =>
          unit[p].saw \in Nat /\ c.mem[Source] <= unit[p].saw /\ unit[p].saw <= disk'[Source]
    BY <2>1, <2>2 DEF CInv, Building
  <2> QED BY <1>0, <2>3 DEF CInv, Building
<1>13. Around'
  <2> SUFFICES ASSUME (c.pc = "cargo" /\ c.probed) \/ c.pc \in Built
               PROVE  /\ \A g \in DOMAIN c.mem : c.built[g] \in Nat /\ c.mem[g] <= c.built[g] /\ c.built[g] <= disk'[g]
                      /\ \A g \in Rechecked : c.built[g] = c.mem[g]
    BY <1>0 DEF Around, Rechecked
  <2>1. /\ \A g \in DOMAIN c.mem : c.built[g] \in Nat /\ c.mem[g] <= c.built[g] /\ c.built[g] <= disk[g]
        /\ \A g \in Rechecked : c.built[g] = c.mem[g]
    BY DEF CInv, Around
  <2>2. DOMAIN c.mem \subseteq Files
    BY <1>7 DEF Built
  <2> QED BY <1>1, <1>4, <2>1, <2>2
<1>14. Reported'
  BY <1>0, <1>3 DEF CInv, Reported, Captured, EveryUnitCaptured, GraphIsClosed, UnitsAreTheGraph
<1> QED BY <1>5, <1>6, <1>9, <1>10, <1>11, <1>12, <1>13, <1>14 DEF CInv

-----------------------------------------------------------------------------
(* Reading: resolution, workspace, sources.                                *)

(* A run starts by removing what an earlier one reported.                  *)
LEMMA BeginStep ==
  ASSUME CInv, Begin
  PROVE  CInv'
<1>0. /\ Bounds' = Bounds /\ Packages' = Packages /\ Files' = Files /\ UNCHANGED <<scenario, disk>>
      /\ past' = {disk} /\ since' = {} /\ records' = <<>> /\ evidence' = None /\ verdict' = None
      /\ target' = {} /\ unit' = [p \in Packages |-> Waiting]
  BY DEF Begin, Bounds, Packages, Files, Invalidated, FreshTarget
<1>1. /\ DOMAIN c' = CFields /\ c'.pc = "metadata" /\ c'.graph = {} /\ c'.pending = <<Root>>
      /\ c'.mem = <<>> /\ c'.probed = FALSE
  BY DEF Begin, Idle, CFields
<1>2. Shape'
  BY <1>0, <1>1 DEF CInv, Shape, Waiting, Early, Built, Later
<1>3. Disk'
  BY <1>0 DEF CInv, Disk
<1>4. Resolving'
  BY <1>1 DEF Resolving
<1>5. Known'
  BY <1>1 DEF Known, Manifests, Later
<1>6. Together' /\ StillThere' /\ Around'
  BY <1>1 DEF Together, StillThere, Around, Built, Later
<1>7. Building'
  BY <1>0, <1>1 DEF Building, Waiting, Early, Built
<1>8. Reported'
  BY <1>0 DEF Reported, Captured, EveryUnitCaptured, GraphIsClosed, UnitsAreTheGraph
<1> QED BY <1>2, <1>3, <1>4, <1>5, <1>6, <1>7, <1>8 DEF CInv

(* A file is added to those that are known.                                *)
LEMMA Remembering ==
  ASSUME CInv, c.pc # "idle", NEW f \in Files
  PROVE  LET mem == Remember(f, disk[f]) IN
         /\ DOMAIN mem = DOMAIN c.mem \cup {f}
         /\ \A g \in DOMAIN mem : mem[g] \in Nat /\ mem[g] <= disk[g]
         /\ mem[f] = disk[f]
<1>1. disk[f] \in Nat
  BY Constants DEF CInv, Disk, Shape
<1>2. \A g \in DOMAIN c.mem : c.mem[g] \in Nat /\ c.mem[g] <= disk[g]
  BY DEF CInv, Known
<1> QED BY <1>1, <1>2 DEF Remember

(* The metadata are read: the graph is looked for in them.                 *)
LEMMA MetadataStep ==
  ASSUME CInv, Metadata
  PROVE  CInv'
<1>0. /\ c.pc = "metadata" /\ Quiet /\ DOMAIN c = CFields /\ c' = [c EXCEPT !.pc = "resolve", !.meta = disk]
      /\ scenario \in DOMAIN Scenarios
  BY DEF Metadata, CInv, Shape
<1>1. /\ DOMAIN c' = CFields /\ c'.pc = "resolve" /\ c'.graph = c.graph /\ c'.mem = c.mem /\ c'.run = c.run /\ c'.probed = c.probed
      /\ c'.pending = c.pending
  BY <1>0 DEF CFields
<1>2. /\ Shape' /\ Disk' /\ Reported' /\ Bounds' = Bounds /\ Packages' = Packages
      /\ UNCHANGED <<disk, past, since, records, unit, target>>
  BY <1>0, <1>1, QuietFrame DEF Early
<1>3. Resolving'
  <2>1. c.graph = {} /\ c.pending = <<Root>>
    BY <1>0 DEF CInv, Resolving
  <2>2. <<Root>> \in Seq(Packages) /\ ToSet(<<Root>>) = {Root}
    BY <1>0, Constants DEF ToSet
  <2>3. Root \in Whole(Bounds, c'.meta)
    BY DEF Whole
  <2> QED BY <1>1, <1>2, <2>1, <2>2, <2>3 DEF Resolving
<1>4. Known'
  BY <1>0, <1>1, <1>2 DEF CInv, Known, Later
<1>5. Together' /\ StillThere' /\ Around' /\ Building'
  <2>1. target = {} /\ records = <<>> /\ ~c.probed /\ \A q \in Packages : unit[q].at = "waiting"
    BY <1>0 DEF CInv, Building, Early
  <2> QED BY <1>1, <1>2, <2>1 DEF Together, StillThere, Around, Building, Early, Built, Later
<1> QED BY <1>2, <1>3, <1>4, <1>5 DEF CInv

(* Resolution reads one manifest and queues the packages it names.         *)
LEMMA ResolveStep ==
  ASSUME CInv, Resolve
  PROVE  CInv'
<1> DEFINE p == Last(c.pending)
           rest == Front(c.pending)
           N == Whole(Bounds, c.meta)
<1>0. c.pc = "resolve" /\ c.pending # <<>> /\ Quiet /\ DOMAIN c = CFields
      /\ scenario \in DOMAIN Scenarios
  BY DEF Resolve, CInv, Shape
<1>1. /\ c.pending \in Seq(Packages) /\ ToSet(c.pending) \subseteq N
      /\ Root \in c.graph \cup ToSet(c.pending) /\ c.graph \subseteq N
      /\ \A q \in c.graph : Direct(Bounds, c.meta, q) \subseteq c.graph \cup ToSet(c.pending)
  BY <1>0 DEF CInv, Resolving
<1>2. /\ p \in Packages /\ rest \in Seq(Packages) /\ ToSet(c.pending) = {p} \cup ToSet(rest)
  BY <1>0, <1>1, LastAndFront
<1> HIDE DEF p, rest, N
<1>3. /\ DOMAIN c.mem = Manifests(c.graph)
      /\ \A f \in DOMAIN c.mem : c.mem[f] \in Nat /\ c.mem[f] <= disk[f]
  BY <1>0 DEF CInv, Known
<1>4. target = {} /\ records = <<>> /\ ~c.probed /\ \A q \in Packages : unit[q].at = "waiting"
  BY <1>0 DEF CInv, Building, Early
<1>5. CASE p \in c.graph /\ c' = [c EXCEPT !.pending = rest]
  <2>1. /\ DOMAIN c' = CFields /\ c'.pc = "resolve" /\ c'.pending = rest /\ c'.graph = c.graph
        /\ c'.mem = c.mem /\ c'.run = c.run /\ c'.probed = c.probed /\ c'.meta = c.meta
    BY <1>0, <1>5 DEF CFields
  <2>2. /\ Shape' /\ Disk' /\ Reported' /\ Bounds' = Bounds /\ Packages' = Packages
        /\ UNCHANGED <<disk, past, since, records, unit, target>>
    BY <1>0, <2>1, QuietFrame DEF Early
  <2>3. Resolving'
    BY <1>1, <1>2, <1>5, <2>1, <2>2 DEF Resolving, N
  <2>4. Known'
    BY <1>3, <2>1, <2>2 DEF Known, Later
  <2>5. Together' /\ StillThere' /\ Around' /\ Building'
    BY <1>4, <2>1, <2>2 DEF Together, StillThere, Around, Building, Early, Built, Later
  <2> QED BY <2>2, <2>3, <2>4, <2>5 DEF CInv
<1>6. CASE c' = Idle(c.run)
  BY <1>0, <1>6, Resting DEF Quiet
<1>7. CASE /\ p \notin c.graph
           /\ c' = [c EXCEPT !.graph = @ \cup {p}, !.mem = Remember(Manifest(p), disk[Manifest(p)]),
                             !.pending = rest \o SetToSeq(Dependencies(p))]
  <2> DEFINE deps == SetToSeq(Dependencies(p))
             mem == Remember(Manifest(p), disk[Manifest(p)])
  <2>1. /\ DOMAIN c' = CFields /\ c'.pc = "resolve" /\ c'.pending = rest \o deps
        /\ c'.graph = c.graph \cup {p} /\ c'.mem = mem /\ c'.run = c.run /\ c'.probed = c.probed /\ c'.meta = c.meta
    BY <1>0, <1>7 DEF CFields
  <2>2. /\ Shape' /\ Disk' /\ Reported' /\ Bounds' = Bounds /\ Packages' = Packages
        /\ UNCHANGED <<disk, past, since, records, unit, target>>
    BY <1>0, <2>1, QuietFrame DEF Early
  <2>3. /\ Dependencies(p) \subseteq Packages /\ IsFiniteSet(Dependencies(p))
        /\ Dependencies(p) = Direct(Bounds, c.meta, p)
    BY <1>0, <1>2, Constants, FS_Subset
  <2>4. deps \in Seq(Dependencies(p)) /\ ToSet(deps) = Dependencies(p)
    BY <2>3, ListsAll
  <2>5. deps \in Seq(Packages)
    BY <2>3, <2>4
  <2> HIDE DEF deps
  <2>6. rest \o deps \in Seq(Packages) /\ ToSet(rest \o deps) = ToSet(rest) \cup Dependencies(p)
    BY <1>2, <2>4, <2>5, Joined
  <2>7. p \in N /\ Dependencies(p) \subseteq N
    <3>1. \A q \in N : Direct(Bounds, c.meta, q) \subseteq N
      BY <1>0, NeedsIsLeast DEF N
    <3> QED BY <1>1, <1>2, <2>3, <3>1
  <2>8. Resolving'
    <3>1. c'.graph \subseteq N /\ ToSet(c'.pending) \subseteq N
      BY <1>1, <1>2, <2>1, <2>6, <2>7
    <3>2. Root \in c'.graph \cup ToSet(c'.pending)
      BY <1>1, <1>2, <2>1, <2>6
    <3>3. \A q \in c'.graph : Direct(Bounds, c'.meta, q) \subseteq c'.graph \cup ToSet(c'.pending)
      BY <1>1, <1>2, <2>1, <2>3, <2>6
    <3> QED BY <2>1, <2>2, <2>6, <3>1, <3>2, <3>3 DEF Resolving, N
  <2>9. Known'
    <3>1. Manifest(p) \in Files
      BY <1>2, Distinct
    <3>2. DOMAIN mem = DOMAIN c.mem \cup {Manifest(p)} /\ \A g \in DOMAIN mem : mem[g] \in Nat /\ mem[g] <= disk[g]
      BY <1>0, <3>1, Remembering
    <3>3. DOMAIN mem = Manifests(c'.graph)
      BY <1>3, <2>1, <3>2 DEF Manifests
    <3> QED BY <2>1, <2>2, <3>2, <3>3 DEF Known, Later
  <2>10. Together' /\ StillThere' /\ Around' /\ Building'
    BY <1>4, <2>1, <2>2 DEF Together, StillThere, Around, Building, Early, Built, Later
  <2> QED BY <2>2, <2>8, <2>9, <2>10 DEF CInv
<1> QED BY <1>5, <1>6, <1>7 DEF Resolve, p, rest

(* With nothing left to resolve, the graph is closed.                      *)
LEMMA ReadWorkspaceStep ==
  ASSUME CInv, ReadWorkspace
  PROVE  CInv'
<1> DEFINE mem == Remember(Lock, disk[Lock])
           N == Whole(Bounds, c.meta)
<1>0. /\ c.pc = "resolve" /\ c.pending = <<>> /\ Quiet /\ DOMAIN c = CFields
      /\ c' = [c EXCEPT !.pc = "inventory", !.mem = mem] /\ scenario \in DOMAIN Scenarios
  BY DEF ReadWorkspace, CInv, Shape
<1> HIDE DEF mem
<1>1. /\ DOMAIN c' = CFields /\ c'.pc = "inventory" /\ c'.graph = c.graph /\ c'.meta = c.meta /\ c'.built = c.built /\ c'.mem = mem /\ c'.run = c.run /\ c'.probed = c.probed
  BY <1>0 DEF CFields
<1>2. /\ Shape' /\ Disk' /\ Reported' /\ Bounds' = Bounds /\ Packages' = Packages
      /\ UNCHANGED <<disk, past, since, records, unit, target>>
  BY <1>0, <1>1, QuietFrame DEF Early
<1>3. c.graph = N
  <2>1. Root \in c.graph /\ c.graph \subseteq N /\ \A p \in c.graph : Direct(Bounds, c.meta, p) \subseteq c.graph
    BY <1>0, NoElements DEF CInv, Resolving
  <2> QED BY <1>0, <2>1, NeedsIsLeast
<1>4. Resolving'
  BY <1>1, <1>2, <1>3 DEF Resolving
<1>5. Known'
  <2>1. DOMAIN mem = DOMAIN c.mem \cup {Lock} /\ \A g \in DOMAIN mem : mem[g] \in Nat /\ mem[g] <= disk[g]
    BY <1>0, Distinct, Remembering DEF mem
  <2>2. DOMAIN mem = Manifests(c.graph) \cup {Lock}
    BY <1>0, <2>1 DEF CInv, Known
  <2> QED BY <1>1, <1>2, <2>1, <2>2 DEF Known, Later
<1>6. Together' /\ StillThere' /\ Around' /\ Building'
  <2>1. target = {} /\ records = <<>> /\ ~c.probed /\ \A q \in Packages : unit[q].at = "waiting"
    BY <1>0 DEF CInv, Building, Early
  <2> QED BY <1>1, <1>2, <2>1 DEF Together, StillThere, Around, Building, Early, Built, Later
<1> QED BY <1>2, <1>4, <1>5, <1>6 DEF CInv

(* All files are known: they exist together now.                           *)
LEMMA ReadSourcesStep ==
  ASSUME CInv, ReadSources
  PROVE  CInv'
<1> DEFINE mem == Remember(Source, disk[Source])
<1>0. /\ c.pc = "inventory" /\ Quiet /\ DOMAIN c = CFields
      /\ c' = [c EXCEPT !.pc = "snapshot", !.mem = mem]
  BY DEF ReadSources, CInv, Shape
<1> HIDE DEF mem
<1>1. /\ DOMAIN c' = CFields /\ c'.pc = "snapshot" /\ c'.graph = c.graph /\ c'.meta = c.meta /\ c'.built = c.built /\ c'.mem = mem /\ c'.run = c.run /\ c'.probed = c.probed
  BY <1>0 DEF CFields
<1>2. /\ Shape' /\ Disk' /\ Reported' /\ Bounds' = Bounds /\ Packages' = Packages
      /\ UNCHANGED <<disk, past, since, records, unit, target>>
  BY <1>0, <1>1, QuietFrame DEF Early
<1>3. Resolving'
  BY <1>0, <1>1, <1>2 DEF CInv, Resolving
<1>4. Known'
  <2>1. DOMAIN mem = DOMAIN c.mem \cup {Source} /\ \A g \in DOMAIN mem : mem[g] \in Nat /\ mem[g] <= disk[g]
    BY <1>0, Distinct, Remembering DEF mem
  <2>2. DOMAIN mem = Manifests(c.graph) \cup {Lock} \cup {Source}
    BY <1>0, <2>1 DEF CInv, Known
  <2> QED BY <1>1, <1>2, <2>1, <2>2 DEF Known, Later
<1>5. Together'
  <2>1. disk \in past
    BY DEF CInv, Disk
  <2> QED BY <1>1, <1>2, <2>1 DEF Together, Rechecked
<1>6. StillThere' /\ Around' /\ Building'
  <2>1. target = {} /\ records = <<>> /\ ~c.probed /\ \A q \in Packages : unit[q].at = "waiting"
    BY <1>0 DEF CInv, Building, Early
  <2> QED BY <1>1, <1>2, <2>1 DEF StillThere, Around, Building, Early, Built, Later
<1> QED BY <1>2, <1>3, <1>4, <1>5, <1>6 DEF CInv

-----------------------------------------------------------------------------
(* Cargo and its wrappers.                                                 *)

(* The sources are read: the moment that all files are compared with.      *)
LEMMA SnapshotStep ==
  ASSUME CInv, Snapshot
  PROVE  CInv'
<1>0. c.pc = "snapshot" /\ Quiet /\ DOMAIN c = CFields
  BY DEF Snapshot, CInv, Shape
<1>1. CASE c' = Idle(c.run)
  BY <1>0, <1>1, Resting DEF Quiet
<1>2. CASE c' = [c EXCEPT !.pc = "cargo", !.snapshot = disk[Source]]
  <2>1. /\ DOMAIN c' = CFields /\ c'.pc = "cargo" /\ c'.graph = c.graph /\ c'.meta = c.meta /\ c'.built = c.built /\ c'.mem = c.mem /\ c'.run = c.run /\ c'.probed = c.probed
    BY <1>0, <1>2 DEF CFields
  <2>2. /\ Shape' /\ Disk' /\ Reported' /\ Bounds' = Bounds /\ Packages' = Packages
        /\ UNCHANGED <<disk, past, since, records, unit, target>>
    BY <1>0, <2>1, QuietFrame
  <2>3. Resolving'
    BY <1>0, <2>1, <2>2 DEF CInv, Resolving
  <2>4. Known'
    BY <1>0, <2>1, <2>2 DEF CInv, Known, Later
  <2>5. Together'
    BY <1>0, <2>1, <2>2 DEF CInv, Together, Rechecked
  <2>6. StillThere' /\ Around'
    BY <1>0, <1>2, <2>1 DEF CInv, Building, Early, Built, StillThere, Around, Later
  <2>7. Building'
    <3>1. target = {} /\ records = <<>> /\ ~c.probed /\ \A q \in Packages : unit[q].at = "waiting"
      BY <1>0 DEF CInv, Building, Early
    <3> QED BY <2>1, <2>2, <3>1 DEF Building, Early, Built
  <2> QED BY <2>2, <2>3, <2>4, <2>5, <2>6, <2>7 DEF CInv
<1> QED BY <1>1, <1>2 DEF Snapshot

(* While Cargo runs, only records, units and target change.                *)
LEMMA CargoFrame ==
  ASSUME CInv, c.pc = "cargo", DOMAIN c' = CFields, c'.pc = "cargo", c'.run = c.run, c'.graph = c.graph /\ c'.meta = c.meta,
         c'.mem = c.mem, UNCHANGED <<scenario, disk, past, since, evidence, verdict>>,
         DOMAIN unit' = Packages, \A p \in Packages : DOMAIN unit'[p] = {"at", "pid", "saw"},
         \A i \in DOMAIN records' : DOMAIN records'[i] = {"unit", "cfg"}, Building', Around'
  PROVE  CInv'
<1>0. Bounds' = Bounds /\ Packages' = Packages /\ Files' = Files
  BY DEF Bounds, Packages, Files
<1>1. Shape' /\ Disk'
  BY <1>0 DEF CInv, Shape, Disk
<1>2. Resolving' /\ Known' /\ StillThere'
  BY <1>0 DEF CInv, Resolving, Known, StillThere, Later
<1>3. Together'
  BY DEF CInv, Together, Rechecked
<1>4. Reported'
  BY <1>0 DEF CInv, Reported, Captured, EveryUnitCaptured, GraphIsClosed, UnitsAreTheGraph
<1> QED BY <1>1, <1>2, <1>3, <1>4 DEF CInv

(* The files that are known are files, with versions.                      *)
LEMMA KnownFiles ==
  ASSUME CInv, c.pc # "idle"
  PROVE  DOMAIN c.mem \subseteq Files /\ \A f \in DOMAIN c.mem : disk[f] \in Nat
<1>1. c.graph \subseteq Packages
  BY NeedsIsLeast DEF CInv, Shape, Resolving
<1>2. DOMAIN c.mem \subseteq Manifests(c.graph) \cup {Lock, Source}
  BY DEF CInv, Shape, Known, Early, Built, Later
<1>3. DOMAIN c.mem \subseteq Files
  BY <1>1, <1>2, Distinct DEF Manifests
<1> QED BY <1>3, Constants DEF CInv, Disk, Shape

(* A step of Cargo after it has read the manifests.                        *)
LEMMA SameBuild ==
  ASSUME CInv, c.pc = "cargo", c.probed, c'.pc = "cargo", c'.mem = c.mem, c'.built = c.built, disk' = disk
  PROVE  Around'
BY DEF CInv, Around, Rechecked

(* The probe of the compiler leaves a record of its own.                   *)
LEMMA ProbeStep ==
  ASSUME CInv, NEW pid, Probe(pid)
  PROVE  CInv'
<1>0. /\ c.pc = "cargo" /\ ~c.probed /\ c' = [c EXCEPT !.probed = TRUE, !.built = disk] /\ DOMAIN c = CFields
      /\ UNCHANGED <<scenario, disk, past, since, unit, target, evidence, verdict>>
      /\ records' = [i \in DOMAIN records \cup {pid} |->
                       IF i = pid THEN [unit |-> "probe", cfg |-> FALSE] ELSE records[i]]
  BY DEF Probe, Recorded, CInv, Shape
<1>1. /\ DOMAIN c' = CFields /\ c'.pc = "cargo" /\ c'.run = c.run /\ c'.graph = c.graph /\ c'.meta = c.meta /\ c'.built = disk /\ c'.mem = c.mem
  BY <1>0 DEF CFields
<1>2. target = {} /\ records = <<>> /\ \A p \in Packages : unit[p].at = "waiting"
  BY <1>0 DEF CInv, Building
<1>3. Packages' = Packages /\ Bounds' = Bounds
  BY <1>0 DEF Packages, Bounds
<1>4. /\ \A i \in DOMAIN records' : DOMAIN records'[i] = {"unit", "cfg"}
      /\ \A i \in DOMAIN records' : records'[i].unit \in Whole(Bounds, disk) \cup {"probe"}
  BY <1>0, <1>2
<1>5. Building'
  BY <1>0, <1>1, <1>2, <1>3, <1>4 DEF Building, Early, Built
<1>6. Around'
  <2>1. Rechecked' = {} /\ c.pc # "idle"
    BY <1>0, <1>1 DEF Rechecked
  <2>2. \A f \in DOMAIN c.mem : c.mem[f] \in Nat /\ c.mem[f] <= disk[f] /\ disk[f] \in Nat
    BY <1>0, <2>1, KnownFiles DEF CInv, Known
  <2> QED BY <1>0, <1>1, <2>1, <2>2 DEF Around
<1> QED BY <1>0, <1>1, <1>4, <1>5, <1>6, CargoFrame DEF CInv, Shape

(* A unit leaves its record under a process id that has none.              *)
LEMMA StartUnitStep ==
  ASSUME CInv, NEW p \in Packages, NEW pid, StartUnit(p, pid)
  PROVE  CInv'
<1>0. /\ c.pc = "cargo" /\ c.probed /\ p \in Whole(Bounds, c.built) /\ p \notin target /\ unit[p].at = "waiting"
      /\ DOMAIN c = CFields
      /\ UNCHANGED <<scenario, disk, past, since, target, evidence, verdict>>
  BY DEF StartUnit, CInv, Shape
<1>a. Packages' = Packages /\ Bounds' = Bounds
  BY <1>0 DEF Packages, Bounds
<1>b. /\ \A i \in DOMAIN records : records[i].unit \in Whole(Bounds, c.built) \cup {"probe"}
      /\ \A q \in Packages : unit[q].at # "waiting" => \E i \in DOMAIN records : records[i].unit = q
      /\ \A q \in target : q \in Packages /\ unit[q].at = "done"
      /\ \A q \in Packages : unit[q].at = "done" =>
            unit[q].saw \in Nat /\ c.mem[Source] <= unit[q].saw /\ unit[q].saw <= disk[Source]
      /\ \A i \in DOMAIN records : DOMAIN records[i] = {"unit", "cfg"}
      /\ DOMAIN unit = Packages /\ \A q \in Packages : DOMAIN unit[q] = {"at", "pid", "saw"}
  BY <1>0 DEF CInv, Building, Shape
<1>1. CASE ~CreateNew(pid)
  <2>1. c' = [c EXCEPT !.failed = TRUE] /\ UNCHANGED <<records, unit>>
    BY <1>1 DEF StartUnit
  <2>2. /\ DOMAIN c' = CFields /\ c'.pc = "cargo" /\ c'.run = c.run /\ c'.graph = c.graph /\ c'.meta = c.meta /\ c'.built = c.built
        /\ c'.mem = c.mem /\ c'.probed = c.probed
    BY <1>0, <2>1 DEF CFields
  <2>3. Building'
    BY <1>0, <1>a, <1>b, <2>1, <2>2 DEF Building, Early, Built
  <2> QED BY <1>0, <1>b, <2>1, <2>2, <2>3, CargoFrame, SameBuild
<1>2. CASE CreateNew(pid)
  <2>1. /\ c' = c /\ pid \notin DOMAIN records
        /\ records' = [i \in DOMAIN records \cup {pid} |->
                         IF i = pid THEN [unit |-> p, cfg |-> FALSE] ELSE records[i]]
        /\ unit' = [unit EXCEPT ![p] = [at |-> "recorded", pid |-> pid, saw |-> -1]]
    BY <1>2 DEF StartUnit, Recorded, CreateNew
  <2>2. /\ DOMAIN records' = DOMAIN records \cup {pid} /\ records'[pid].unit = p
        /\ DOMAIN records'[pid] = {"unit", "cfg"}
        /\ \A i \in DOMAIN records : records'[i] = records[i]
    BY <2>1
  <2>3. /\ DOMAIN unit' = Packages /\ unit'[p].at = "recorded" /\ DOMAIN unit'[p] = {"at", "pid", "saw"}
        /\ \A q \in Packages : q # p => unit'[q] = unit[q]
    BY <1>b, <2>1
  <2>4. /\ \A i \in DOMAIN records' : records'[i].unit \in Whole(Bounds, c.built) \cup {"probe"}
        /\ \A i \in DOMAIN records' : DOMAIN records'[i] = {"unit", "cfg"}
    BY <1>0, <1>b, <2>2
  <2>5. \A q \in Packages : unit'[q].at # "waiting" => \E i \in DOMAIN records' : records'[i].unit = q
    BY <1>b, <2>2, <2>3
  <2>6. /\ \A q \in target : q \in Packages /\ unit'[q].at = "done"
        /\ \A q \in Packages : unit'[q].at = "done" =>
             unit'[q].saw \in Nat /\ c.mem[Source] <= unit'[q].saw /\ unit'[q].saw <= disk[Source]
        /\ \A q \in Packages : DOMAIN unit'[q] = {"at", "pid", "saw"}
    BY <1>0, <1>b, <2>3
  <2>7. Building'
    BY <1>0, <1>a, <2>1, <2>4, <2>5, <2>6 DEF Building, Early, Built
  <2> QED BY <1>0, <2>1, <2>3, <2>4, <2>6, <2>7, CargoFrame, SameBuild
<1> QED BY <1>1, <1>2

(* A unit's record is completed in place, or the unit fails.               *)
LEMMA QueryCfgStep ==
  ASSUME CInv, NEW p \in Packages, NEW ok \in BOOLEAN, QueryCfg(p, ok)
  PROVE  CInv'
<1>0. /\ c.pc = "cargo" /\ unit[p].at = "recorded" /\ DOMAIN c = CFields
      /\ UNCHANGED <<scenario, disk, past, since, target, evidence, verdict>>
  BY DEF QueryCfg, CInv, Shape
<1>a. Packages' = Packages /\ Bounds' = Bounds
  BY <1>0 DEF Packages, Bounds
<1>b. /\ \A i \in DOMAIN records : records[i].unit \in Whole(Bounds, c.built) \cup {"probe"}
      /\ \A q \in Packages : unit[q].at # "waiting" => \E i \in DOMAIN records : records[i].unit = q
      /\ \A q \in target : q \in Packages /\ unit[q].at = "done"
      /\ \A q \in Packages : unit[q].at = "done" =>
            unit[q].saw \in Nat /\ c.mem[Source] <= unit[q].saw /\ unit[q].saw <= disk[Source]
      /\ \A i \in DOMAIN records : DOMAIN records[i] = {"unit", "cfg"}
      /\ DOMAIN unit = Packages /\ \A q \in Packages : DOMAIN unit[q] = {"at", "pid", "saw"}
  BY <1>0 DEF CInv, Building, Shape
<1>c. c.probed
  BY <1>0 DEF CInv, Building
<1>1. CASE ok
  <2>1. /\ records' = [records EXCEPT ![unit[p].pid].cfg = TRUE]
        /\ unit' = [unit EXCEPT ![p].at = "queried"] /\ c' = c
    BY <1>1 DEF QueryCfg
  <2>2. /\ DOMAIN records' = DOMAIN records
        /\ \A i \in DOMAIN records : DOMAIN records'[i] = {"unit", "cfg"} /\ records'[i].unit = records[i].unit
    BY <1>b, <2>1
  <2>3. /\ DOMAIN unit' = Packages /\ unit'[p].at = "queried" /\ DOMAIN unit'[p] = {"at", "pid", "saw"}
        /\ \A q \in Packages : q # p => unit'[q] = unit[q]
    BY <1>b, <2>1
  <2>4. \A q \in Packages : unit'[q].at # "waiting" => \E i \in DOMAIN records' : records'[i].unit = q
    BY <1>0, <1>b, <2>2, <2>3
  <2>5. /\ \A q \in target : q \in Packages /\ unit'[q].at = "done"
        /\ \A q \in Packages : unit'[q].at = "done" =>
             unit'[q].saw \in Nat /\ c.mem[Source] <= unit'[q].saw /\ unit'[q].saw <= disk[Source]
        /\ \A q \in Packages : DOMAIN unit'[q] = {"at", "pid", "saw"}
    BY <1>0, <1>b, <2>3
  <2>6. Building'
    BY <1>0, <1>a, <1>b, <1>c, <2>1, <2>2, <2>4, <2>5 DEF Building, Early, Built
  <2> QED BY <1>0, <2>1, <2>2, <2>3, <2>5, <2>6, <1>c, CargoFrame, SameBuild
<1>2. CASE ~ok
  <2>1. c' = [c EXCEPT !.failed = TRUE] /\ unit' = [unit EXCEPT ![p] = Waiting] /\ records' = records
    BY <1>2 DEF QueryCfg
  <2>2. /\ DOMAIN c' = CFields /\ c'.pc = "cargo" /\ c'.run = c.run /\ c'.graph = c.graph /\ c'.meta = c.meta /\ c'.built = c.built
        /\ c'.mem = c.mem /\ c'.probed = c.probed
    BY <1>0, <2>1 DEF CFields
  <2>3. /\ DOMAIN unit' = Packages /\ unit'[p].at = "waiting" /\ DOMAIN unit'[p] = {"at", "pid", "saw"}
        /\ \A q \in Packages : q # p => unit'[q] = unit[q]
    BY <1>b, <2>1 DEF Waiting
  <2>4. /\ \A q \in Packages : unit'[q].at # "waiting" => \E i \in DOMAIN records : records[i].unit = q
        /\ \A q \in target : q \in Packages /\ unit'[q].at = "done"
        /\ \A q \in Packages : unit'[q].at = "done" =>
             unit'[q].saw \in Nat /\ c.mem[Source] <= unit'[q].saw /\ unit'[q].saw <= disk[Source]
        /\ \A q \in Packages : DOMAIN unit'[q] = {"at", "pid", "saw"}
    BY <1>0, <1>b, <2>3
  <2>5. Building'
    BY <1>0, <1>a, <1>b, <1>c, <2>1, <2>2, <2>4 DEF Building, Early, Built
  <2> QED BY <1>0, <1>b, <2>1, <2>2, <2>3, <2>4, <2>5, <1>c, CargoFrame, SameBuild
<1> QED BY <1>1, <1>2

(* A unit compiles the sources now on disk.                                *)
LEMMA CompileUnitStep ==
  ASSUME CInv, NEW p \in Packages, NEW ok \in BOOLEAN, CompileUnit(p, ok)
  PROVE  CInv'
<1>0. /\ c.pc = "cargo" /\ unit[p].at = "queried" /\ DOMAIN c = CFields
      /\ UNCHANGED <<scenario, disk, past, since, records, evidence, verdict>>
      /\ unit' = [unit EXCEPT ![p] = [at |-> "done", pid |-> 0, saw |-> disk[Source]]]
      /\ target' \subseteq target \cup {p} /\ c' \in {c, [c EXCEPT !.failed = TRUE]}
  BY DEF CompileUnit, CInv, Shape
<1>a. Packages' = Packages /\ Bounds' = Bounds
  BY <1>0 DEF Packages, Bounds
<1>b. /\ \A i \in DOMAIN records : records[i].unit \in Whole(Bounds, c.built) \cup {"probe"}
      /\ \A q \in Packages : unit[q].at # "waiting" => \E i \in DOMAIN records : records[i].unit = q
      /\ \A q \in target : q \in Packages /\ unit[q].at = "done"
      /\ \A q \in Packages : unit[q].at = "done" =>
            unit[q].saw \in Nat /\ c.mem[Source] <= unit[q].saw /\ unit[q].saw <= disk[Source]
      /\ \A i \in DOMAIN records : DOMAIN records[i] = {"unit", "cfg"}
      /\ DOMAIN unit = Packages /\ \A q \in Packages : DOMAIN unit[q] = {"at", "pid", "saw"}
  BY <1>0 DEF CInv, Building, Shape
<1>c. c.probed
  BY <1>0 DEF CInv, Building
<1>1. /\ DOMAIN c' = CFields /\ c'.pc = "cargo" /\ c'.run = c.run /\ c'.graph = c.graph /\ c'.meta = c.meta /\ c'.built = c.built
      /\ c'.mem = c.mem /\ c'.probed = c.probed
  BY <1>0 DEF CFields
<1>2. disk[Source] \in Nat /\ c.mem[Source] \in Nat /\ c.mem[Source] <= disk[Source]
  <2>1. disk[Source] \in Nat
    BY Constants, Distinct DEF CInv, Disk, Shape
  <2>2. Source \in DOMAIN c.mem
    BY <1>0 DEF CInv, Known
  <2> QED BY <1>0, <2>1, <2>2 DEF CInv, Known
<1>3. /\ DOMAIN unit' = Packages /\ unit'[p].at = "done" /\ DOMAIN unit'[p] = {"at", "pid", "saw"}
      /\ unit'[p].saw = disk[Source] /\ \A q \in Packages : q # p => unit'[q] = unit[q]
  BY <1>0, <1>b
<1>4. /\ \A q \in Packages : unit'[q].at # "waiting" => \E i \in DOMAIN records : records[i].unit = q
      /\ \A q \in target' : q \in Packages /\ unit'[q].at = "done"
      /\ \A q \in Packages : DOMAIN unit'[q] = {"at", "pid", "saw"}
  BY <1>0, <1>b, <1>3
<1>5. \A q \in Packages : unit'[q].at = "done" =>
           unit'[q].saw \in Nat /\ c.mem[Source] <= unit'[q].saw /\ unit'[q].saw <= disk[Source]
  BY <1>b, <1>2, <1>3
<1>6. Building'
  BY <1>0, <1>a, <1>b, <1>c, <1>1, <1>4, <1>5 DEF Building, Early, Built
<1> QED BY <1>0, <1>b, <1>1, <1>3, <1>4, <1>6, <1>c, CargoFrame, SameBuild

(* The build is complete: the rest of the capture looks at what it left.   *)
LEMMA Onward ==
  ASSUME CInv, Quiet, c.pc \in {"cargo"} \cup Built, c'.pc \in Built, DOMAIN c' = CFields,
         c'.run = c.run, c'.graph = c.graph /\ c'.meta = c.meta /\ c'.built = c.built, c'.mem = c.mem,
         c'.pc = "manifests" => c'.pending \in Seq(c.graph),
         c'.pc \in {"manifests", "publish"} => c.pc \in {"manifests", "publish"} \/ Agrees(Source),
         Whole(Bounds, c.built) \subseteq target,
         c.pc = "cargo" => c.probed, Rechecked' \subseteq DOMAIN c.mem,
         \A f \in Rechecked' : f \in Rechecked \/ Agrees(f)
  PROVE  CInv'
<1>0. c.pc # "idle" /\ c.pc \notin {"metadata", "resolve", "inventory"} /\ c.pc \notin Early /\ c.pc \notin Later
      /\ c'.pc \notin Early /\ c'.pc \notin Later /\ c'.pc \notin {"idle", "metadata", "resolve", "inventory", "cargo", "revalidate"}
  BY DEF Built, Early, Later
<1>1. /\ Shape' /\ Disk' /\ Reported' /\ Bounds' = Bounds /\ Packages' = Packages
      /\ UNCHANGED <<disk, past, since, records, unit, target>>
  BY <1>0, QuietFrame
<1>2. Resolving'
  BY <1>0, <1>1 DEF CInv, Resolving
<1>3. Known'
  BY <1>0, <1>1 DEF CInv, Known, Later
<1>4. Together'
  BY <1>0, <1>1 DEF CInv, Together, Agrees
<1>5. StillThere'
  BY <1>0 DEF StillThere
<1>a. Around'
  <2>1. /\ \A f \in DOMAIN c.mem : c.built[f] \in Nat /\ c.mem[f] <= c.built[f] /\ c.built[f] <= disk[f]
        /\ \A f \in Rechecked : c.built[f] = c.mem[f]
    BY DEF CInv, Around
  <2>2. \A f \in DOMAIN c.mem : c.mem[f] \in Nat /\ disk[f] \in Nat
    BY <1>0, KnownFiles DEF CInv, Known
  <2>3. \A f \in Rechecked' : c.built[f] = c.mem[f]
    BY <2>1, <2>2 DEF Agrees
  <2> QED BY <1>0, <1>1, <2>1, <2>3 DEF Around
<1>6. Building'
  <2>1. /\ \A i \in DOMAIN records : records[i].unit \in Whole(Bounds, c.built) \cup {"probe"}
        /\ \A p \in Packages : unit[p].at # "waiting" => \E i \in DOMAIN records : records[i].unit = p
        /\ \A p \in target : p \in Packages /\ unit[p].at = "done"
        /\ \A p \in Packages : unit[p].at = "done" =>
              unit[p].saw \in Nat /\ c.mem[Source] <= unit[p].saw /\ unit[p].saw <= disk[Source]
    BY DEF CInv, Building
  <2>2. Root \in target /\ Root \in Packages /\ c.mem[Source] \in Nat
    <3>1. Root \in Whole(Bounds, c.built)
      BY DEF Whole
    <3>2. Source \in DOMAIN c.mem
      <4>1. c.pc \in {"cargo", "decode", "sources", "manifests", "publish"}
        BY <1>0 DEF Built
      <4> QED BY <4>1 DEF CInv, Known
    <3> QED BY <1>0, <2>1, <3>1, <3>2 DEF CInv, Known
  <2>3. c'.pc \in {"manifests", "publish"} => unit[Root].saw = c.mem[Source]
    <3>1. CASE c.pc \in {"manifests", "publish"}
      BY <3>1 DEF CInv, Building
    <3>2. CASE disk[Source] = c.mem[Source]
      BY <2>1, <2>2, <3>2
    <3> QED BY <3>1, <3>2 DEF Agrees
  <2> QED BY <1>0, <1>1, <2>1, <2>3 DEF Building
<1> QED BY <1>1, <1>2, <1>3, <1>4, <1>5, <1>a, <1>6 DEF CInv

(* Cargo ends, and the capture decodes and rechecks what it left.          *)
LEMMA CheckSteps ==
  ASSUME CInv, CargoEnds \/ Decode \/ RecheckSources \/ RecheckManifest \/ RecheckWorkspace
  PROVE  CInv'
<1>0. DOMAIN c = CFields /\ Quiet /\ c.pc \in {"cargo"} \cup Built
  BY DEF CargoEnds, Decode, RecheckSources, RecheckManifest, RecheckWorkspace, CInv, Shape, Built
<1>1. c.pc \in Built => Whole(Bounds, c.built) \subseteq target
  BY DEF CInv, Building
<1>2. CASE c' = Idle(c.run)
  BY <1>0, <1>2, Resting DEF Quiet
<1>3. CASE CargoEnds /\ c' # Idle(c.run)
  <2>1. c.pc = "cargo" /\ c.probed /\ Whole(Bounds, c.built) \subseteq target /\ c' = [c EXCEPT !.pc = "decode"]
    BY <1>3 DEF CargoEnds, Goto
  <2>2. DOMAIN c' = CFields /\ c'.pc = "decode" /\ c'.run = c.run /\ c'.graph = c.graph /\ c'.meta = c.meta /\ c'.built = c.built /\ c'.mem = c.mem
    BY <1>0, <2>1 DEF CFields
  <2>3. Rechecked' = {}
    BY <2>2 DEF Rechecked
  <2> QED BY <1>0, <2>1, <2>2, <2>3, Onward DEF Built
<1>4. CASE Decode /\ c' # Idle(c.run)
  <2>1. c.pc = "decode" /\ c' = [c EXCEPT !.pc = "sources"]
    BY <1>4 DEF Decode
  <2>2. DOMAIN c' = CFields /\ c'.pc = "sources" /\ c'.run = c.run /\ c'.graph = c.graph /\ c'.meta = c.meta /\ c'.built = c.built /\ c'.mem = c.mem
    BY <1>0, <2>1 DEF CFields
  <2>3. Rechecked' = {}
    BY <2>2 DEF Rechecked
  <2> QED BY <1>0, <1>1, <2>1, <2>2, <2>3, Onward DEF Built
<1>5. CASE RecheckSources /\ c' # Idle(c.run)
  <2>1. c.pc = "sources" /\ Agrees(Source) /\ c' = [c EXCEPT !.pc = "manifests", !.pending = SetToSeq(c.graph)]
    BY <1>5 DEF RecheckSources
  <2>2. /\ DOMAIN c' = CFields /\ c'.pc = "manifests" /\ c'.run = c.run /\ c'.graph = c.graph /\ c'.meta = c.meta /\ c'.built = c.built /\ c'.mem = c.mem
        /\ c'.pending = SetToSeq(c.graph)
    BY <1>0, <2>1 DEF CFields
  <2>3. c.graph = Whole(Bounds, c.meta) /\ DOMAIN c.mem = Manifests(c.graph) \cup {Lock} \cup {Source}
    BY <2>1 DEF CInv, Resolving, Known
  <2>4. IsFiniteSet(c.graph)
    BY <2>3, NeedsIsLeast DEF CInv, Shape
  <2>5. c'.pending \in Seq(c.graph) /\ ToSet(c'.pending) = c.graph
    BY <2>2, <2>4, ListsAll
  <2>6. Rechecked' \subseteq {Source} /\ Rechecked' \subseteq DOMAIN c.mem
    BY <2>2, <2>3, <2>5 DEF Rechecked
  <2> QED BY <1>0, <1>1, <2>1, <2>2, <2>5, <2>6, Onward DEF Built
<1>6. CASE RecheckManifest /\ c' # Idle(c.run)
  <2> DEFINE p == Head(c.pending)
  <2>1. c.pc = "manifests" /\ c.pending # <<>> /\ Agrees(Manifest(p)) /\ c' = [c EXCEPT !.pending = Tail(@)]
    BY <1>6 DEF RecheckManifest
  <2>2. /\ DOMAIN c' = CFields /\ c'.pc = "manifests" /\ c'.run = c.run /\ c'.graph = c.graph /\ c'.meta = c.meta /\ c'.built = c.built /\ c'.mem = c.mem
        /\ c'.pending = Tail(c.pending)
    BY <1>0, <2>1 DEF CFields
  <2>3. c.pending \in Seq(c.graph)
    BY <2>1 DEF CInv, Resolving
  <2>4. Tail(c.pending) \in Seq(c.graph) /\ ToSet(c.pending) = {p} \cup ToSet(Tail(c.pending))
    BY <2>1, <2>3, HeadAndTail
  <2>5. Rechecked' \subseteq DOMAIN c.mem /\ \A f \in Rechecked' : f \in Rechecked \/ f = Manifest(p)
    BY <2>1, <2>2, <2>4 DEF Rechecked, Manifests
  <2> QED BY <1>0, <1>1, <2>1, <2>2, <2>4, <2>5, Onward DEF Built
<1>7. CASE RecheckWorkspace /\ c' # Idle(c.run)
  <2>1. c.pc = "manifests" /\ c.pending = <<>> /\ Agrees(Lock) /\ c' = [c EXCEPT !.pc = "publish"]
    BY <1>7 DEF RecheckWorkspace
  <2>2. DOMAIN c' = CFields /\ c'.pc = "publish" /\ c'.run = c.run /\ c'.graph = c.graph /\ c'.meta = c.meta /\ c'.built = c.built /\ c'.mem = c.mem
    BY <1>0, <2>1 DEF CFields
  <2>3. Rechecked' \subseteq DOMAIN c.mem /\ \A f \in Rechecked' : f \in Rechecked \/ f = Lock
    BY <2>1, <2>2, NoElements DEF Rechecked, Manifests
  <2> QED BY <1>0, <1>1, <2>1, <2>2, <2>3, Onward DEF Built
<1> QED BY <1>2, <1>3, <1>4, <1>5, <1>6, <1>7

(* The report is true when it is published.                                *)
LEMMA PublishStep ==
  ASSUME CInv, Publish
  PROVE  CInv'
<1> DEFINE N == Whole(Bounds, c.meta)
           M == Whole(Bounds, c.built)
           units == {records[i].unit : i \in DOMAIN records} \ {"probe"}
<1>0. /\ c.pc = "publish" /\ DOMAIN c = CFields /\ c' = [c EXCEPT !.pc = "captured"]
      /\ UNCHANGED <<scenario, disk, past, since, records, unit, target, verdict>>
      /\ evidence' = [v |-> "capture", run |-> c.run, mem |-> c.mem, saw |-> unit[Root].saw,
                      graph |-> c.graph, units |-> units, meta |-> c.meta, built |-> c.built]
      /\ scenario \in DOMAIN Scenarios
  BY DEF Publish, Goto, CInv, Shape, Units
<1> HIDE DEF units
<1>1. Bounds' = Bounds /\ Packages' = Packages /\ Files' = Files
  BY <1>0 DEF Bounds, Packages, Files
<1>2. DOMAIN c' = CFields /\ c'.pc = "captured" /\ c'.run = c.run /\ c'.graph = c.graph /\ c'.meta = c.meta /\ c'.built = c.built /\ c'.mem = c.mem
  BY <1>0 DEF CFields
<1>3. c.graph = N
  BY <1>0 DEF CInv, Resolving
<1>4. Shape' /\ Disk'
  BY <1>0, <1>1, <1>2 DEF CInv, Shape, Disk, Later
<1>5. Resolving'
  BY <1>1, <1>2, <1>3 DEF Resolving
<1>6. Known'
  BY <1>0, <1>2 DEF CInv, Known, Later
<1>7. Together' /\ StillThere' /\ Around' /\ Building'
  BY <1>2 DEF Together, StillThere, Around, Building, Early, Built
<1>8. Reported'
  <2>1. units = M
    <3>1. "probe" \notin M /\ M \subseteq Packages
      BY <1>0, Constants, NeedsIsLeast
    <3>2. \A i \in DOMAIN records : records[i].unit \in M \cup {"probe"}
      BY <1>0 DEF CInv, Building, Built
    <3>3. \A p \in M : \E i \in DOMAIN records : records[i].unit = p
      <4>1. M \subseteq target /\ \A p \in target : unit[p].at = "done"
        BY <1>0 DEF CInv, Building, Built
      <4> QED BY <1>0, <3>1, <4>1 DEF CInv, Building, Built
    <3> QED BY <3>1, <3>2, <3>3 DEF units
  <2>a. (\A p \in c.graph : c.meta[Manifest(p)] = c.mem[Manifest(p)]) => M = N
    <3> SUFFICES ASSUME \A p \in N : c.meta[Manifest(p)] = c.mem[Manifest(p)] PROVE M = N
      BY <1>3
    <3>1. \A f \in DOMAIN c.mem : c.built[f] = c.mem[f]
      BY <1>0 DEF CInv, Around, Rechecked, Built
    <3>2. \A p \in N : Manifest(p) \in DOMAIN c.mem
      BY <1>0, <1>3 DEF CInv, Known, Manifests, Later
    <3>3. \A p \in N : c.meta[Manifest(p)] = c.built[Manifest(p)]
      BY <3>1, <3>2
    <3> QED BY <1>0, <3>3, SameManifests
  <2>2. unit[Root].saw = c.mem[Source]
    BY <1>0 DEF CInv, Building
  <2>3. \E d \in past : \A f \in DOMAIN c.mem : d[f] = c.mem[f]
    BY <1>0 DEF CInv, Together, Built, Rechecked
  <2>4. verdict = None
    BY <1>0 DEF CInv, Reported
  <2>5. /\ evidence'.units = M /\ evidence'.graph = N /\ evidence'.meta = c.meta /\ evidence'.built = c.built
        /\ evidence'.mem = c.mem
    BY <1>0, <1>3, <2>1
  <2>6. EveryUnitCaptured' /\ GraphIsClosed' /\ UnitsAreTheGraph'
    BY <1>1, <1>3, <2>5, <2>a DEF EveryUnitCaptured, GraphIsClosed, UnitsAreTheGraph
  <2> QED BY <1>0, <1>2, <2>2, <2>3, <2>4, <2>6 DEF Reported
<1> QED BY <1>4, <1>5, <1>6, <1>7, <1>8 DEF CInv

-----------------------------------------------------------------------------
(* The verification that uses the capture.                                 *)

(* The sources are lowered: from here on the moments count anew.           *)
LEMMA LowerStep ==
  ASSUME CInv, Lower
  PROVE  CInv'
<1>0. /\ c.pc = "captured" /\ DOMAIN c = CFields
      /\ c' = [c EXCEPT !.pc = "bind", !.lowered = disk[Source]] /\ since' = {disk}
      /\ UNCHANGED <<scenario, disk, past, records, unit, target, evidence, verdict>>
  BY DEF Lower, CInv, Shape
<1>1. Bounds' = Bounds /\ Packages' = Packages /\ Files' = Files
  BY <1>0 DEF Bounds, Packages, Files
<1>2. DOMAIN c' = CFields /\ c'.pc = "bind" /\ c'.run = c.run /\ c'.graph = c.graph /\ c'.meta = c.meta /\ c'.built = c.built /\ c'.mem = c.mem
  BY <1>0 DEF CFields
<1>3. Shape' /\ Disk'
  BY <1>0, <1>1, <1>2 DEF CInv, Shape, Disk, Later
<1>4. Resolving' /\ Known'
  BY <1>0, <1>1, <1>2 DEF CInv, Resolving, Known, Later
<1>5. Together' /\ Around' /\ Building'
  BY <1>2 DEF Together, Around, Building, Early, Built
<1>6. StillThere'
  BY <1>0, <1>2 DEF StillThere, Revalidated
<1>7. Reported'
  BY <1>0, <1>1, <1>2 DEF CInv, Reported, Captured, EveryUnitCaptured, GraphIsClosed, UnitsAreTheGraph
<1> QED BY <1>3, <1>4, <1>5, <1>6, <1>7 DEF CInv

(* A step of the verification that only looks at the disk.                 *)
LEMMA Reviewing ==
  ASSUME CInv, Quiet, c.pc \in Later \ {"captured"}, c'.pc \in {"prove", "revalidate", "certify"},
         DOMAIN c' = CFields, c'.run = c.run, c'.graph = c.graph /\ c'.meta = c.meta /\ c'.built = c.built, c'.mem = c.mem, c'.lowered = c.lowered,
         c.lowered = c.mem[Source], c'.pc = "revalidate" => c'.pending \in Seq(DOMAIN c.mem),
         \A f \in Revalidated' : f \in Revalidated \/ Agrees(f)
  PROVE  CInv'
<1>0. /\ c.pc # "idle" /\ c.pc \in Later /\ c'.pc \in Later /\ c'.pc \notin Early
      /\ c'.pc \notin {"cargo"} \cup Built /\ c'.pc \notin {"idle", "metadata", "resolve", "manifests", "captured"}
      /\ c.pc \notin {"idle", "metadata", "resolve"}
  BY DEF Built, Early, Later
<1>1. /\ Shape' /\ Disk' /\ Reported' /\ Bounds' = Bounds /\ Packages' = Packages
      /\ UNCHANGED <<disk, past, since, records, unit, target>>
  BY <1>0, QuietFrame
<1>2. Resolving'
  BY <1>0, <1>1 DEF CInv, Resolving
<1>3. Known'
  BY <1>0, <1>1 DEF CInv, Known
<1>4. Together' /\ Around' /\ Building'
  BY <1>0 DEF Together, Around, Building, Early, Built
<1>5. StillThere'
  BY <1>0, <1>1 DEF CInv, StillThere, Agrees
<1> QED BY <1>1, <1>2, <1>3, <1>4, <1>5 DEF CInv

(* The verification binds, proves, revalidates and certifies.              *)
LEMMA VerifySteps ==
  ASSUME CInv, Verify
  PROVE  CInv'
<1>0. DOMAIN c = CFields
  BY DEF CInv, Shape
<1>1. CASE Return
  BY <1>1, Resting DEF Return, Quiet
<1>2. CASE Lower
  BY <1>2, LowerStep
<1>3. CASE BindSources
  <2>0. Quiet /\ c.pc = "bind"
    BY <1>3 DEF BindSources
  <2>1. CASE c' = Idle(c.run)
    BY <2>0, <2>1, Resting DEF Quiet
  <2>2. CASE c' # Idle(c.run)
    <3>1. c' = [c EXCEPT !.pc = "prove"] /\ c.lowered = c.mem[Source]
      BY <1>3, <2>2 DEF BindSources
    <3>2. /\ DOMAIN c' = CFields /\ c'.pc = "prove" /\ c'.run = c.run /\ c'.graph = c.graph /\ c'.meta = c.meta /\ c'.built = c.built /\ c'.mem = c.mem
          /\ c'.lowered = c.lowered
      BY <1>0, <3>1 DEF CFields
    <3>3. Revalidated' = {}
      BY <3>2 DEF Revalidated
    <3> QED BY <2>0, <3>1, <3>2, <3>3, Reviewing DEF Later
  <2> QED BY <2>1, <2>2
<1>4. CASE Prove
  <2>0. Quiet /\ c.pc = "prove" /\ c' = [c EXCEPT !.pc = "revalidate", !.pending = SetToSeq(DOMAIN c.mem)]
    BY <1>4 DEF Prove
  <2>1. /\ DOMAIN c' = CFields /\ c'.pc = "revalidate" /\ c'.run = c.run /\ c'.graph = c.graph /\ c'.meta = c.meta /\ c'.built = c.built /\ c'.mem = c.mem
        /\ c'.lowered = c.lowered /\ c'.pending = SetToSeq(DOMAIN c.mem)
    BY <1>0, <2>0 DEF CFields
  <2>2. IsFiniteSet(DOMAIN c.mem)
    <3>1. c.graph = Whole(Bounds, c.meta) /\ DOMAIN c.mem = Manifests(c.graph) \cup {Lock, Source}
      BY <2>0 DEF CInv, Resolving, Known, Later
    <3>2. IsFiniteSet(c.graph)
      BY <3>1, NeedsIsLeast DEF CInv, Shape
    <3>3. IsFiniteSet(Manifests(c.graph))
      <4> DEFINE h == [p \in c.graph |-> Manifest(p)]
      <4>1. h \in Surjection(c.graph, Manifests(c.graph))
        BY DEF Surjection, Manifests
      <4> QED BY <3>2, <4>1, FS_Surjection
    <3>4. IsFiniteSet({Lock, Source})
      <4>1. IsFiniteSet({Lock}) /\ IsFiniteSet({Lock} \cup {Source})
        BY FS_Singleton, FS_AddElement
      <4>2. {Lock} \cup {Source} = {Lock, Source}
        OBVIOUS
      <4> QED BY <4>1, <4>2
    <3> QED BY <3>1, <3>3, <3>4, FS_Union
  <2>3. c'.pending \in Seq(DOMAIN c.mem) /\ ToSet(c'.pending) = DOMAIN c.mem
    BY <2>1, <2>2, ListsAll
  <2>4. Revalidated' = {}
    BY <2>1, <2>3 DEF Revalidated
  <2>5. c.lowered = c.mem[Source]
    BY <2>0 DEF CInv, Known
  <2> QED BY <2>0, <2>1, <2>3, <2>4, <2>5, Reviewing DEF Later
<1>5. CASE Revalidate
  <2>0. Quiet /\ c.pc = "revalidate" /\ c.lowered = c.mem[Source] /\ c.pending \in Seq(DOMAIN c.mem)
    BY <1>5 DEF Revalidate, CInv, Known, Resolving
  <2>1. CASE c.pending = <<>>
    <3>1. c' = [c EXCEPT !.pc = "certify"]
      BY <1>5, <2>1 DEF Revalidate
    <3>2. /\ DOMAIN c' = CFields /\ c'.pc = "certify" /\ c'.run = c.run /\ c'.graph = c.graph /\ c'.meta = c.meta /\ c'.built = c.built /\ c'.mem = c.mem
          /\ c'.lowered = c.lowered
      BY <1>0, <3>1 DEF CFields
    <3>3. Revalidated' = Revalidated
      BY <2>0, <2>1, <3>2, NoElements DEF Revalidated
    <3> QED BY <2>0, <3>2, <3>3, Reviewing DEF Later
  <2>2. CASE c.pending # <<>> /\ Agrees(Head(c.pending))
    <3>1. c' = [c EXCEPT !.pending = Tail(@)]
      BY <1>5, <2>2 DEF Revalidate
    <3>2. /\ DOMAIN c' = CFields /\ c'.pc = "revalidate" /\ c'.run = c.run /\ c'.graph = c.graph /\ c'.meta = c.meta /\ c'.built = c.built /\ c'.mem = c.mem
          /\ c'.lowered = c.lowered /\ c'.pending = Tail(c.pending)
      BY <1>0, <2>0, <3>1 DEF CFields
    <3>3. /\ Tail(c.pending) \in Seq(DOMAIN c.mem)
          /\ ToSet(c.pending) = {Head(c.pending)} \cup ToSet(Tail(c.pending))
      BY <2>0, <2>2, HeadAndTail
    <3>4. \A f \in Revalidated' : f \in Revalidated \/ f = Head(c.pending)
      BY <2>0, <3>2, <3>3 DEF Revalidated
    <3> QED BY <2>0, <2>2, <3>2, <3>3, <3>4, Reviewing DEF Later
  <2>3. CASE c' = Idle(c.run)
    BY <2>0, <2>3, Resting DEF Quiet
  <2> QED BY <1>5, <2>1, <2>2, <2>3 DEF Revalidate
<1>6. CASE Certify
  <2>0. /\ c.pc = "certify" /\ c' = Idle(c.run)
        /\ verdict' = [v |-> "certified", lowered |-> c.lowered, mem |-> c.mem, units |-> Units]
        /\ UNCHANGED <<scenario, disk, past, since, records, unit, target, evidence>>
    BY <1>6 DEF Certify
  <2>1. Bounds' = Bounds /\ Packages' = Packages /\ Files' = Files
    BY <2>0 DEF Bounds, Packages, Files
  <2>2. DOMAIN c' = CFields /\ c'.pc = "idle" /\ c'.graph = {} /\ c'.run = c.run
    BY <2>0 DEF Idle, CFields
  <2>3. Shape' /\ Disk'
    BY <2>0, <2>1, <2>2 DEF CInv, Shape, Disk
  <2>4. Resolving' /\ Known' /\ Together' /\ StillThere' /\ Around' /\ Building'
    BY <2>2 DEF Resolving, Known, Together, StillThere, Around, Building, Early, Built, Later
  <2>5. c.lowered = c.mem[Source] /\ \E d \in since : \A f \in DOMAIN c.mem : d[f] = c.mem[f]
    BY <2>0 DEF CInv, Known, StillThere, Later, Revalidated
  <2>6. Reported'
    BY <2>0, <2>1, <2>2, <2>5 DEF CInv, Reported, Captured, EveryUnitCaptured, GraphIsClosed, UnitsAreTheGraph
  <2> QED BY <2>3, <2>4, <2>6 DEF CInv
<1> QED BY <1>1, <1>2, <1>3, <1>4, <1>5, <1>6 DEF Verify

(* Every step keeps the invariant.                                         *)
LEMMA Steps ==
  ASSUME CInv, [Next]_vars
  PROVE  CInv'
<1>1. CASE \E f \in Files : Edit(f)
  BY <1>1, Editing
<1>2. CASE Fail \/ Crash
  BY <1>2, Resting DEF Fail, Crash, Quiet
<1>3. CASE Begin \/ Metadata \/ Resolve \/ ReadWorkspace \/ ReadSources \/ Snapshot
  BY <1>3, BeginStep, MetadataStep, ResolveStep, ReadWorkspaceStep, ReadSourcesStep, SnapshotStep
<1>4. CASE Cargo
  BY <1>4, ProbeStep, StartUnitStep, QueryCfgStep, CompileUnitStep, CheckSteps DEF Cargo
<1>5. CASE Decode \/ RecheckSources \/ RecheckManifest \/ RecheckWorkspace
  BY <1>5, CheckSteps
<1>6. CASE Publish
  BY <1>6, PublishStep
<1>7. CASE Verify
  BY <1>7, VerifySteps
<1>8. CASE UNCHANGED vars
  <2>1. /\ Bounds' = Bounds /\ Packages' = Packages /\ Files' = Files
        /\ UNCHANGED <<scenario, disk, past, since, c, records, unit, target, evidence, verdict>>
    BY <1>8 DEF vars, Bounds, Packages, Files
  <2>2. Shape' /\ Disk'
    BY <2>1 DEF CInv, Shape, Disk
  <2>3. Resolving' /\ Known'
    BY <2>1 DEF CInv, Resolving, Known
  <2>4. Together' /\ StillThere'
    BY <2>1 DEF CInv, Together, StillThere, Rechecked, Revalidated
  <2>5. Around'
    BY <2>1 DEF CInv, Around, Rechecked
  <2>6. Building' /\ Reported'
    BY <2>1 DEF CInv, Building, Reported, Captured, EveryUnitCaptured, GraphIsClosed, UnitsAreTheGraph
  <2> QED BY <2>2, <2>3, <2>4, <2>5, <2>6 DEF CInv
<1> QED BY <1>1, <1>2, <1>3, <1>4, <1>5, <1>6, <1>7, <1>8 DEF Next

(* CInv holds throughout every behaviour.                                  *)
LEMMA Invariance == Spec => []CInv
<1>1. CInv /\ [Next]_vars => CInv'
  BY Steps
<1> QED BY <1>1, Starting, PTL DEF Spec

(* The manifests, the lock file and the sources of a report existed        *)
(* together, and the compiler read these sources, for any package graph    *)
(* and any edits meanwhile (cargo_capture.rs: capture).                    *)
THEOREM CapturesAreTogether == Spec => []CapturedTogether
<1>1. CInv => CapturedTogether
  BY DEF CInv, Reported, CapturedTogether
<1> QED BY <1>1, Invariance, PTL

(* A report has a record of every unit that Cargo built, and the closed    *)
(* graph of the metadata; the two agree unless a manifest of the graph was *)
(* edited between cargo metadata and its hash.  For any manifests, edits   *)
(* and reuse of process ids (cargo_capture.rs: WRAPPER, capture;           *)
(* cargo_subject.rs: inspect, resolve).                                    *)
THEOREM CapturesAreWhole == Spec => []WholeBuildCaptured
<1>1. CInv => WholeBuildCaptured
  BY DEF CInv, Reported, WholeBuildCaptured
<1> QED BY <1>1, Invariance, PTL

(* A capture that failed or was killed leaves no evidence of an earlier    *)
(* one (cargo_capture.rs: capture removes it first).                       *)
THEOREM FailuresLeaveNothing == Spec => []FailureRemovesSuccess
<1>1. CInv => FailureRemovesSuccess
  BY DEF CInv, Reported, FailureRemovesSuccess
<1> QED BY <1>1, Invariance, PTL

(* A method certificate rests on a capture that was still true of the disk *)
(* after its sources were lowered (methods/build.rs: revalidate).          *)
THEOREM CertificatesRestOnCaptures == Spec => []CaptureStillTrue
<1>1. CInv => CaptureStillTrue
  BY DEF CInv, Reported, CaptureStillTrue
<1> QED BY <1>1, Invariance, PTL
=============================================================================
