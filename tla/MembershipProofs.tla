-------------------------- MODULE MembershipProofs --------------------------
(* Quorums of one configuration, and of a joint configuration and either   *)
(* of the stable ones around it, always share a voter.                     *)
EXTENDS Membership, Integers, Sequences, FiniteSets, SequencesExt,
        FiniteSetTheorems, SequenceTheorems, TLAPS

(* Every set of naturals that is not empty has a least element.            *)
LEMMA LeastNatural ==
  ASSUME NEW T \in SUBSET Nat, T # {}
  PROVE  \E n \in T : \A k \in T : n <= k
<1> DEFINE Less == {p \in Nat \X Nat : p[1] < p[2]}
<1>1. IsWellFoundedOn(Less, Nat)
  BY NatLessThanWellFounded DEF OpToRel
<1>2. PICK n \in T : \A k \in T : <<k, n>> \notin Less
  <2> HIDE DEF Less
  <2> QED BY <1>1, WFMin
<1>3. \A k \in T : ~(k < n)
  <2> TAKE k \in T
  <2>1. k \in Nat /\ n \in Nat
    OBVIOUS
  <2>2. <<k, n>> \notin Less
    BY <1>2
  <2> QED BY <2>1, <2>2
<1> QED BY <1>3

(* Induction up to a bound, on the set of the naturals for which a fact    *)
(* holds.                                                                  *)
LEMMA Upward ==
  ASSUME NEW L \in Nat, NEW T, 0 \in T, \A n \in 1..L : n - 1 \in T => n \in T
  PROVE  0..L \subseteq T
<1> DEFINE bad == {n \in 0..L : n \notin T}
<1>1. SUFFICES ASSUME bad # {} PROVE FALSE
  OBVIOUS
<1>2. PICK k \in bad : \A n \in bad : k <= n
  <2>1. bad \in SUBSET Nat
    OBVIOUS
  <2> QED BY <1>1, <2>1, LeastNatural
<1>3. k \in 1..L /\ k - 1 \in 0..L /\ k - 1 \notin bad
  BY <1>2
<1> QED BY <1>2, <1>3

(* The head of a sequence and the elements of its tail are its elements.   *)
LEMMA HeadAndTail ==
  ASSUME NEW S, NEW s \in Seq(S), s # <<>>
  PROVE  /\ Head(s) \in S /\ Tail(s) \in Seq(S) /\ Len(s) \in Nat \ {0}
         /\ ToSet(s) = {Head(s)} \cup ToSet(Tail(s))
         /\ Len(s) = 1 => ToSet(s) = {Head(s)}
         /\ Len(s) # 1 => Tail(s) # <<>>
<1>1. Len(s) \in Nat /\ Len(s) # 0 /\ DOMAIN s = 1..Len(s)
  OBVIOUS
<1>2. Len(Tail(s)) = Len(s) - 1 /\ Tail(s) \in Seq(S) /\ DOMAIN Tail(s) = 1..Len(s) - 1
      /\ \A i \in 1..Len(s) - 1 : Tail(s)[i] = s[i + 1]
  OBVIOUS
<1>3. Head(s) = s[1]
  OBVIOUS
<1>4. ASSUME NEW i \in 1..Len(s) PROVE s[i] \in {Head(s)} \cup ToSet(Tail(s))
  <2>1. CASE i = 1
    BY <1>3, <2>1
  <2>2. CASE i # 1
    <3>1. i - 1 \in 1..Len(s) - 1 /\ Tail(s)[i - 1] = s[i]
      BY <1>1, <1>2, <2>2
    <3> QED BY <1>2, <3>1 DEF ToSet
  <2> QED BY <2>1, <2>2
<1>5. ASSUME NEW i \in 1..Len(s) - 1 PROVE Tail(s)[i] \in ToSet(s)
  BY <1>1, <1>2 DEF ToSet
<1>6. ToSet(s) = {Head(s)} \cup ToSet(Tail(s))
  BY <1>1, <1>2, <1>3, <1>4, <1>5 DEF ToSet
<1>7. Len(s) = 1 => ToSet(s) = {Head(s)}
  BY <1>1, <1>3 DEF ToSet
<1>8. Len(s) # 1 => Tail(s) # <<>>
  BY <1>1, <1>2
<1> QED BY <1>1, <1>2, <1>3, <1>6, <1>7, <1>8

(* An empty list has no elements.                                          *)
LEMMA NoElements == ToSet(<<>>) = {}
BY DEF ToSet

(* The values that a loop of L rounds goes through, from x on.             *)
Rounds(V, L, step, x) ==
  {f \in [0..L -> V] : f[0] = x /\ \A n \in 1..L : f[n] = step[n][f[n - 1]]}

(* They exist.                                                             *)
LEMMA Iterates ==
  ASSUME NEW V, NEW L \in Nat, NEW step \in [1..L -> [V -> V]], NEW x \in V
  PROVE  Rounds(V, L, step, x) # {}
<1> DEFINE Reaches(n) == \E f \in [0..n -> V] : f[0] = x /\ \A i \in 1..n : f[i] = step[i][f[i - 1]]
           T == {n \in 0..L : Reaches(n)}
<1>1. 0 \in T
  <2> DEFINE g == [i \in 0..0 |-> x]
  <2>1. g \in [0..0 -> V] /\ g[0] = x /\ 1..0 = {}
    OBVIOUS
  <2>2. Reaches(0)
    <3> HIDE DEF g
    <3> QED BY <2>1
  <2> QED BY <2>2
<1>2. ASSUME NEW n \in 1..L, n - 1 \in T PROVE n \in T
  <2>1. PICK f \in [0..(n - 1) -> V] : f[0] = x /\ \A i \in 1..(n - 1) : f[i] = step[i][f[i - 1]]
    BY <1>2
  <2> DEFINE g == [i \in 0..n |-> IF i = n THEN step[n][f[n - 1]] ELSE f[i]]
  <2>2. g \in [0..n -> V]
    BY <2>1
  <2>3. g[0] = x
    BY <2>1
  <2>4. ASSUME NEW i \in 1..n PROVE g[i] = step[i][g[i - 1]]
    <3>1. i - 1 \in 0..n /\ i - 1 # n /\ g[i - 1] = f[i - 1]
      OBVIOUS
    <3>2. CASE i = n
      BY <3>1, <3>2
    <3>3. CASE i # n
      BY <2>1, <3>1, <3>3
    <3> QED BY <3>2, <3>3
  <2>5. Reaches(n)
    <3> HIDE DEF g
    <3> QED BY <2>2, <2>3, <2>4
  <2> QED BY <2>5, SMTT(30)
<1> HIDE DEF T
<1>3. 0..L \subseteq T
  BY <1>1, <1>2, Upward
<1>4. Reaches(L)
  BY <1>3 DEF T
<1> QED BY <1>4 DEF Rounds

(* Two strict majorities of a finite set share an element of it            *)
(* (Membership::quorum counts more than half).                             *)
LEMMA MajoritiesIntersect ==
  ASSUME NEW S, IsFiniteSet(S), NEW A, NEW B, Majority(S, A), Majority(S, B)
  PROVE  S \cap A \cap B # {}
<1> DEFINE P == S \cap A
           Q == S \cap B
<1>1. IsFiniteSet(P) /\ IsFiniteSet(Q)
  BY FS_Subset
<1>2. P \cup Q \subseteq S
  OBVIOUS
<1>3. IsFiniteSet(P \cup Q) /\ Cardinality(P \cup Q) <= Cardinality(S)
  BY <1>2, FS_Subset
<1>4. Cardinality(S) \in Nat /\ Cardinality(P) \in Nat /\ Cardinality(Q) \in Nat
  BY <1>1, FS_CardinalityType
<1>5. Cardinality(P) + Cardinality(Q) > Cardinality(S)
  BY <1>4 DEF Majority
<1>6. ASSUME P \cap Q = {} PROVE FALSE
  <2>1. Cardinality(P \cap Q) = 0
    BY <1>6, FS_EmptySet
  <2>2. Cardinality(P \cup Q) = Cardinality(P) + Cardinality(Q) - Cardinality(P \cap Q)
    <3> HIDE DEF P, Q
    <3> QED BY <1>1, FS_Union
  <2> QED BY <1>3, <1>4, <1>5, <2>1, <2>2
<1> QED BY <1>6

(* Any two quorums of a configuration share a voter of it, joint or not    *)
(* (Membership::quorum as election_quorum and advance_commit use it).      *)
THEOREM QuorumsIntersect ==
  ASSUME NEW m \in Memberships, NEW A, NEW B, Quorum(m, A), Quorum(m, B)
  PROVE  m.voters \cap A \cap B # {}
<1>1. IsFiniteSet(m.voters)
  BY IdAssumption, FS_Subset DEF Memberships
<1> QED BY <1>1, MajoritiesIntersect DEF Quorum

(* A quorum before a membership change and a quorum after it share a node, *)
(* so neither an election nor a commit can happen on both sides apart      *)
(* (reconfigure, finish_reconfiguration, set_learners).                    *)
THEOREM AdjacentQuorumsIntersect ==
  ASSUME NEW m \in Memberships, NEW next \in Memberships, Adjacent(m, next),
         NEW A, NEW B, Quorum(m, A), Quorum(next, B)
  PROVE  A \cap B # {}
<1>1. IsFiniteSet(m.voters)
  BY IdAssumption, FS_Subset DEF Memberships
<1>2. Majority(m.voters, A)
  BY DEF Quorum
<1>3. Majority(m.voters, B)
  BY DEF Quorum, Adjacent
<1> QED BY <1>1, <1>2, <1>3, MajoritiesIntersect

(* More acknowledgements never take a quorum away.                         *)
LEMMA QuorumGrows ==
  ASSUME NEW m \in Memberships, NEW A, NEW B, A \subseteq B, Quorum(m, A)
  PROVE  Quorum(m, B)
<1>1. ASSUME NEW S \in SUBSET Id, Majority(S, A) PROVE Majority(S, B)
  <2>1. IsFiniteSet(S)
    BY IdAssumption, FS_Subset
  <2>2. IsFiniteSet(S \cap B) /\ S \cap A \subseteq S \cap B
    BY <2>1, FS_Subset
  <2>3. Cardinality(S \cap A) <= Cardinality(S \cap B) /\ IsFiniteSet(S \cap A)
    BY <2>2, FS_Subset
  <2>4. Cardinality(S) \in Nat /\ Cardinality(S \cap A) \in Nat /\ Cardinality(S \cap B) \in Nat
    BY <2>1, <2>2, <2>3, FS_CardinalityType
  <2> QED BY <1>1, <2>3, <2>4 DEF Majority
<1>2. m.voters \in SUBSET Id /\ m.old \in SUBSET Id
  BY DEF Memberships
<1> QED BY <1>1, <1>2 DEF Quorum

-----------------------------------------------------------------------------
(* Configurations are built by loops over their slots.                     *)

Kinds == {"voters", "old", "learners"}
Fields == Kinds \cup {"slots"}

(* A slot array without repetition that holds the members of each kind.    *)
Fit(x) ==
  /\ x \in Memberships
  /\ Ids(x.slots) = x.voters \cup x.old \cup x.learners
  /\ \A s, t \in Slot : x.slots[s] = x.slots[t] /\ s # t => x.slots[s] = None

(* Slots are numbers, and an occupied slot holds an identity.              *)
LEMMA Slots ==
  ASSUME NEW x \in Memberships
  PROVE  /\ DOMAIN x = Fields /\ DOMAIN x.slots = Slot
         /\ \A s \in Slot : s \in Nat /\ (x.slots[s] = None \/ x.slots[s] \in Id)
         /\ Ids(x.slots) \subseteq Id
         /\ \A id \in Id : id \in Ids(x.slots) <=> \E s \in Slot : x.slots[s] = id
         /\ \A k \in Kinds : x[k] \in SUBSET Id
<1>1. /\ DOMAIN x = Fields /\ x.slots \in [Slot -> Id \cup {None}]
      /\ \A k \in Kinds : x[k] \in SUBSET Id
  BY DEF Memberships, Fields, Kinds
<1>2. \A s \in Slot : s \in Nat
  BY MaxAssumption DEF Slot
<1> QED BY <1>1, <1>2, IdAssumption DEF Ids

(* A set of slots that is not empty has a first one.                       *)
LEMMA FirstSlot ==
  ASSUME NEW S \in SUBSET Slot, S # {}
  PROVE  First(S) \in S
<1>1. S \in SUBSET Nat
  BY MaxAssumption DEF Slot
<1>2. \E s \in S : \A t \in S : s <= t
  BY <1>1, LeastNatural
<1> QED BY <1>2 DEF First

(* include gives the identity one slot and the flag, and keeps the rest.   *)
LEMMA Included ==
  ASSUME NEW x, Fit(x), NEW id \in Id, NEW kind \in Kinds,
         \E s \in Slot : x.slots[s] \in {id, None}
  PROVE  LET y == Include(x, id, kind) IN
         /\ Fit(y) /\ Ids(y.slots) = Ids(x.slots) \cup {id}
         /\ y[kind] = x[kind] \cup {id}
         /\ \A k \in Kinds \ {kind} : y[k] = x[k]
<1> DEFINE y == Include(x, id, kind)
           same == {s \in Slot : x.slots[s] = id}
           holes == {s \in Slot : x.slots[s] = None}
           slot == First(IF same # {} THEN same ELSE holes)
<1>1. /\ DOMAIN x = Fields /\ x.slots \in [Slot -> Id \cup {None}] /\ x \in Memberships
      /\ \A k \in Kinds : x[k] \in SUBSET Id
  BY Slots DEF Fit, Memberships
<1>2. same \cup holes # {} /\ y = [x EXCEPT !.slots[slot] = id, ![kind] = @ \cup {id}]
  BY DEF Include
<1>3. /\ slot \in Slot /\ x.slots[slot] \in {id, None}
      /\ (\E s \in Slot : x.slots[s] = id) => x.slots[slot] = id
  BY <1>2, FirstSlot
<1> HIDE DEF slot
<1>4. /\ DOMAIN y = Fields /\ y.slots = [x.slots EXCEPT ![slot] = id]
      /\ y[kind] = x[kind] \cup {id} /\ \A k \in Kinds \ {kind} : y[k] = x[k]
  <2>1. kind # "slots" /\ kind \in Fields /\ "slots" \in Fields
    BY DEF Kinds, Fields
  <2> HIDE DEF y
  <2>2. DOMAIN y = Fields /\ y.slots = [x.slots EXCEPT ![slot] = id]
    BY <1>1, <1>2, <2>1
  <2>3. y[kind] = x[kind] \cup {id}
    BY <1>1, <1>2, <2>1
  <2>4. ASSUME NEW k \in Kinds \ {kind} PROVE y[k] = x[k]
    <3>1. k # "slots" /\ k \in Fields
      BY DEF Kinds, Fields
    <3> QED BY <1>1, <1>2, <2>1, <3>1
  <2> QED BY <2>2, <2>3, <2>4
<1> HIDE DEF y
<1>5. y.slots \in [Slot -> Id \cup {None}] /\ y.slots[slot] = id /\ \A s \in Slot \ {slot} : y.slots[s] = x.slots[s]
  BY <1>1, <1>3, <1>4
<1>6. y \in Memberships
  <2>1. /\ y.voters \in SUBSET Id /\ y.old \in SUBSET Id /\ y.learners \in SUBSET Id
    BY <1>1, <1>4 DEF Kinds
  <2>2. \E r \in Memberships : DOMAIN r = Fields /\ r = x
    BY <1>1
  <2>3. y = [slots |-> y.slots, voters |-> y.voters, old |-> y.old, learners |-> y.learners]
    BY <1>1, <1>2, <1>4 DEF Fields, Kinds, Memberships
  <2> QED BY <1>5, <2>1, <2>3 DEF Memberships
<1>7. Ids(y.slots) = Ids(x.slots) \cup {id}
  BY <1>1, <1>3, <1>5, IdAssumption DEF Ids
<1>8. \A s, t \in Slot : y.slots[s] = y.slots[t] /\ s # t => y.slots[s] = None
  BY <1>3, <1>5 DEF Fit
<1>9. Ids(y.slots) = y.voters \cup y.old \cup y.learners
  BY <1>4, <1>7 DEF Fit, Kinds
<1>10. Fit(y)
  BY <1>6, <1>8, <1>9 DEF Fit
<1> QED BY <1>4, <1>7, <1>10 DEF y
(* The members fit into the slots.                                         *)
LEMMA MembersFit ==
  ASSUME NEW x, Fit(x)
  PROVE  IsFiniteSet(Ids(x.slots)) /\ Cardinality(Ids(x.slots)) <= MAX
<1> DEFINE used == {s \in Slot : x.slots[s] # None}
           f == [s \in used |-> x.slots[s]]
<1>1. IsFiniteSet(Slot) /\ Cardinality(Slot) = MAX /\ MAX \in Nat
  <2>1. IsFiniteSet(1..MAX) /\ Cardinality(1..MAX) = IF 1 > MAX THEN 0 ELSE MAX - 1 + 1
    BY MaxAssumption, FS_Interval
  <2> QED BY <2>1, MaxAssumption DEF Slot
<1>2. IsFiniteSet(used) /\ Cardinality(used) <= MAX /\ Cardinality(used) \in Nat
  BY <1>1, FS_Subset, FS_CardinalityType
<1>3. f \in Surjection(used, Ids(x.slots))
  <2>1. DOMAIN x.slots = Slot
    BY Slots DEF Fit
  <2> QED BY <2>1 DEF Surjection, Ids
<1> HIDE DEF used, f
<1>4. IsFiniteSet(Ids(x.slots)) /\ Cardinality(Ids(x.slots)) <= Cardinality(used)
  BY <1>2, <1>3, FS_Surjection
<1>5. Cardinality(Ids(x.slots)) \in Nat
  BY <1>4, FS_CardinalityType
<1> QED BY <1>1, <1>2, <1>4, <1>5

(* include fails only when every slot has another member.                  *)
LEMMA Room ==
  ASSUME NEW x, Fit(x), NEW id \in Id, NEW kind \in Kinds,
         NEW W, IsFiniteSet(W), Cardinality(W) <= MAX, Ids(x.slots) \cup {id} \subseteq W
  PROVE  \E s \in Slot : x.slots[s] \in {id, None}
<1> DEFINE same == {s \in Slot : x.slots[s] = id}
           holes == {s \in Slot : x.slots[s] = None}
<1>1. ASSUME same \cup holes = {} PROVE FALSE
  <2>1. x.slots \in [Slot -> Id \cup {None}] /\ DOMAIN x.slots = Slot
    BY DEF Fit, Memberships
  <2>2. \A s \in Slot : x.slots[s] # None /\ x.slots[s] # id
    BY <1>1
  <2>3. x.slots \in Injection(Slot, Ids(x.slots))
    BY <2>1, <2>2 DEF Fit, Injection, Ids, IsInjective
  <2>4. id \notin Ids(x.slots)
    BY <2>1, <2>2 DEF Ids
  <2>5. IsFiniteSet(Slot) /\ Cardinality(Slot) = MAX /\ MAX \in Nat
    <3>1. IsFiniteSet(1..MAX) /\ Cardinality(1..MAX) = IF 1 > MAX THEN 0 ELSE MAX - 1 + 1
      BY MaxAssumption, FS_Interval
    <3> QED BY <3>1, MaxAssumption DEF Slot
  <2>6. IsFiniteSet(Ids(x.slots)) /\ Cardinality(Ids(x.slots)) \in Nat
    BY MembersFit, FS_CardinalityType
  <2>7. MAX <= Cardinality(Ids(x.slots))
    BY <2>3, <2>5, <2>6, FS_Injection
  <2>8. /\ IsFiniteSet(Ids(x.slots) \cup {id})
        /\ Cardinality(Ids(x.slots) \cup {id}) = Cardinality(Ids(x.slots)) + 1
    BY <2>4, <2>6, FS_AddElement
  <2>9. Cardinality(Ids(x.slots) \cup {id}) <= Cardinality(W) /\ Cardinality(W) \in Nat
    BY FS_Subset, FS_CardinalityType
  <2> QED BY <2>5, <2>6, <2>7, <2>8, <2>9
<1> QED BY <1>1

(* What one round of a loop of includes does.                              *)
LEMMA IncludeRound ==
  ASSUME NEW x, Fit(x), NEW id \in Id, NEW kind \in Kinds
  PROVE  LET y == Include(x, id, kind) IN
         /\ y = None \/ y \in Memberships
         /\ y # None => /\ Fit(y) /\ Ids(y.slots) = Ids(x.slots) \cup {id}
                        /\ y[kind] = x[kind] \cup {id}
                        /\ \A k \in Kinds \ {kind} : y[k] = x[k]
         /\ \A W : IsFiniteSet(W) /\ Cardinality(W) <= MAX /\ Ids(x.slots) \cup {id} \subseteq W => y # None
<1> DEFINE y == Include(x, id, kind)
<1>1. CASE \E s \in Slot : x.slots[s] \in {id, None}
  <2>1. /\ Fit(y) /\ Ids(y.slots) = Ids(x.slots) \cup {id}
        /\ y[kind] = x[kind] \cup {id} /\ \A k \in Kinds \ {kind} : y[k] = x[k]
    BY <1>1, Included
  <2> HIDE DEF y
  <2>2. y \in Memberships /\ y # None
    BY <2>1, NoneAssumption DEF Fit
  <2> QED BY <2>1, <2>2 DEF y
<1>2. CASE ~ \E s \in Slot : x.slots[s] \in {id, None}
  <2>1. y = None
    BY <1>2 DEF Include
  <2> HIDE DEF y
  <2> QED BY <1>2, <2>1, Room DEF y
<1> QED BY <1>1, <1>2

(* The configurations that a loop of includes goes through.                *)
LEMMA IncludeRounds ==
  ASSUME NEW x, Fit(x), NEW ids \in Seq(Id), NEW kind \in Kinds
  PROVE  \E f : /\ IncludeAll(x, ids, kind) = f[Len(ids)] /\ f[0] = x
                /\ \A n \in 1..Len(ids) :
                     f[n] = IF f[n - 1] = None THEN None ELSE Include(f[n - 1], ids[n], kind)
<1> DEFINE V == {z \in Memberships : Fit(z)} \cup {None}
           L == Len(ids)
           Round(n, z) == IF z = None THEN None ELSE Include(z, ids[n], kind)
           step == [n \in 1..L |-> [z \in V |-> Round(n, z)]]
           Is(f) == f = [n \in 0..L |-> IF n = 0 THEN x ELSE Round(n, f[n - 1])]
<1>1. L \in Nat /\ x \in V /\ \A n \in 1..L : ids[n] \in Id
  BY DEF Fit
<1>2. ASSUME NEW n \in 1..L, NEW z \in V PROVE Round(n, z) \in V
  <2>1. CASE z = None
    BY <2>1
  <2>2. CASE z # None
    <3>1. Fit(z) /\ ids[n] \in Id
      BY <1>1, <2>2
    <3> DEFINE y == Include(z, ids[n], kind)
    <3>2. y = None \/ Fit(y)
      BY <3>1, IncludeRound
    <3> HIDE DEF y
    <3>3. y \in V
      BY <3>2 DEF Fit
    <3> QED BY <2>2, <3>3 DEF y
  <2> QED BY <2>1, <2>2
<1> HIDE DEF V, Round
<1>3. step \in [1..L -> [V -> V]]
  BY <1>2
<1>4. PICK g \in [0..L -> V] : g[0] = x /\ \A n \in 1..L : g[n] = step[n][g[n - 1]]
  <2> HIDE DEF step, L
  <2>1. Rounds(V, L, step, x) # {}
    BY <1>1, <1>3, Iterates
  <2> QED BY <2>1 DEF Rounds
<1>5. Is(g)
  <2>1. \A n \in 1..L : n - 1 \in 0..L /\ g[n] = Round(n, g[n - 1])
    BY <1>1, <1>4
  <2> QED BY <1>1, <1>4, <2>1
<1> DEFINE h == CHOOSE f : Is(f)
<1>6. Is(h)
  BY <1>5
<1>7. IncludeAll(x, ids, kind) = h[L]
  BY DEF IncludeAll, Round
<1> HIDE DEF h
<1>8. h[0] = x /\ \A n \in 1..L : h[n] = Round(n, h[n - 1])
  BY <1>1, <1>6
<1> QED BY <1>7, <1>8 DEF Round

(* What a loop of includes does, and when it cannot fail.                  *)
LEMMA AllIncluded ==
  ASSUME NEW x, Fit(x), NEW ids \in Seq(Id), NEW kind \in Kinds
  PROVE  LET y == IncludeAll(x, ids, kind) IN
         /\ y # None => /\ Fit(y) /\ Ids(y.slots) = Ids(x.slots) \cup ToSet(ids)
                        /\ y[kind] = x[kind] \cup ToSet(ids)
                        /\ \A k \in Kinds \ {kind} : y[k] = x[k]
         /\ \A W : IsFiniteSet(W) /\ Cardinality(W) <= MAX /\ Ids(x.slots) \cup ToSet(ids) \subseteq W
                      => y # None
<1> DEFINE L == Len(ids)
           Seen(n) == {ids[i] : i \in 1..n}
           Fits(W) == IsFiniteSet(W) /\ Cardinality(W) <= MAX /\ Ids(x.slots) \cup ToSet(ids) \subseteq W
<1>1. PICK f : /\ IncludeAll(x, ids, kind) = f[L] /\ f[0] = x
               /\ \A n \in 1..L : f[n] = IF f[n - 1] = None THEN None ELSE Include(f[n - 1], ids[n], kind)
  BY IncludeRounds
<1> DEFINE Good(n) == /\ f[n] # None => /\ Fit(f[n]) /\ Ids(f[n].slots) = Ids(x.slots) \cup Seen(n)
                                        /\ f[n][kind] = x[kind] \cup Seen(n)
                                        /\ \A k \in Kinds \ {kind} : f[n][k] = x[k]
                      /\ \A W : Fits(W) => f[n] # None
           T == {n \in 0..L : Good(n)}
<1>2. L \in Nat /\ Seen(L) = ToSet(ids) /\ \A n \in 1..L : ids[n] \in Id /\ ids[n] \in ToSet(ids)
  BY DEF ToSet
<1>3. 0 \in T
  <2>1. x # None
    BY NoneAssumption DEF Fit
  <2>2. Seen(0) = {}
    OBVIOUS
  <2>3. Good(0)
    BY <1>1, <2>1, <2>2
  <2> QED BY <1>2, <2>3
<1>4. ASSUME NEW n \in 1..L, n - 1 \in T PROVE n \in T
  <2>1. /\ n \in Nat /\ n - 1 \in 0..L /\ Good(n - 1)
        /\ f[n] = IF f[n - 1] = None THEN None ELSE Include(f[n - 1], ids[n], kind)
    BY <1>1, <1>2, <1>4
  <2>2. Seen(n) = Seen(n - 1) \cup {ids[n]}
    <3>1. \A i : i \in 1..n <=> i \in 1..(n - 1) \/ i = n
      BY <2>1
    <3> QED BY <3>1
  <2>3. Seen(n) \subseteq ToSet(ids)
    BY <1>2
  <2> DEFINE z == f[n - 1]
             y == f[n]
  <2>4. CASE z = None
    BY <2>1, <2>4
  <2>5. CASE z # None
    <3> HIDE DEF Seen, Fits
    <3>1. Fit(z) /\ Ids(z.slots) = Ids(x.slots) \cup Seen(n - 1)
          /\ z[kind] = x[kind] \cup Seen(n - 1) /\ \A k \in Kinds \ {kind} : z[k] = x[k]
      BY <2>1, <2>5
    <3>2. y = Include(z, ids[n], kind) /\ ids[n] \in Id
      BY <1>2, <2>1, <2>5
    <3> HIDE DEF z, y
    <3>3. /\ y # None => /\ Fit(y) /\ Ids(y.slots) = Ids(z.slots) \cup {ids[n]}
                         /\ y[kind] = z[kind] \cup {ids[n]}
                         /\ \A k \in Kinds \ {kind} : y[k] = z[k]
          /\ \A W : IsFiniteSet(W) /\ Cardinality(W) <= MAX /\ Ids(z.slots) \cup {ids[n]} \subseteq W => y # None
      BY <3>1, <3>2, IncludeRound
    <3>4. y # None => /\ Fit(y) /\ Ids(y.slots) = Ids(x.slots) \cup Seen(n)
                      /\ y[kind] = x[kind] \cup Seen(n)
                      /\ \A k \in Kinds \ {kind} : y[k] = x[k]
      BY <2>2, <3>1, <3>3
    <3>5. ASSUME NEW W, Fits(W) PROVE y # None
      BY <2>2, <2>3, <3>1, <3>3, <3>5 DEF Fits
    <3>6. Good(n)
      BY <3>4, <3>5 DEF y
    <3> QED BY <2>1, <3>6
  <2> QED BY <2>4, <2>5
<1> HIDE DEF T
<1>5. 0..L \subseteq T
  BY <1>2, <1>3, <1>4, Upward
<1>6. Good(L)
  BY <1>2, <1>5 DEF T
<1> QED BY <1>1, <1>2, <1>6

(* A new element appended to a list without repetition.                    *)
LEMMA AppendedOnce ==
  ASSUME NEW S, NEW l \in Seq(S), NEW e \in S
  PROVE  /\ Append(l, e) \in Seq(S) /\ ToSet(Append(l, e)) = ToSet(l) \cup {e}
         /\ NoRepeat(l) /\ e \notin ToSet(l) => NoRepeat(Append(l, e))
<1> DEFINE r == Append(l, e)
           n == Len(l)
<1>1. /\ n \in Nat /\ r \in Seq(S) /\ DOMAIN l = 1..n /\ DOMAIN r = 1..(n + 1)
      /\ r[n + 1] = e /\ \A i \in 1..n : r[i] = l[i]
  OBVIOUS
<1> HIDE DEF r, n
<1>2. \A i \in DOMAIN r : (i \in DOMAIN l /\ i # n + 1) \/ i = n + 1
  BY <1>1
<1>3. ToSet(r) = ToSet(l) \cup {e}
  BY <1>1, <1>2 DEF ToSet
<1>4. ASSUME NoRepeat(l), e \notin ToSet(l) PROVE NoRepeat(r)
  <2>1. \A i \in 1..n : r[i] # e
    BY <1>1, <1>4 DEF ToSet
  <2> QED BY <1>1, <1>2, <1>4, <2>1 DEF NoRepeat
<1> QED BY <1>1, <1>3, <1>4 DEF r

(* The members with a flag are listed once each.                           *)
LEMMA Listed ==
  ASSUME NEW x, Fit(x), NEW J \in SUBSET Id
  PROVE  LET l == InOrder(x, J) IN
         l \in Seq(Id) /\ ToSet(l) = J \cap Ids(x.slots) /\ NoRepeat(l)
<1> DEFINE V == Seq(Id)
           Round(s, l) == IF x.slots[s] \in J THEN Append(l, x.slots[s]) ELSE l
           step == [s \in 1..MAX |-> [l \in V |-> Round(s, l)]]
           Is(f) == f = [s \in 0..MAX |-> IF s = 0 THEN <<>> ELSE Round(s, f[s - 1])]
<1>1. MAX \in Nat /\ <<>> \in V
  BY MaxAssumption
<1>2. ASSUME NEW s \in 1..MAX, NEW l \in V PROVE Round(s, l) \in V
  OBVIOUS
<1> HIDE DEF V, Round
<1>3. step \in [1..MAX -> [V -> V]]
  BY <1>2
<1>4. PICK g \in [0..MAX -> V] : g[0] = <<>> /\ \A s \in 1..MAX : g[s] = step[s][g[s - 1]]
  <2> HIDE DEF step
  <2>1. Rounds(V, MAX, step, <<>>) # {}
    BY <1>1, <1>3, Iterates
  <2> QED BY <2>1 DEF Rounds
<1>5. Is(g)
  <2>1. ASSUME NEW s \in 1..MAX PROVE s - 1 \in 0..MAX /\ g[s] = Round(s, g[s - 1])
    <3>1. s - 1 \in 0..MAX
      BY <1>1
    <3>2. g[s - 1] \in V /\ g[s] = step[s][g[s - 1]]
      BY <1>4, <3>1
    <3>3. \A l \in V : step[s][l] = Round(s, l)
      OBVIOUS
    <3> QED BY <3>1, <3>2, <3>3
  <2> QED BY <1>1, <1>4, <2>1
<1> DEFINE h == CHOOSE f : Is(f)
<1>6. Is(h)
  BY <1>5
<1>7. InOrder(x, J) = h[MAX]
  BY DEF InOrder, Round
<1> HIDE DEF h
<1>8. h[0] = <<>> /\ \A s \in 1..MAX : h[s] = Round(s, h[s - 1])
  BY <1>1, <1>6
<1> DEFINE Held(n) == {x.slots[s] : s \in 1..n} \cap J
           Good(n) == h[n] \in Seq(Id) /\ ToSet(h[n]) = Held(n) /\ NoRepeat(h[n])
           T == {n \in 0..MAX : Good(n)}
<1>9. 0 \in T
  <2>1. Held(0) = {}
    OBVIOUS
  <2>2. NoRepeat(<<>>) /\ ToSet(<<>>) = {}
    BY NoElements DEF NoRepeat
  <2>3. Good(0)
    BY <1>8, <2>1, <2>2
  <2> QED BY <1>1, <2>3
<1>10. ASSUME NEW n \in 1..MAX, n - 1 \in T PROVE n \in T
  <2>1. n \in Nat /\ Good(n - 1) /\ h[n] = Round(n, h[n - 1])
    BY <1>1, <1>8, <1>10
  <2>2. Held(n) = Held(n - 1) \cup ({x.slots[n]} \cap J)
    <3>1. \A i : i \in 1..n <=> i \in 1..(n - 1) \/ i = n
      BY <2>1
    <3> QED BY <3>1
  <2> DEFINE l == h[n - 1]
             e == x.slots[n]
  <2>3. CASE e \notin J
    <3>1. h[n] = l /\ Held(n) = Held(n - 1)
      BY <2>1, <2>2, <2>3 DEF Round
    <3> HIDE DEF Held
    <3>2. Good(n)
      BY <2>1, <3>1
    <3> QED BY <1>1, <3>2
  <2>4. CASE e \in J
    <3>1. h[n] = Append(l, e) /\ e \in Id /\ e # None
      BY <2>1, <2>4, IdAssumption DEF Round
    <3>2. e \notin Held(n - 1)
      <4>1. \A s \in 1..(n - 1) : s \in Slot /\ n \in Slot /\ s # n
        BY <1>1 DEF Slot
      <4> QED BY <3>1, <4>1 DEF Fit
    <3>3. l \in Seq(Id) /\ ToSet(l) = Held(n - 1) /\ NoRepeat(l)
      BY <2>1
    <3>4. Held(n) = Held(n - 1) \cup {e}
      BY <2>2, <2>4
    <3> HIDE DEF Held, l, e
    <3>5. Append(l, e) \in Seq(Id) /\ ToSet(Append(l, e)) = ToSet(l) \cup {e} /\ NoRepeat(Append(l, e))
      BY <3>1, <3>2, <3>3, AppendedOnce
    <3>6. Good(n)
      BY <3>1, <3>3, <3>4, <3>5
    <3> QED BY <1>1, <3>6
  <2> QED BY <2>3, <2>4
<1> HIDE DEF T
<1>11. 0..MAX \subseteq T
  BY <1>1, <1>9, <1>10, Upward
<1>12. Good(MAX)
  BY <1>1, <1>11 DEF T
<1>13. Held(MAX) = J \cap Ids(x.slots)
  BY Slots, IdAssumption DEF Fit, Ids, Slot
<1> HIDE DEF Held
<1> QED BY <1>7, <1>12, <1>13

-----------------------------------------------------------------------------
(* The configuration that every loop starts from.                          *)
LEMMA EmptyFits ==
  /\ Fit(Empty) /\ Ids(Empty.slots) = {}
  /\ Empty.voters = {} /\ Empty.old = {} /\ Empty.learners = {}
<1>1. Empty \in Memberships
  BY DEF Empty, Memberships
<1>2. Ids(Empty.slots) = {} /\ \A s \in Slot : Empty.slots[s] = None
  BY DEF Empty, Ids
<1>3. Empty.voters = {} /\ Empty.old = {} /\ Empty.learners = {}
  BY DEF Empty
<1> QED BY <1>1, <1>2, <1>3 DEF Fit

(* restore has exactly the members it is given, and refuses lists only for *)
(* their repetitions, clashes or number.                                   *)
LEMMA Restored ==
  ASSUME NEW vs \in Seq(Id), NEW olds \in Seq(Id), NEW ls \in Seq(Id)
  PROVE  LET y == Restore(vs, olds, ls)
             all == ToSet(vs) \cup ToSet(olds) \cup ToSet(ls)
         IN  /\ y # None => /\ Fit(y) /\ Ids(y.slots) = all
                            /\ y.voters = ToSet(vs) /\ y.old = ToSet(olds) /\ y.learners = ToSet(ls)
                            /\ vs # <<>> /\ ToSet(ls) \cap ToSet(vs) = {}
             /\ /\ vs # <<>> /\ NoRepeat(vs) /\ NoRepeat(ls) /\ NoRepeat(olds)
                /\ ToSet(ls) \cap ToSet(vs) = {}
                /\ \E W : IsFiniteSet(W) /\ Cardinality(W) <= MAX /\ all \subseteq W
                => y # None
<1> DEFINE all == ToSet(vs) \cup ToSet(olds) \cup ToSet(ls)
           accepted == /\ vs # <<>> /\ NoRepeat(vs) /\ NoRepeat(ls) /\ NoRepeat(olds)
                       /\ ToSet(ls) \cap ToSet(vs) = {}
           m1 == IncludeAll(Empty, vs, "voters")
           m2 == IncludeAll(m1, ls, "learners")
           m3 == IncludeAll(m2, olds, "old")
           Fits(W) == IsFiniteSet(W) /\ Cardinality(W) <= MAX /\ all \subseteq W
           y == Restore(vs, olds, ls)
<1>1. y = IF ~accepted \/ m1 = None \/ m2 = None THEN None ELSE m3
  BY DEF Restore
<1>2. /\ m1 # None => /\ Fit(m1) /\ Ids(m1.slots) = ToSet(vs)
                      /\ m1.voters = ToSet(vs) /\ m1.old = {} /\ m1.learners = {}
      /\ \A W : Fits(W) => m1 # None
  <2>1. /\ m1 # None => /\ Fit(m1) /\ Ids(m1.slots) = Ids(Empty.slots) \cup ToSet(vs)
                        /\ m1["voters"] = Empty["voters"] \cup ToSet(vs)
                        /\ \A k \in Kinds \ {"voters"} : m1[k] = Empty[k]
        /\ \A W : IsFiniteSet(W) /\ Cardinality(W) <= MAX /\ Ids(Empty.slots) \cup ToSet(vs) \subseteq W
                      => m1 # None
    BY EmptyFits, AllIncluded DEF Kinds
  <2> HIDE DEF m1
  <2> QED BY <2>1, EmptyFits DEF Kinds
<1>3. ASSUME m1 # None
      PROVE  /\ m2 # None => /\ Fit(m2) /\ Ids(m2.slots) = ToSet(vs) \cup ToSet(ls)
                             /\ m2.voters = ToSet(vs) /\ m2.old = {} /\ m2.learners = ToSet(ls)
             /\ \A W : Fits(W) => m2 # None
  <2> HIDE DEF m1
  <2>1. /\ m2 # None => /\ Fit(m2) /\ Ids(m2.slots) = Ids(m1.slots) \cup ToSet(ls)
                        /\ m2["learners"] = m1["learners"] \cup ToSet(ls)
                        /\ \A k \in Kinds \ {"learners"} : m2[k] = m1[k]
        /\ \A W : IsFiniteSet(W) /\ Cardinality(W) <= MAX /\ Ids(m1.slots) \cup ToSet(ls) \subseteq W
                      => m2 # None
    BY <1>2, <1>3, AllIncluded DEF Kinds
  <2> HIDE DEF m2
  <2> QED BY <1>2, <1>3, <2>1 DEF Kinds
<1>4. ASSUME m1 # None, m2 # None
      PROVE  /\ m3 # None => /\ Fit(m3) /\ Ids(m3.slots) = all
                             /\ m3.voters = ToSet(vs) /\ m3.old = ToSet(olds) /\ m3.learners = ToSet(ls)
             /\ \A W : Fits(W) => m3 # None
  <2> HIDE DEF m2
  <2>1. /\ m3 # None => /\ Fit(m3) /\ Ids(m3.slots) = Ids(m2.slots) \cup ToSet(olds)
                        /\ m3["old"] = m2["old"] \cup ToSet(olds)
                        /\ \A k \in Kinds \ {"old"} : m3[k] = m2[k]
        /\ \A W : IsFiniteSet(W) /\ Cardinality(W) <= MAX /\ Ids(m2.slots) \cup ToSet(olds) \subseteq W
                      => m3 # None
    BY <1>3, <1>4, AllIncluded DEF Kinds
  <2> HIDE DEF m3
  <2> QED BY <1>3, <1>4, <2>1 DEF Kinds
<1> HIDE DEF m1, m2, m3
<1>5. y # None => /\ Fit(y) /\ Ids(y.slots) = all
                  /\ y.voters = ToSet(vs) /\ y.old = ToSet(olds) /\ y.learners = ToSet(ls)
                  /\ vs # <<>> /\ ToSet(ls) \cap ToSet(vs) = {}
  <2> HIDE DEF all, y
  <2> QED BY <1>1, <1>4
<1>6. ASSUME accepted, NEW W, Fits(W) PROVE y # None
  <2> HIDE DEF accepted, Fits, y
  <2> QED BY <1>1, <1>2, <1>3, <1>4, <1>6
<1> QED BY <1>5, <1>6

-----------------------------------------------------------------------------
(* The position that a quorum has reached.                                 *)

(* The element of rank k exists: the least number with more than k         *)
(* positions up to it.                                                     *)
LEMMA RankExists ==
  ASSUME NEW S, IsFiniteSet(S), NEW f, \A id \in S : f[id] \in Nat,
         NEW k \in Nat, k < Cardinality(S)
  PROVE  LET p == RankOf(S, f, k) IN
         /\ p \in Nat
         /\ Cardinality({id \in S : f[id] < p}) <= k
         /\ k < Cardinality({id \in S : f[id] <= p})
<1> DEFINE Upto(n) == {id \in S : f[id] <= n}
           Before(n) == {id \in S : f[id] < n}
           N == Cardinality(S)
           G == {n \in Nat : k < Cardinality(Upto(n))}
<1>1. /\ N \in Nat
      /\ \A n : /\ IsFiniteSet(Upto(n)) /\ Cardinality(Upto(n)) \in Nat /\ Cardinality(Upto(n)) <= N
                /\ IsFiniteSet(Before(n)) /\ Cardinality(Before(n)) \in Nat
  <2>1. \A n : Upto(n) \in SUBSET S /\ Before(n) \in SUBSET S
    OBVIOUS
  <2> HIDE DEF Upto, Before
  <2> QED BY <2>1, FS_Subset, FS_CardinalityType
<1>2. G # {}
  <2> DEFINE D == {N - Cardinality(Upto(f[id])) : id \in S}
  <2>1. D \in SUBSET Nat /\ D # {}
    <3>1. S # {}
      BY FS_EmptySet
    <3> HIDE DEF Upto, N
    <3>2. ASSUME NEW id \in S PROVE N - Cardinality(Upto(f[id])) \in Nat
      <4>1. Cardinality(Upto(f[id])) \in Nat /\ Cardinality(Upto(f[id])) <= N
        BY <1>1
      <4> QED BY <1>1, <4>1
    <3> QED BY <3>1, <3>2
  <2>2. PICK d \in D : \A e \in D : d <= e
    <3> HIDE DEF D
    <3> QED BY <2>1, LeastNatural
  <2>3. PICK top \in S : d = N - Cardinality(Upto(f[top]))
    OBVIOUS
  <2>4. ASSUME NEW y \in S, f[y] > f[top] PROVE FALSE
    <3>1. Upto(f[top]) \subseteq Upto(f[y]) /\ y \in Upto(f[y]) /\ y \notin Upto(f[top])
      BY <2>4
    <3>2. N - Cardinality(Upto(f[y])) \in D
      OBVIOUS
    <3> HIDE DEF Upto, N, D
    <3>a. Cardinality(Upto(f[top])) \in Nat /\ Cardinality(Upto(f[y])) \in Nat /\ IsFiniteSet(Upto(f[y]))
      BY <1>1
    <3>3. Cardinality(Upto(f[top])) < Cardinality(Upto(f[y]))
      <4>1. /\ Cardinality(Upto(f[top])) <= Cardinality(Upto(f[y]))
            /\ Cardinality(Upto(f[y])) = Cardinality(Upto(f[top])) => Upto(f[y]) = Upto(f[top])
        BY <3>1, <3>a, FS_Subset
      <4> QED BY <3>1, <3>a, <4>1
    <3>4. d <= N - Cardinality(Upto(f[y]))
      BY <2>2, <3>2
    <3> QED BY <1>1, <2>3, <3>a, <3>3, <3>4
  <2>5. Upto(f[top]) = S
    BY <2>4
  <2>6. f[top] \in G
    BY <2>5
  <2> QED BY <2>6
<1>3. PICK n \in G : \A i \in G : n <= i
  <2>1. G \in SUBSET Nat
    OBVIOUS
  <2> HIDE DEF G
  <2> QED BY <1>2, <2>1, LeastNatural
<1>4. Cardinality(Before(n)) <= k
  <2>1. CASE n = 0
    <3>1. Before(n) = {}
      BY <2>1
    <3> QED BY <3>1, FS_EmptySet
  <2>2. CASE n # 0
    <3>1. n - 1 \in Nat /\ Before(n) = Upto(n - 1)
      BY <1>3, <2>2
    <3>2. n - 1 \notin G
      BY <1>3
    <3> HIDE DEF Upto, Before
    <3> QED BY <1>1, <3>1, <3>2
  <2> QED BY <2>1, <2>2
<1>5. n \in {f[id] : id \in S}
  <2>1. SUFFICES ASSUME \A id \in S : f[id] # n PROVE FALSE
    OBVIOUS
  <2>2. Upto(n) = Before(n)
    BY <1>3, <2>1
  <2>3. k < Cardinality(Upto(n))
    BY <1>3
  <2> HIDE DEF Upto, Before
  <2> QED BY <1>1, <1>4, <2>2, <2>3
<1>6. \E p \in {f[id] : id \in S} : Cardinality(Before(p)) <= k /\ k < Cardinality(Upto(p))
  <2>1. k < Cardinality(Upto(n))
    BY <1>3
  <2> QED BY <1>4, <1>5, <2>1
<1> DEFINE r == RankOf(S, f, k)
<1>7. r \in {f[id] : id \in S} /\ Cardinality(Before(r)) <= k /\ k < Cardinality(Upto(r))
  BY <1>6 DEF RankOf
<1> QED BY <1>7

(* The index that the sort selects is reached by a majority, and no higher *)
(* one is.                                                                 *)
LEMMA MajorityIndexIsGreatest ==
  ASSUME NEW S \in SUBSET Id, S # {}, NEW f \in [Id -> Nat]
  PROVE  LET p == MajorityIndex(S, f)
             Reached(q) == {id \in Id : f[id] >= q}
         IN  /\ p \in Nat /\ \A q \in Nat : q <= p => Majority(S, Reached(q))
             /\ \A q \in Nat : q > p => ~Majority(S, Reached(q))
<1> DEFINE N == Cardinality(S)
           k == N - (N \div 2 + 1)
           p == MajorityIndex(S, f)
           Reached(q) == {id \in Id : f[id] >= q}
           Low == {id \in S : f[id] < p}
           Upto == {id \in S : f[id] <= p}
<1>1. IsFiniteSet(S) /\ N \in Nat /\ N # 0
  BY IdAssumption, FS_Subset, FS_CardinalityType, FS_EmptySet
<1>2. k \in Nat /\ k < N /\ N - k = N \div 2 + 1
  <2> HIDE DEF N
  <2> QED BY <1>1
<1>3. p \in Nat /\ Cardinality(Low) <= k /\ k < Cardinality(Upto)
  <2>1. p = RankOf(S, f, k)
    BY DEF MajorityIndex
  <2> HIDE DEF k
  <2> QED BY <1>1, <1>2, <2>1, RankExists
<1> HIDE DEF p
<1>4. /\ Low \in SUBSET S /\ Upto \in SUBSET S
      /\ \A q \in Nat : q <= p => S \ Low \subseteq S \cap Reached(q)
      /\ \A q \in Nat : q > p => S \cap Reached(q) \subseteq S \ Upto
  BY <1>3
<1> HIDE DEF Low, Upto
<1>5. /\ Cardinality(Low) \in Nat /\ Cardinality(Upto) \in Nat
      /\ IsFiniteSet(S \ Low) /\ Cardinality(S \ Low) = N - Cardinality(Low)
      /\ IsFiniteSet(S \ Upto) /\ Cardinality(S \ Upto) = N - Cardinality(Upto)
  <2>1. IsFiniteSet(Low) /\ IsFiniteSet(Upto) /\ S \cap Low = Low /\ S \cap Upto = Upto
    BY <1>1, <1>4, FS_Subset
  <2>2. Cardinality(S \ Low) = N - Cardinality(S \cap Low) /\ IsFiniteSet(S \ Low)
    BY <1>1, <2>1, FS_Difference
  <2>3. Cardinality(S \ Upto) = N - Cardinality(S \cap Upto) /\ IsFiniteSet(S \ Upto)
    BY <1>1, <2>1, FS_Difference
  <2> QED BY <2>1, <2>2, <2>3, FS_CardinalityType
<1>6. \A q : IsFiniteSet(S \cap Reached(q)) /\ Cardinality(S \cap Reached(q)) \in Nat
  <2>1. \A q : S \cap Reached(q) \in SUBSET S
    OBVIOUS
  <2> HIDE DEF Reached
  <2> QED BY <1>1, <2>1, FS_Subset, FS_CardinalityType
<1>m. \A A : Majority(S, A) <=> Cardinality(S \cap A) > N \div 2
  BY DEF Majority
<1> HIDE DEF Reached, N, k
<1>7. ASSUME NEW q \in Nat, q <= p PROVE Majority(S, Reached(q))
  <2>1. Cardinality(S \ Low) <= Cardinality(S \cap Reached(q))
    BY <1>4, <1>6, <1>7, FS_Subset
  <2>2. Cardinality(S \cap Reached(q)) \in Nat
    BY <1>6
  <2> QED BY <1>1, <1>2, <1>3, <1>5, <1>m, <2>1, <2>2
<1>8. ASSUME NEW q \in Nat, q > p PROVE ~Majority(S, Reached(q))
  <2>1. Cardinality(S \cap Reached(q)) <= Cardinality(S \ Upto)
    BY <1>4, <1>5, <1>8, FS_Subset
  <2>2. Cardinality(S \cap Reached(q)) \in Nat
    BY <1>6
  <2> QED BY <1>1, <1>2, <1>3, <1>5, <1>m, <2>1, <2>2
<1> QED BY <1>3, <1>7, <1>8 DEF p, Reached
=============================================================================
