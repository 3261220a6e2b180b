--------------------------- MODULE DurableProofs ----------------------------
(***************************************************************************)
(* Every save brings the disk to exactly the state in memory, and leaves a *)
(* checkpoint that a restart accepts: for any number of nodes, any logs,   *)
(* snapshots, capacities and changes of membership.                        *)
(*                                                                         *)
(* A node remembers what it has changed since the last save by a mark and  *)
(* two hints: where the rewritten suffix starts (logFrom) and whether the  *)
(* snapshot is new (snapChanged).  Pends says when those hints are enough  *)
(* to rebuild the state in memory from the one on disk; it is kept by each *)
(* operation of a node, and Exact is what the host's write makes of it.    *)
(***************************************************************************)
EXTENDS Raft, MembershipProofs

(* A checkpoint that restore accepts.                                      *)
CP(st) == st \in Checkpoints /\ Restorable(st)

(* The fields of a checkpoint.                                             *)
LEMMA Fields6 ==
  ASSUME NEW st \in Checkpoints
  PROVE  /\ st = [term |-> st.term, vote |-> st.vote, commit |-> st.commit,
                  snapshot |-> st.snapshot, entries |-> st.entries, cap |-> st.cap]
         /\ st.term \in 0..U64Max /\ st.vote \in Id \cup {None} /\ st.commit \in 0..U64Max
         /\ st.snapshot \in Snapshots \cup {None} /\ st.entries \in Seq(Entries) /\ st.cap \in Nat
         /\ DOMAIN st = {"term", "vote", "commit", "snapshot", "entries", "cap"}
         /\ Base(st) \in LogIds /\ Base(st).index \in Nat /\ Base(st).term \in Nat
         /\ Base(st).index <= U64Max /\ Base(st).term <= U64Max
         /\ Len(st.entries) \in Nat
         /\ \A k \in 1..Len(st.entries) :
              /\ st.entries[k] \in Entries /\ st.entries[k] # None
              /\ st.entries[k].id \in LogIds /\ st.entries[k].id # None
              /\ st.entries[k].id.index \in Nat /\ st.entries[k].id.term \in Nat
<1>1. /\ st.term \in 0..U64Max /\ st.vote \in Id \cup {None} /\ st.commit \in 0..U64Max
      /\ st.snapshot \in Snapshots \cup {None} /\ st.entries \in Seq(Entries) /\ st.cap \in Nat
      /\ st = [term |-> st.term, vote |-> st.vote, commit |-> st.commit,
                  snapshot |-> st.snapshot, entries |-> st.entries, cap |-> st.cap]
      /\ DOMAIN st = {"term", "vote", "commit", "snapshot", "entries", "cap"}
  BY DEF Checkpoints
<1>2. Base(st) \in LogIds
  BY <1>1, NothingAssumption, U64Assumption DEF Base, Genesis, Snapshots, LogIds
<1>3. \A x \in LogIds : x.index \in Nat /\ x.term \in Nat /\ x.index <= U64Max /\ x.term <= U64Max /\ x # None
  BY U64Assumption, NothingAssumption DEF LogIds
<1>4. \A x \in Entries : x.id \in LogIds /\ x # None
  BY NothingAssumption DEF Entries
<1>5. \A k \in 1..Len(st.entries) : st.entries[k] \in Entries
  BY <1>1
<1> QED BY <1>1, <1>2, <1>3, <1>4, <1>5

(* Retained entries are numbered from the boundary on, so that they are    *)
(* found by their offset (get, id_at, last_id).                            *)
LEMMA Retained ==
  ASSUME NEW st, CP(st)
  PROVE  LET b == Base(st).index
             n == Len(st.entries)
         IN  /\ \A k \in 1..n : st.entries[k].id.index = b + k
             /\ LastId(st) \in LogIds /\ LastId(st).index = b + n /\ LastId(st).term <= st.term
             /\ b + n <= U64Max /\ b <= st.commit /\ st.commit <= b + n
             /\ \A x \in Nat : x \in b + 1..b + n =>
                  /\ Get(st, x) = st.entries[x - b] /\ Get(st, x) \in Entries /\ Get(st, x) # None
                  /\ Get(st, x).id.index = x
                  /\ IdAt(st, x) = Get(st, x).id /\ IdAt(st, x) \in LogIds /\ IdAt(st, x) # None
             /\ \A x \in Nat : x \notin b + 1..b + n => Get(st, x) = None
             /\ \A x \in Nat : x \notin b..b + n => IdAt(st, x) = None
             /\ IdAt(st, b) = Base(st)
<1> DEFINE b == Base(st).index
           n == Len(st.entries)
           T == {k \in 0..n : k = 0 \/ st.entries[k].id.index = b + k}
<1>1. /\ st.entries \in Seq(Entries) /\ b \in Nat /\ n \in Nat /\ b <= U64Max
      /\ Base(st) \in LogIds
      /\ st.term \in Nat /\ st.commit \in Nat
      /\ \A k \in 1..n : /\ st.entries[k] \in Entries /\ st.entries[k] # None
                         /\ st.entries[k].id \in LogIds /\ st.entries[k].id # None
                         /\ st.entries[k].id.index \in Nat /\ st.entries[k].id.term \in Nat
  BY Fields6, U64Assumption DEF CP
<1>2. \A k \in 1..n : /\ st.entries[k].id.index = (IF k = 1 THEN Base(st) ELSE st.entries[k - 1].id).index + 1
                      /\ st.entries[k].id.index <= U64Max
                      /\ st.entries[k].id.term <= st.term
  BY DEF CP, Restorable
<1>3. /\ Base(st).term <= st.term /\ st.commit >= Base(st).index /\ st.commit <= LastId(st).index
  BY DEF CP, Restorable
<1>a. st.entries = <<>> <=> n = 0
  BY <1>1
<1> HIDE DEF b, n
<1>4. 0 \in T
  BY <1>1
<1>5. ASSUME NEW k \in 1..n, k - 1 \in T PROVE k \in T
  BY <1>1, <1>2, <1>5 DEF b
<1> HIDE DEF T
<1>6. 0..n \subseteq T
  BY <1>1, <1>4, <1>5, Upward
<1>7. \A k \in 1..n : st.entries[k].id.index = b + k
  BY <1>1, <1>6 DEF T
<1>8. LastId(st) \in LogIds /\ LastId(st).index = b + n /\ LastId(st).term <= st.term /\ b + n <= U64Max
  <2>1. CASE n = 0
    BY <1>1, <1>3, <1>a, <2>1 DEF LastId, b
  <2>2. CASE n # 0
    <3>1. n \in 1..n /\ LastId(st) = st.entries[n].id
      BY <1>1, <1>a, <2>2 DEF LastId, n
    <3> QED BY <1>1, <1>2, <1>7, <3>1
  <2> QED BY <2>1, <2>2
<1>9. ASSUME NEW x \in Nat, x \in b + 1..b + n
      PROVE  /\ Get(st, x) = st.entries[x - b] /\ Get(st, x) \in Entries /\ Get(st, x) # None
             /\ Get(st, x).id.index = x
             /\ IdAt(st, x) = Get(st, x).id /\ IdAt(st, x) \in LogIds /\ IdAt(st, x) # None
  <2>1. x - b \in 1..n /\ x # b
    BY <1>1, <1>9
  <2>2. Get(st, x) = st.entries[x - b]
    BY <2>1 DEF Get, b, n
  <2>3. Get(st, x) # None /\ IdAt(st, x) = Get(st, x).id
    BY <1>1, <2>1, <2>2 DEF IdAt, b
  <2>4. st.entries[x - b].id.index = b + (x - b) /\ b + (x - b) = x
    BY <1>1, <1>7, <2>1
  <2>5. /\ st.entries[x - b] \in Entries /\ st.entries[x - b].id \in LogIds /\ st.entries[x - b].id # None
    BY <1>1, <2>1
  <2> QED BY <2>2, <2>3, <2>4, <2>5
<1>10. ASSUME NEW x \in Nat, x \notin b + 1..b + n PROVE Get(st, x) = None /\ (x # b => IdAt(st, x) = None)
  <2>1. x - b \notin 1..n
    BY <1>1, <1>10
  <2> QED BY <2>1 DEF Get, IdAt, b, n
<1>11. IdAt(st, b) = Base(st)
  BY DEF IdAt, b
<1>12. \A x \in Nat : x \notin b..b + n => x # b /\ x \notin b + 1..b + n
  BY <1>1
<1> QED BY <1>1, <1>3, <1>7, <1>8, <1>9, <1>10, <1>11, <1>12 DEF b, n
(* A prefix of a sequence and what comes after it make the sequence.       *)
LEMMA Spliced ==
  ASSUME NEW S, NEW s \in Seq(S), NEW g \in Seq(S), Len(g) <= Len(s), \A j \in 1..Len(g) : g[j] = s[j]
  PROVE  g \o SubSeq(s, Len(g) + 1, Len(s)) = s
<1> DEFINE r == SubSeq(s, Len(g) + 1, Len(s))
           t == g \o r
<1>1. Len(s) \in Nat /\ Len(g) \in Nat
  OBVIOUS
<1>2. r \in Seq(S) /\ Len(r) = Len(s) - Len(g) /\ \A k \in 1..Len(r) : r[k] = s[Len(g) + k]
  <2>1. CASE Len(g) + 1 <= Len(s)
    BY <1>1, <2>1, SubSeqProperties
  <2>2. CASE ~(Len(g) + 1 <= Len(s))
    <3>1. r = <<>> /\ Len(g) = Len(s)
      BY <1>1, <2>2
    <3> QED BY <1>1, <3>1
  <2> QED BY <2>1, <2>2
<1> HIDE DEF r
<1>3. /\ t \in Seq(S) /\ Len(t) = Len(g) + Len(r)
      /\ \A k \in 1..Len(g) : t[k] = g[k]
      /\ \A k \in 1..Len(r) : t[Len(g) + k] = r[k]
  <2>1. \A k \in 1..Len(r) : t[k + Len(g)] = r[k] /\ k + Len(g) = Len(g) + k
    BY <1>1, <1>2, ConcatProperties
  <2> QED BY <1>1, <1>2, <2>1, ConcatProperties
<1> HIDE DEF t
<1>4. ASSUME NEW k \in 1..Len(s) PROVE t[k] = s[k]
  <2>1. CASE k <= Len(g)
    BY <1>1, <1>3, <2>1
  <2>2. CASE ~(k <= Len(g))
    <3>1. k - Len(g) \in 1..Len(r) /\ Len(g) + (k - Len(g)) = k
      BY <1>1, <1>2, <2>2
    <3>2. t[Len(g) + (k - Len(g))] = r[k - Len(g)] /\ r[k - Len(g)] = s[Len(g) + (k - Len(g))]
      BY <1>2, <1>3, <3>1
    <3> QED BY <3>1, <3>2
  <2> QED BY <2>1, <2>2
<1>5. Len(t) = Len(s)
  BY <1>1, <1>2, <1>3
<1>6. t = s
  BY <1>3, <1>4, <1>5, SeqEqual
<1> QED BY <1>6 DEF t, r

(* What is unsaved of a node over its disk: the log from logFrom on, and   *)
(* the snapshot if it is marked.                                           *)
Pends(d, n) ==
  /\ n.st.cap = d.cap /\ d.commit \in Nat /\ d.commit <= n.st.commit
  /\ n.logFrom \in 1..U64Max \cup {None}
  /\ n.snapChanged \in BOOLEAN
  /\ ~n.snapChanged => n.st.snapshot = d.snapshot
  /\ n.snapChanged => n.st.snapshot # None
  /\ Base(d).index <= Base(n.st).index
  /\ \A x \in Nat : x > Base(n.st).index /\ (n.logFrom # None => x < n.logFrom)
                      => Get(n.st, x) = Get(d, x)

(* The entries of the disk that a write keeps, one after the other.        *)
Keeping(f, s, b, from) ==
  f = [k \in 0..Len(s) |->
         IF k = 0 THEN <<>>
         ELSE IF s[k].id.index > b /\ (from # None => s[k].id.index < from) THEN Append(f[k - 1], s[k])
         ELSE f[k - 1]]

(* They are those between the boundary and the replaced suffix.            *)
LEMMA Kept ==
  ASSUME NEW s \in Seq(Entries), NEW B \in Nat, \A k \in 1..Len(s) : s[k].id.index = B + k,
         NEW b \in Nat, B <= b, NEW from \in Nat \cup {None}
  PROVE  LET hi == IF from = None THEN Len(s) ELSE Min2(Len(s), from - B - 1)
         IN  /\ \E f : Keeping(f, s, b, from)
             /\ \A f : Keeping(f, s, b, from) =>
                  /\ f[Len(s)] \in Seq(Entries)
                  /\ Len(f[Len(s)]) = Max2(0, hi - (b - B))
                  /\ \A j \in 1..Len(f[Len(s)]) : f[Len(s)][j] = s[(b - B) + j]
<1> DEFINE L == Len(s)
           stays(e) == e.id.index > b /\ (from # None => e.id.index < from)
           hi == IF from = None THEN L ELSE Min2(L, from - B - 1)
           lo == b - B
           cnt(k) == Max2(0, Min2(k, hi) - lo)
           g == [k \in 0..L |-> [j \in 1..cnt(k) |-> s[lo + j]]]
           Is(f) == f = [k \in 0..L |-> IF k = 0 THEN <<>>
                                        ELSE IF stays(s[k]) THEN Append(f[k - 1], s[k])
                                        ELSE f[k - 1]]
<1>1. /\ L \in Nat /\ lo \in Nat /\ \A k \in 1..L : s[k] \in Entries
      /\ hi \in Int /\ hi <= L /\ None \notin Nat
  BY NothingAssumption DEF Min2
<1>2. \A k \in 0..L : /\ cnt(k) \in Nat /\ cnt(k) <= k /\ lo + cnt(k) <= Max2(lo, k)
                      /\ cnt(k) = IF hi <= lo \/ k <= lo THEN 0 ELSE Min2(k, hi) - lo
  BY <1>1 DEF Min2, Max2
<1>3. \A k \in 1..L : stays(s[k]) <=> lo < k /\ k <= hi
  <2> SUFFICES ASSUME NEW k \in 1..L PROVE stays(s[k]) <=> lo < k /\ k <= hi
    OBVIOUS
  <2>1. s[k].id.index = B + k
    OBVIOUS
  <2>2. B + k > b <=> lo < k
    BY <1>1
  <2>3. (from # None => B + k < from) <=> k <= hi
    BY <1>1 DEF Min2
  <2> QED BY <2>1, <2>2, <2>3
<1> HIDE DEF hi
<1>4. \A k \in 0..L : /\ g[k] \in Seq(Entries) /\ Len(g[k]) = cnt(k)
                      /\ \A j \in 1..cnt(k) : g[k][j] = s[lo + j]
  <2> SUFFICES ASSUME NEW k \in 0..L
               PROVE  /\ g[k] \in Seq(Entries) /\ Len(g[k]) = cnt(k)
                      /\ \A j \in 1..cnt(k) : g[k][j] = s[lo + j]
    OBVIOUS
  <2>1. g[k] = [j \in 1..cnt(k) |-> s[lo + j]]
    OBVIOUS
  <2>2. cnt(k) \in Nat /\ \A j \in 1..cnt(k) : lo + j \in 1..L
    BY <1>1, <1>2 DEF Max2
  <2> HIDE DEF cnt, g, lo
  <2>3. \A j \in 1..cnt(k) : s[lo + j] \in Entries
    BY <1>1, <2>2
  <2> QED BY <2>1, <2>2, <2>3
<1> HIDE DEF g
<1>e. \A u, v \in Seq(Entries) : Len(u) = Len(v) /\ (\A j \in 1..Len(u) : u[j] = v[j]) => u = v
  BY SeqEqual
<1>5. ASSUME NEW k \in 1..L
      PROVE  g[k] = IF stays(s[k]) THEN Append(g[k - 1], s[k]) ELSE g[k - 1]
  <2>0. k - 1 \in 0..L /\ k \in 0..L
    BY <1>1
  <2>1. CASE lo < k /\ k <= hi
    <3>1. cnt(k) = cnt(k - 1) + 1 /\ lo + cnt(k) = k /\ cnt(k - 1) \in Nat
      BY <1>1, <2>0, <2>1 DEF Min2, Max2
    <3> DEFINE a == Append(g[k - 1], s[k])
    <3>2. /\ a \in Seq(Entries) /\ Len(a) = cnt(k - 1) + 1
          /\ a[cnt(k - 1) + 1] = s[k] /\ \A j \in 1..cnt(k - 1) : a[j] = s[lo + j]
      <4>1. g[k - 1] \in Seq(Entries) /\ Len(g[k - 1]) = cnt(k - 1) /\ s[k] \in Entries
            /\ \A j \in 1..cnt(k - 1) : g[k - 1][j] = s[lo + j]
        BY <1>1, <1>4, <2>0
      <4> HIDE DEF cnt, lo
      <4> QED BY <4>1
    <3>3. /\ g[k] \in Seq(Entries) /\ Len(g[k]) = cnt(k) /\ \A j \in 1..cnt(k) : g[k][j] = s[lo + j]
      BY <1>4, <2>0
    <3> HIDE DEF a, cnt, lo
    <3>4. \A j \in 1..Len(g[k]) : g[k][j] = a[j]
      <4> SUFFICES ASSUME NEW j \in 1..Len(g[k]) PROVE g[k][j] = a[j]
        OBVIOUS
      <4>1. g[k][j] = s[lo + j] /\ (j \in 1..cnt(k - 1) \/ j = cnt(k - 1) + 1)
        BY <3>1, <3>3
      <4>2. j = cnt(k - 1) + 1 => lo + j = k
        BY <3>1
      <4> QED BY <3>2, <4>1, <4>2
    <3>5. g[k] = a
      BY <1>e, <3>1, <3>2, <3>3, <3>4
    <3> QED BY <1>3, <2>1, <3>5 DEF a, lo
  <2>2. CASE ~(lo < k /\ k <= hi)
    <3>1. cnt(k) = cnt(k - 1)
      BY <1>1, <2>0, <2>2 DEF Min2, Max2
    <3>2. /\ g[k] \in Seq(Entries) /\ Len(g[k]) = cnt(k) /\ \A j \in 1..cnt(k) : g[k][j] = s[lo + j]
      BY <1>4, <2>0
    <3>3. /\ g[k - 1] \in Seq(Entries) /\ Len(g[k - 1]) = cnt(k - 1)
          /\ \A j \in 1..cnt(k - 1) : g[k - 1][j] = s[lo + j]
      BY <1>4, <2>0
    <3> HIDE DEF cnt, lo
    <3>a. \A j \in 1..Len(g[k]) : g[k][j] = g[k - 1][j]
      BY <3>1, <3>2, <3>3
    <3>4. g[k] = g[k - 1]
      <4>1. g[k] \in Seq(Entries) /\ g[k - 1] \in Seq(Entries) /\ Len(g[k]) = Len(g[k - 1])
        BY <3>1, <3>2, <3>3
      <4> QED BY <1>e, <3>a, <4>1
    <3> QED BY <1>3, <2>2, <3>4 DEF lo
  <2> QED BY <2>1, <2>2
<1>6. g[0] = <<>>
  <2>1. 0 \in 0..L /\ cnt(0) = 0
    BY <1>1, <1>2
  <2>2. g[0] \in Seq(Entries) /\ Len(g[0]) = 0
    BY <1>4, <2>1
  <2> QED BY <2>2
<1> HIDE DEF cnt, lo, stays
<1>7. Is(g)
  <2>1. g = [k \in 0..L |-> g[k]]
    BY DEF g
  <2>2. \A k \in 0..L : k # 0 => k \in 1..L
    BY <1>1
  <2>3. \A k \in 0..L : g[k] = IF k = 0 THEN <<>> ELSE IF stays(s[k]) THEN Append(g[k - 1], s[k]) ELSE g[k - 1]
    BY <1>5, <1>6, <2>2
  <2> QED BY <2>1, <2>3
<1>8. ASSUME NEW h, Is(h)
      PROVE  h[L] \in Seq(Entries) /\ Len(h[L]) = Max2(0, hi - lo) /\ \A j \in 1..Len(h[L]) : h[L][j] = s[lo + j]
  <2> DEFINE T == {k \in 0..L : h[k] = g[k]}
  <2>1. 0 \in T
    BY <1>1, <1>6, <1>8
  <2>2. ASSUME NEW k \in 1..L, k - 1 \in T PROVE k \in T
    <3>1. k \in 0..L /\ k # 0
      BY <1>1
    <3>2. h[k] = IF stays(s[k]) THEN Append(h[k - 1], s[k]) ELSE h[k - 1]
      BY <1>8, <3>1
    <3> QED BY <1>5, <2>2, <3>1, <3>2
  <2> HIDE DEF T
  <2>3. 0..L \subseteq T
    BY <1>1, <2>1, <2>2, Upward
  <2>4. h[L] = g[L] /\ L \in 0..L
    BY <1>1, <2>3 DEF T
  <2>5. cnt(L) = Max2(0, hi - lo)
    <3>1. PICK x, y : x = hi /\ y = lo
      OBVIOUS
    <3>2. x \in Int /\ y \in Int /\ x <= L /\ L \in Nat
      BY <1>1, <3>1
    <3>3. Min2(L, x) = x
      BY <3>2 DEF Min2
    <3> QED BY <3>1, <3>3 DEF cnt
  <2>6. g[L] \in Seq(Entries) /\ Len(g[L]) = cnt(L) /\ \A j \in 1..cnt(L) : g[L][j] = s[lo + j]
    BY <1>4, <2>4
  <2> HIDE DEF g
  <2> QED BY <2>4, <2>5, <2>6
<1>9. \A f : Is(f) <=> Keeping(f, s, b, from)
  BY DEF Keeping, stays, L
<1> HIDE DEF Is, L
<1>10. \E f : Keeping(f, s, b, from)
  BY <1>7, <1>9
<1>11. ASSUME NEW f, Keeping(f, s, b, from)
       PROVE  f[L] \in Seq(Entries) /\ Len(f[L]) = Max2(0, hi - lo) /\ \A j \in 1..Len(f[L]) : f[L][j] = s[lo + j]
  BY <1>8, <1>9, <1>11
<1> QED BY <1>10, <1>11 DEF hi, lo, L

(* The pending write takes the disk to the state in memory.                *)
LEMMA Exact ==
  ASSUME NEW d, CP(d), NEW n, CP(n.st), Pends(d, n)
  PROVE  ApplyWrite(d, Pending(n)) = n.st
<1>0. PICK st, from, changed : st = n.st /\ from = n.logFrom /\ changed = n.snapChanged
  OBVIOUS
<1> DEFINE w == Write(st, from, changed)
           B == Base(d).index
           b == Base(st).index
           L == Len(d.entries)
           m == Len(st.entries)
           snapshot == IF w.snapshot = None THEN d.snapshot ELSE w.snapshot
           base     == IF snapshot = None THEN 0 ELSE snapshot.last.index
           stays(e) == e.id.index > base /\ (w.truncateFrom # None => e.id.index < w.truncateFrom)
           Is(f) == Keeping(f, d.entries, base, w.truncateFrom)
           kept == CHOOSE f : Is(f)
           hi == IF from = None THEN L ELSE Min2(L, from - B - 1)
           offset == Min2(Max2(from - b - 1, 0), m)
           c == Max2(0, hi - (b - B))
<1>1. /\ CP(d) /\ CP(st) /\ st.cap = d.cap /\ from \in 1..U64Max \cup {None} /\ changed \in BOOLEAN
      /\ ~changed => st.snapshot = d.snapshot
      /\ changed => st.snapshot # None
      /\ B <= b
      /\ \A x \in Nat : x > b /\ (from # None => x < from) => Get(st, x) = Get(d, x)
  BY <1>0 DEF Pends
<1>2. /\ w.term = st.term /\ w.vote = st.vote /\ w.commit = st.commit
      /\ w.snapshot = IF changed THEN st.snapshot ELSE None
      /\ w.truncateFrom = from
      /\ w.entries = IF from = None THEN <<>> ELSE SubSeq(st.entries, offset + 1, m)
  BY DEF Write
<1> HIDE DEF w
<1>3. snapshot = st.snapshot /\ base = b
  BY <1>1, <1>2 DEF Base, Genesis
<1>4. /\ d.entries \in Seq(Entries) /\ L \in Nat /\ B \in Nat /\ b \in Nat /\ st.entries \in Seq(Entries) /\ m \in Nat
      /\ from \in Nat \cup {None} /\ None \notin Nat
      /\ \A k \in 1..L : d.entries[k].id.index = B + k
  BY <1>1, Fields6, Retained, NothingAssumption, U64Assumption DEF CP
<1>5. /\ \A x \in Nat : x \in B + 1..B + L => Get(d, x) = d.entries[x - B] /\ Get(d, x) # None
      /\ \A x \in Nat : x \notin B + 1..B + L => Get(d, x) = None
      /\ \A x \in Nat : x \in b + 1..b + m => Get(st, x) = st.entries[x - b] /\ Get(st, x) # None
      /\ \A x \in Nat : x \notin b + 1..b + m => Get(st, x) = None
  BY <1>1, Retained
<1> DEFINE K == kept[Len(d.entries)]
<1>6. K \in Seq(Entries) /\ Len(K) = c /\ \A j \in 1..Len(K) : K[j] = d.entries[(b - B) + j]
  <2>1. base = b /\ w.truncateFrom = from
    BY <1>2, <1>3
  <2>2. base \in Nat /\ B <= base /\ w.truncateFrom \in Nat \cup {None}
    BY <1>1, <1>4, <2>1
  <2> HIDE DEF B, b, base
  <2> DEFINE top == IF w.truncateFrom = None THEN Len(d.entries) ELSE Min2(Len(d.entries), w.truncateFrom - B - 1)
  <2>a. /\ \E f : Is(f)
        /\ \A f : Is(f) => /\ f[Len(d.entries)] \in Seq(Entries)
                           /\ Len(f[Len(d.entries)]) = Max2(0, top - (base - B))
                           /\ \A j \in 1..Len(f[Len(d.entries)]) : f[Len(d.entries)][j] = d.entries[(base - B) + j]
    <3>1. PICK s, tf, c0 : s = d.entries /\ tf = w.truncateFrom /\ c0 = base
      OBVIOUS
    <3>2. s \in Seq(Entries) /\ B \in Nat /\ c0 \in Nat /\ B <= c0 /\ tf \in Nat \cup {None}
          /\ \A k \in 1..Len(s) : s[k].id.index = B + k
      BY <1>4, <2>2, <3>1
    <3>3. LET hi0 == IF tf = None THEN Len(s) ELSE Min2(Len(s), tf - B - 1)
          IN  /\ \E f : Keeping(f, s, c0, tf)
              /\ \A f : Keeping(f, s, c0, tf) =>
                  /\ f[Len(s)] \in Seq(Entries)
                  /\ Len(f[Len(s)]) = Max2(0, hi0 - (c0 - B))
                  /\ \A j \in 1..Len(f[Len(s)]) : f[Len(s)][j] = s[(c0 - B) + j]
      BY <3>2, Kept
    <3> QED BY <3>1, <3>3
  <2>b. Is(kept)
    BY <2>a
  <2> HIDE DEF kept
  <2>3. K \in Seq(Entries) /\ Len(K) = Max2(0, top - (base - B))
            /\ \A j \in 1..Len(K) : K[j] = d.entries[(base - B) + j]
    BY <2>a, <2>b
  <2> HIDE DEF K
  <2> QED BY <2>1, <2>3
<1> HIDE DEF K, B, b, L, m
<1>7. hi \in Int /\ c \in Nat /\ (from # None => offset \in Nat)
  BY <1>4 DEF Min2, Max2
<1>8. ASSUME NEW j \in 1..c PROVE K[j] = st.entries[j] /\ j <= m
  <2>1. b + j \in Nat /\ b + j > b /\ b + j \in B + 1..B + L /\ (from # None => b + j < from)
    BY <1>1, <1>4 DEF Max2, Min2
  <2>2. (b + j) - B = (b - B) + j /\ (b + j) - b = j
    BY <1>4
  <2> HIDE DEF c
  <2>3. Get(st, b + j) = Get(d, b + j) /\ Get(d, b + j) = d.entries[(b + j) - B] /\ Get(d, b + j) # None
    BY <1>1, <1>5, <2>1
  <2>4. b + j \in b + 1..b + m
    BY <1>5, <2>1, <2>3
  <2>5. Get(st, b + j) = st.entries[(b + j) - b] /\ j <= m
    BY <1>4, <1>5, <2>1, <2>4
  <2>6. K[j] = d.entries[(b - B) + j]
    BY <1>6
  <2> QED BY <2>2, <2>3, <2>5, <2>6
<1>9. c <= m
  <2>1. CASE c = 0
    BY <1>4, <2>1
  <2>2. CASE c # 0
    <3>1. c \in 1..c
      BY <1>7, <2>2
    <3> HIDE DEF c
    <3> QED BY <1>8, <3>1
  <2> QED BY <2>1, <2>2
<1>10. ASSUME c < m, from = None \/ b + c + 1 < from PROVE FALSE
  <2>1. b + c + 1 \in Nat /\ b + c + 1 > b /\ (from # None => b + c + 1 < from) /\ b + c + 1 \in b + 1..b + m
    <3> HIDE DEF c
    <3>1. c \in Nat /\ b \in Nat /\ m \in Nat /\ c < m
      BY <1>4, <1>7, <1>10
    <3>2. b + c + 1 \in Nat /\ b + c + 1 > b /\ b + c + 1 \in b + 1..b + m
      BY <3>1
    <3> QED BY <1>10, <3>2
  <2>2. Get(st, b + c + 1) = Get(d, b + c + 1) /\ Get(st, b + c + 1) # None
    <3> HIDE DEF c
    <3> QED BY <1>1, <1>5, <2>1
  <2>3. b + c + 1 \in B + 1..B + L
    <3> HIDE DEF c
    <3> QED BY <1>5, <2>1, <2>2
  <2> QED BY <1>1, <1>4, <1>10, <2>3 DEF Max2, Min2
<1>11. w.entries = SubSeq(st.entries, c + 1, m)
  <2>1. CASE from = None
    <3>1. c = m
      <4> HIDE DEF c
      <4> QED BY <1>4, <1>7, <1>9, <1>10, <2>1
    <3>2. SubSeq(st.entries, m + 1, m) = <<>>
      BY <1>4
    <3> QED BY <1>2, <2>1, <3>1, <3>2
  <2>2. CASE from # None
    <3>1. c = m \/ ~(b + c + 1 < from)
      <4> HIDE DEF c
      <4> QED BY <1>4, <1>7, <1>9, <1>10, <2>2
    <3>2. offset = c
      BY <1>1, <1>4, <1>9, <2>2, <3>1 DEF Min2, Max2
    <3> HIDE DEF offset, c
    <3> QED BY <1>2, <2>2, <3>2
  <2> QED BY <2>1, <2>2
<1> HIDE DEF c, hi
<1>12. K \o w.entries = st.entries
  BY <1>4, <1>6, <1>8, <1>9, <1>11, Spliced DEF m
<1>13. ApplyWrite(d, w) = [term |-> st.term, vote |-> st.vote, commit |-> st.commit,
                           snapshot |-> st.snapshot, entries |-> st.entries, cap |-> st.cap]
  <2> HIDE DEF snapshot, base
  <2>1. ApplyWrite(d, w) = [term |-> w.term, vote |-> w.vote, commit |-> w.commit, snapshot |-> snapshot,
                            entries |-> K \o w.entries, cap |-> d.cap]
    BY DEF ApplyWrite, K, snapshot, base, Keeping
  <2> QED BY <1>1, <1>2, <1>3, <1>12, <2>1
<1>14. st = [term |-> st.term, vote |-> st.vote, commit |-> st.commit,
                           snapshot |-> st.snapshot, entries |-> st.entries, cap |-> st.cap]
  BY <1>1, Fields6 DEF CP
<1>15. Pending(n) = w
  BY <1>0 DEF Pending, w
<1> QED BY <1>0, <1>13, <1>14, <1>15

-----------------------------------------------------------------------------
(* What each operation makes of a checkpoint.                              *)

(* Entries that may follow index base + k of a checkpoint.                 *)
Follows1(st, k, batch) ==
  LET b == Base(st).index
      before(j) == IF j = 1 THEN IdAt(st, b + k).term ELSE batch[j - 1].id.term
  IN  \A j \in 1..Len(batch) :
        /\ batch[j].id.index = b + k + j /\ b + k + j <= U64Max
        /\ batch[j].id.term # 0 /\ batch[j].id.term <= st.term /\ batch[j].id.term >= before(j)

(* The first k retained entries and a batch that may follow them.          *)
Suffixed(st, k, batch) == [st EXCEPT !.entries = SubSeq(@, 1, k) \o batch]

(* They make a checkpoint.                                                 *)
LEMMA Extended ==
  ASSUME NEW st, CP(st), NEW k \in 0..Len(st.entries), st.commit <= Base(st).index + k,
         NEW batch \in Seq(Entries), k + Len(batch) <= st.cap, Follows1(st, k, batch)
  PROVE  LET b == Base(st).index
             r == Suffixed(st, k, batch)
         IN
         /\ CP(r) /\ r.term = st.term /\ r.vote = st.vote /\ r.commit = st.commit
         /\ r.snapshot = st.snapshot /\ r.cap = st.cap
         /\ Base(r) = Base(st) /\ Len(r.entries) = k + Len(batch)
         /\ \A j \in 1..k : r.entries[j] = st.entries[j]
         /\ \A j \in 1..Len(batch) : r.entries[k + j] = batch[j]
         /\ LastId(r).index = b + k + Len(batch)
         /\ \A x \in Nat : x <= b + k => Get(r, x) = Get(st, x)
<1> DEFINE b == Base(st).index
           es == SubSeq(st.entries, 1, k) \o batch
           r == Suffixed(st, k, batch)
           before(j) == IF j = 1 THEN IdAt(st, b + k).term ELSE batch[j - 1].id.term
           previous(j) == IF j = 1 THEN Base(r) ELSE r.entries[j - 1].id
<1>1. /\ st.entries \in Seq(Entries) /\ b \in Nat /\ Len(st.entries) \in Nat /\ st.cap \in Nat
      /\ st.commit \in Nat /\ st.term \in Nat /\ k \in Nat /\ Len(batch) \in Nat
      /\ \A j \in 1..Len(st.entries) : st.entries[j] \in Entries /\ st.entries[j].id.term \in Nat /\ st.entries[j].id.index \in Nat
      /\ st \in Checkpoints
  BY Fields6, U64Assumption DEF CP
<1>2. /\ es \in Seq(Entries) /\ Len(es) = k + Len(batch)
      /\ \A j \in 1..k : es[j] = st.entries[j]
      /\ \A j \in 1..Len(batch) : es[k + j] = batch[j]
  <2> DEFINE p == SubSeq(st.entries, 1, k)
  <2>1. p \in Seq(Entries) /\ Len(p) = k /\ \A j \in 1..k : p[j] = st.entries[j]
    BY <1>1, SubSeqProperties, SMTT(30)
  <2> HIDE DEF p
  <2>2. /\ p \o batch \in Seq(Entries) /\ Len(p \o batch) = k + Len(batch)
        /\ \A j \in 1..(k + Len(batch)) : (p \o batch)[j] = IF j <= k THEN p[j] ELSE batch[j - k]
    BY <2>1, ConcatProperties
  <2>3. \A j \in 1..Len(batch) : k + j \in 1..(k + Len(batch)) /\ ~(k + j <= k) /\ (k + j) - k = j
    BY <1>1
  <2>4. \A j \in 1..k : j \in 1..(k + Len(batch)) /\ j <= k
    BY <1>1
  <2>5. \A j \in 1..Len(batch) : (p \o batch)[k + j] = batch[j]
    BY <2>2, <2>3
  <2> QED BY <2>1, <2>2, <2>4, <2>5 DEF p
<1> HIDE DEF es
<1>3. /\ r \in Checkpoints /\ r.entries = es /\ r.term = st.term /\ r.vote = st.vote /\ r.commit = st.commit
      /\ r.snapshot = st.snapshot /\ r.cap = st.cap
  BY <1>1, <1>2 DEF Checkpoints, es, Suffixed
<1> HIDE DEF r
<1>4. Base(r) = Base(st)
  BY <1>3 DEF Base
<1>5. \A j \in 1..Len(batch) :
        /\ batch[j].id.index = b + k + j /\ b + k + j <= U64Max
        /\ batch[j].id.term # 0 /\ batch[j].id.term <= st.term /\ batch[j].id.term >= before(j)
  BY DEF Follows1
<1>6. /\ \A j \in 1..Len(st.entries) : st.entries[j].id.index = b + j
      /\ k # 0 => IdAt(st, b + k) = st.entries[k].id
      /\ k = 0 => IdAt(st, b + k) = Base(st)
  <2>1. \A j \in 1..Len(st.entries) : st.entries[j].id.index = b + j
    BY Retained
  <2>2. CASE k # 0
    <3>1. b + k \in Nat /\ b + k \in b + 1..b + Len(st.entries) /\ (b + k) - b = k
      BY <1>1, <2>2
    <3>2. IdAt(st, b + k) = Get(st, b + k).id /\ Get(st, b + k) = st.entries[(b + k) - b]
      BY <3>1, Retained
    <3> QED BY <2>1, <2>2, <3>1, <3>2
  <2>3. CASE k = 0
    <3>1. b + k = b
      BY <1>1, <2>3
    <3>2. IdAt(st, b) = Base(st)
      BY Retained
    <3> QED BY <2>1, <2>3, <3>1, <3>2
  <2> QED BY <2>2, <2>3
<1>7. /\ st.snapshot # None => Base(st).index # 0 /\ Base(st).term # 0
      /\ Base(st).term <= st.term
      /\ st.term = 0 => st.vote = None
      /\ st.commit >= Base(st).index
      /\ \A j \in 1..Len(st.entries) :
           LET id == st.entries[j].id
           IN  /\ id.index <= U64Max /\ id.term # 0 /\ id.term <= st.term
               /\ id.term >= (IF j = 1 THEN Base(st) ELSE st.entries[j - 1].id).term
  BY DEF CP, Restorable
<1> HIDE DEF b
<1>8. ASSUME NEW j \in 1..Len(es)
      PROVE  LET id == r.entries[j].id
             IN  /\ id.index = b + j /\ id.index <= U64Max /\ id.term # 0
                 /\ id.term >= previous(j).term /\ id.term <= st.term
  <2>1. CASE j <= k
    <3>1. j \in 1..k /\ j \in 1..Len(st.entries) /\ (j # 1 => j - 1 \in 1..k)
      BY <1>1, <1>2, <2>1
    <3>2. r.entries[j] = st.entries[j] /\ (j # 1 => r.entries[j - 1] = st.entries[j - 1])
      BY <1>2, <1>3, <3>1
    <3>3. previous(j) = IF j = 1 THEN Base(st) ELSE st.entries[j - 1].id
      BY <1>4, <3>2
    <3> HIDE DEF previous
    <3> QED BY <1>6, <1>7, <3>1, <3>2, <3>3
  <2>2. CASE ~(j <= k)
    <3>i. PICK i : i = j - k
      OBVIOUS
    <3>1. i \in 1..Len(batch) /\ k + i = j /\ b + k + i = b + j /\ (i # 1 => i - 1 \in 1..Len(batch) /\ k + (i - 1) = j - 1)
          /\ (i = 1 => j - 1 = k /\ (k # 0 => j - 1 \in 1..k) /\ (k = 0 => j = 1))
          /\ (i # 1 => j # 1)
      BY <1>1, <1>2, <2>2, <3>i
    <3>2. r.entries[j] = batch[i] /\ (i # 1 => r.entries[j - 1] = batch[i - 1])
      BY <1>2, <1>3, <3>1
    <3>3. previous(j).term = before(i)
      <4>1. CASE i # 1
        BY <3>1, <3>2, <4>1
      <4>2. CASE i = 1 /\ k = 0
        BY <1>4, <1>6, <3>1, <4>2
      <4>3. CASE i = 1 /\ k # 0
        <5>1. r.entries[j - 1] = st.entries[k] /\ j # 1
          BY <1>1, <1>2, <1>3, <3>1, <4>3
        <5> QED BY <1>6, <4>3, <5>1
      <4> QED BY <4>1, <4>2, <4>3
    <3> HIDE DEF previous, before
    <3> QED BY <1>5, <3>1, <3>2, <3>3
  <2> QED BY <2>1, <2>2
<1>9. LastId(r).index = b + Len(es) /\ st.commit <= b + Len(es)
  <2>1. CASE Len(es) = 0
    <3>1. r.entries = <<>>
      BY <1>2, <1>3, <2>1
    <3> QED BY <1>1, <1>2, <1>4, <2>1, <3>1 DEF LastId, b
  <2>2. CASE Len(es) # 0
    <3>1. Len(es) \in 1..Len(es) /\ r.entries # <<>>
      BY <1>1, <1>2, <1>3, <2>2
    <3>2. LastId(r) = r.entries[Len(es)].id
      BY <1>3, <3>1 DEF LastId
    <3>3. b + k <= b + Len(es)
      BY <1>1, <1>2
    <3> QED BY <1>1, <1>2, <1>8, <3>1, <3>2, <3>3, SMTT(30) DEF b
  <2> QED BY <2>1, <2>2
<1>10. \A j \in 1..Len(es) : j # 1 => j - 1 \in 1..Len(es) /\ (b + (j - 1)) + 1 = b + j
  BY <1>1, <1>2
<1>11. \A j \in 1..Len(es) : r.entries[j].id.index = previous(j).index + 1
  <2> SUFFICES ASSUME NEW j \in 1..Len(es) PROVE r.entries[j].id.index = previous(j).index + 1
    OBVIOUS
  <2>1. r.entries[j].id.index = b + j
    BY <1>8
  <2>2. CASE j = 1
    BY <1>4, <2>1, <2>2 DEF b
  <2>3. CASE j # 1
    <3>1. r.entries[j - 1].id.index = b + (j - 1)
      BY <1>8, <1>10, <2>3
    <3> QED BY <1>10, <2>1, <2>3, <3>1
  <2> QED BY <2>2, <2>3
<1>12. Restorable(r)
  <2>1. \A j \in 1..Len(r.entries) :
           LET id == r.entries[j].id
           IN  /\ id.index = previous(j).index + 1
               /\ id.index <= U64Max
               /\ id.term # 0
               /\ id.term >= previous(j).term
               /\ id.term <= r.term
    <3> HIDE DEF previous
    <3> QED BY <1>3, <1>8, <1>11
  <2>2. Len(r.entries) <= r.cap /\ r.commit >= Base(r).index /\ r.commit <= LastId(r).index
    BY <1>2, <1>3, <1>4, <1>7, <1>9
  <2>3. /\ r.snapshot # None => Base(r).index # 0 /\ Base(r).term # 0
        /\ Base(r).term <= r.term
        /\ r.term = 0 => r.vote = None
    BY <1>3, <1>4, <1>7
  <2> QED BY <2>1, <2>2, <2>3 DEF Restorable
<1>13. CP(r)
  BY <1>3, <1>12 DEF CP
<1>14. ASSUME NEW x \in Nat, x <= b + k PROVE Get(r, x) = Get(st, x)
  <2>1. CASE x \in b + 1..b + k
    <3>1. x - b \in 1..k /\ x - b \in 1..Len(st.entries) /\ x - b \in 1..Len(es)
      BY <1>1, <1>2, <2>1, SMTT(30)
    <3> QED BY <1>2, <1>3, <1>4, <3>1 DEF Get, b
  <2>2. CASE x \notin b + 1..b + k
    <3>1. x - b \notin 1..Len(st.entries) /\ x - b \notin 1..Len(es)
      BY <1>1, <1>2, <1>14, <2>2
    <3> QED BY <1>3, <1>4, <3>1 DEF Get, b
  <2> QED BY <2>1, <2>2
<1>15. b + Len(es) = b + k + Len(batch)
  BY <1>1, <1>2
<1> QED BY <1>2, <1>3, <1>4, <1>9, <1>13, <1>14, <1>15 DEF b, r

(* r has the log of st.                                                    *)
SameLog(st, r) ==
  /\ r.snapshot = st.snapshot /\ r.entries = st.entries
  /\ Base(r) = Base(st) /\ LastId(r) = LastId(st)
  /\ \A x \in Nat : Get(r, x) = Get(st, x) /\ IdAt(r, x) = IdAt(st, x)

(* A checkpoint with another hard state or capacity.                       *)
LEMMA HardChanged ==
  ASSUME NEW st, CP(st), NEW t \in 0..U64Max, st.term <= t, NEW v \in Id \cup {None}, t = 0 => v = None,
         NEW c \in Nat, st.commit <= c, c <= LastId(st).index, NEW cap \in Nat, st.cap <= cap,
         NEW r \in Checkpoints, r.term = t, r.vote = v, r.commit = c, r.cap = cap,
         r.snapshot = st.snapshot, r.entries = st.entries
  PROVE  CP(r) /\ SameLog(st, r)
<1>1. SameLog(st, r)
  BY DEF SameLog, Base, LastId, Get, IdAt
<1> DEFINE previous(k) == IF k = 1 THEN Base(st) ELSE st.entries[k - 1].id
<1>2. /\ st.snapshot # None => Base(st).index # 0 /\ Base(st).term # 0
      /\ Base(st).term <= st.term
      /\ \A k \in 1..Len(st.entries) :
           LET id == st.entries[k].id
           IN  /\ id.index = previous(k).index + 1
               /\ id.index <= U64Max
               /\ id.term # 0
               /\ id.term >= previous(k).term
               /\ id.term <= st.term
      /\ Len(st.entries) <= st.cap
      /\ st.commit >= Base(st).index
  BY DEF CP, Restorable
<1>3. /\ Base(st).term \in Nat /\ Base(st).index \in Nat /\ st.term \in Nat /\ st.cap \in Nat /\ Len(st.entries) \in Nat /\ t \in Nat /\ st.commit \in Nat
      /\ \A k \in 1..Len(st.entries) : st.entries[k].id.term \in Nat
  BY Fields6, U64Assumption DEF CP
<1>4. \A k \in 1..Len(st.entries) : st.entries[k].id.term <= t
  <2> SUFFICES ASSUME NEW k \in 1..Len(st.entries) PROVE st.entries[k].id.term <= t
    OBVIOUS
  <2>1. st.entries[k].id.term <= st.term /\ st.entries[k].id.term \in Nat
    BY <1>2, <1>3
  <2> QED BY <1>3, <2>1
<1>5. \A k \in 1..Len(r.entries) :
           LET id == r.entries[k].id
               p == IF k = 1 THEN Base(r) ELSE r.entries[k - 1].id
           IN  /\ id.index = p.index + 1
               /\ id.index <= U64Max
               /\ id.term # 0
               /\ id.term >= p.term
               /\ id.term <= r.term
  BY <1>1, <1>2, <1>4 DEF SameLog
<1>6. Base(st).term <= t /\ Len(st.entries) <= cap /\ c >= Base(st).index
  BY <1>2, <1>3
<1>7. Restorable(r)
  BY <1>1, <1>2, <1>5, <1>6 DEF Restorable, SameLog
<1> QED BY <1>1, <1>7 DEF CP

(* install                                                                 *)
LEMMA Installed ==
  ASSUME NEW st, CP(st), NEW sn \in Snapshots, sn.last.index > Base(st).index,
         sn.last.term # 0, sn.last.term <= st.term,
         sn.last.index > st.commit \/ Holds(st, sn.last)
  PROVE  LET r == Install(st, sn)
             k == sn.last.index
         IN
         /\ CP(r) /\ r.term = st.term /\ r.vote = st.vote /\ r.commit = Max2(st.commit, k)
         /\ r.snapshot = sn /\ r.cap = st.cap /\ Base(r) = sn.last
         /\ Holds(st, sn.last) => /\ LastId(r).index = LastId(st).index /\ k <= LastId(st).index
                                  /\ r.entries = SubSeq(st.entries, k - Base(st).index + 1, Len(st.entries))
                                  /\ \A x \in Nat : x > k => Get(r, x) = Get(st, x)
         /\ ~Holds(st, sn.last) => r.entries = <<>> /\ LastId(r) = sn.last /\ \A x \in Nat : Get(r, x) = None
<1> DEFINE b == Base(st).index
           k == sn.last.index
           m == k - b
           L == Len(st.entries)
           es == IF IdAt(st, k) = sn.last THEN SubSeq(st.entries, m + 1, L) ELSE <<>>
           r == Install(st, sn)
<1>1. /\ st \in Checkpoints /\ st.entries \in Seq(Entries) /\ b \in Nat /\ L \in Nat /\ st.commit \in Nat /\ st.term \in Nat
      /\ sn.last \in LogIds /\ k \in Nat /\ k <= U64Max /\ sn.last.term \in Nat /\ sn # None
      /\ st.cap \in Nat /\ st.commit <= U64Max
      /\ \A j \in 1..L : st.entries[j] \in Entries /\ st.entries[j].id.index \in Nat /\ st.entries[j].id.term \in Nat
      /\ sn.last # None
  BY Fields6, U64Assumption, NothingAssumption DEF CP, Snapshots, LogIds
<1>2. /\ \A j \in 1..L : st.entries[j].id.index = b + j
      /\ LastId(st).index = b + L /\ b <= st.commit /\ st.commit <= b + L
      /\ \A x \in Nat : x \in b + 1..b + L => Get(st, x) = st.entries[x - b] /\ IdAt(st, x) = Get(st, x).id
      /\ \A x \in Nat : x \notin b + 1..b + L => Get(st, x) = None
      /\ \A x \in Nat : x \notin b..b + L => IdAt(st, x) = None
  BY Retained
<1>3. Max2(st.commit, k) \in 0..U64Max
  BY <1>1 DEF Max2
<1>4. es \in Seq(Entries) /\ (Holds(st, sn.last) => k <= b + L /\ Len(es) = L - m /\ \A j \in 1..L - m : es[j] = st.entries[m + j])
      /\ (~Holds(st, sn.last) => es = <<>>)
  <2>1. CASE Holds(st, sn.last)
    <3>1. IdAt(st, k) = sn.last /\ es = SubSeq(st.entries, m + 1, L)
      BY <2>1 DEF Holds
    <3>2. k \in b..b + L /\ m \in Nat
      BY <1>1, <1>2, <3>1
    <3> HIDE DEF m, es, L, k, b
    <3>3. CASE m + 1 <= L
      <4>1. \A j \in m + 1..L : st.entries[j] \in Entries
        BY <1>1, <3>2
      <4>2. /\ es \in Seq(Entries) /\ Len(es) = L - (m + 1) + 1
            /\ \A j \in 1..L - (m + 1) + 1 : es[j] = st.entries[(m + 1) + j - 1]
        <5>1. PICK s, lo : s = st.entries /\ lo = m + 1
          OBVIOUS
        <5>2. lo \in Int /\ L \in Int /\ lo <= L /\ \A j \in lo..L : s[j] \in Entries
          BY <1>1, <3>2, <3>3, <4>1, <5>1
        <5>3. /\ SubSeq(s, lo, L) \in Seq(Entries) /\ Len(SubSeq(s, lo, L)) = L - lo + 1
              /\ \A j \in 1..L - lo + 1 : SubSeq(s, lo, L)[j] = s[lo + j - 1]
          BY <5>2, SubSeqProperties
        <5> QED BY <3>1, <5>1, <5>3
      <4>3. L - (m + 1) + 1 = L - m /\ \A j \in 1..L - m : (m + 1) + j - 1 = m + j
        BY <1>1, <3>2
      <4> QED BY <1>1, <2>1, <3>2, <4>2, <4>3
    <3>4. CASE ~(m + 1 <= L)
      <4>1. es = <<>> /\ L - m = 0
        <5>1. es = <<>>
          BY <1>1, <3>1, <3>2, <3>4
        <5>2. L = m
          BY <1>1, <3>2, <3>4 DEF m
        <5> QED BY <1>1, <5>1, <5>2
      <4> QED BY <1>1, <2>1, <3>2, <4>1
    <3> QED BY <3>3, <3>4
  <2>2. CASE ~Holds(st, sn.last)
    BY <2>2 DEF Holds
  <2> QED BY <2>1, <2>2
<1> HIDE DEF es
<1>5. /\ r \in Checkpoints /\ r.entries = es /\ r.term = st.term /\ r.vote = st.vote
      /\ r.commit = Max2(st.commit, k) /\ r.snapshot = sn /\ r.cap = st.cap
  BY <1>1, <1>3, <1>4 DEF Checkpoints, Install, es
<1> HIDE DEF r
<1>6. Base(r) = sn.last
  BY <1>1, <1>5 DEF Base
<1> DEFINE previous(j) == IF j = 1 THEN Base(r) ELSE r.entries[j - 1].id
<1>7. /\ st.term = 0 => st.vote = None
      /\ L <= st.cap
      /\ \A j \in 1..L :
           LET id == st.entries[j].id
           IN  /\ id.index <= U64Max /\ id.term # 0 /\ id.term <= st.term
               /\ j # 1 => id.term >= st.entries[j - 1].id.term
  BY SMTT(30) DEF CP, Restorable
<1>8. ASSUME Holds(st, sn.last)
      PROVE  m \in 1..L /\ st.entries[m].id = sn.last
  <2>1. IdAt(st, k) = sn.last /\ k <= b + L
    BY <1>4, <1>8 DEF Holds
  <2>2. k \in b + 1..b + L /\ m \in 1..L
    BY <1>1, <2>1
  <2>3. IdAt(st, k) = st.entries[m].id
    BY <1>1, <1>2, <2>2
  <2> QED BY <1>1, <2>1, <2>2, <2>3
<1> HIDE DEF k, m, L, b
<1>9. ASSUME NEW j \in 1..Len(es)
      PROVE  LET id == r.entries[j].id
             IN  /\ id.index = k + j /\ id.index <= U64Max /\ id.term # 0
                 /\ id.term >= previous(j).term /\ id.term <= st.term
                 /\ id.index = previous(j).index + 1
  <2>1. Holds(st, sn.last)
    BY <1>4
  <2>2. /\ Len(es) = L - m /\ m \in 1..L /\ st.entries[m].id = sn.last
        /\ \A i \in 1..L - m : es[i] = st.entries[m + i]
    BY <1>4, <1>8, <2>1
  <2>3. /\ m + j \in 1..L /\ (j # 1 => j - 1 \in 1..L - m /\ m + (j - 1) = (m + j) - 1) /\ m + j # 1
        /\ b + (m + j) = k + j /\ (j = 1 => (m + j) - 1 = m) /\ m + j - 1 \in 1..L
        /\ b + (m + j - 1) + 1 = k + j /\ j \in 1..L - m /\ m + j - 1 = (m + j) - 1
    <3>1. m = k - b
      BY DEF m
    <3> QED BY <1>1, <2>2, <3>1
  <2>4. r.entries[j] = st.entries[m + j] /\ previous(j) = st.entries[m + j - 1].id
    <3>1. r.entries[j] = st.entries[m + j]
      BY <1>5, <2>2, <2>3
    <3>2. CASE j = 1
      BY <1>6, <2>2, <2>3, <3>1, <3>2
    <3>3. CASE j # 1
      <4>1. r.entries[j - 1] = st.entries[m + (j - 1)]
        BY <1>5, <2>2, <2>3, <3>3
      <4> QED BY <2>3, <3>1, <3>3, <4>1
    <3> QED BY <3>2, <3>3
  <2>5. st.entries[m + j].id.index = b + (m + j) /\ st.entries[m + j - 1].id.index = b + (m + j - 1)
    BY <1>2, <2>3
  <2> HIDE DEF previous
  <2>6. /\ st.entries[m + j].id.index <= U64Max /\ st.entries[m + j].id.term # 0 /\ st.entries[m + j].id.term <= st.term
        /\ st.entries[m + j].id.term >= st.entries[m + j - 1].id.term
    BY <1>7, <2>3
  <2> QED BY <2>3, <2>4, <2>5, <2>6
<1>10. LastId(r).index = k + Len(es) /\ (es = <<>> => LastId(r) = sn.last)
  <2>1. CASE es = <<>>
    <3>1. LastId(r) = sn.last /\ Len(es) = 0
      BY <1>5, <1>6, <2>1 DEF LastId
    <3> QED BY <1>1, <3>1 DEF k
  <2>2. CASE es # <<>>
    <3>1. Len(es) \in 1..Len(es)
      BY <1>4, <2>2
    <3>2. LastId(r) = r.entries[Len(es)].id
      BY <1>5, <2>2 DEF LastId
    <3> QED BY <1>9, <2>2, <3>1, <3>2
  <2> QED BY <2>1, <2>2
<1>11. Len(es) \in Nat /\ Len(es) <= L /\ (Holds(st, sn.last) => k + Len(es) = b + L)
  <2>1. CASE Holds(st, sn.last)
    BY <1>1, <1>4, <1>8, <2>1 DEF m
  <2>2. CASE ~Holds(st, sn.last)
    BY <1>1, <1>4, <2>2
  <2> QED BY <2>1, <2>2
<1>12. Max2(st.commit, k) >= k /\ Max2(st.commit, k) <= k + Len(es)
  <2>1. CASE Holds(st, sn.last)
    BY <1>1, <1>2, <1>11, <2>1 DEF Max2
  <2>2. CASE ~Holds(st, sn.last)
    BY <1>1, <1>11, <2>2 DEF Max2, k
  <2> QED BY <2>1, <2>2
<1>13. Restorable(r)
  <2>1. \A j \in 1..Len(r.entries) :
           LET id == r.entries[j].id
           IN  /\ id.index = previous(j).index + 1
               /\ id.index <= U64Max
               /\ id.term # 0
               /\ id.term >= previous(j).term
               /\ id.term <= r.term
    <3> HIDE DEF previous
    <3> QED BY <1>5, <1>9
  <2>2. Len(r.entries) <= r.cap
    BY <1>1, <1>5, <1>7, <1>11
  <2>3. r.commit >= Base(r).index /\ r.commit <= LastId(r).index
    BY <1>5, <1>6, <1>10, <1>12 DEF k
  <2>4. /\ r.snapshot # None => Base(r).index # 0 /\ Base(r).term # 0
        /\ Base(r).term <= r.term
        /\ r.term = 0 => r.vote = None
    BY <1>1, <1>5, <1>6, <1>7 DEF b
  <2> QED BY <2>1, <2>2, <2>3, <2>4 DEF Restorable
<1>14. CP(r)
  BY <1>5, <1>13 DEF CP
<1>15. ASSUME Holds(st, sn.last), NEW x \in Nat, x > k PROVE Get(r, x) = Get(st, x)
  <2>1. /\ Len(es) = L - m /\ m \in 1..L /\ \A i \in 1..L - m : es[i] = st.entries[m + i]
    BY <1>4, <1>8, <1>15
  <2>2. Base(r).index = k /\ m = k - b
    BY <1>6 DEF k, m
  <2>3. CASE x - k \in 1..L - m
    <3>a. m + (x - k) = x - b
      BY <1>1, <2>2
    <3>1. x - b \in 1..L /\ m + (x - k) = x - b
      BY <1>1, <2>1, <2>2, <2>3, <3>a
    <3>2. Get(r, x) = es[x - k] /\ Get(st, x) = st.entries[x - b]
      BY <1>5, <2>1, <2>2, <2>3, <3>1 DEF Get, b, L
    <3> QED BY <2>1, <2>3, <3>1, <3>2
  <2>4. CASE x - k \notin 1..L - m
    <3>1. x - b \notin 1..L
      BY <1>1, <1>15, <2>1, <2>2, <2>4
    <3> QED BY <1>5, <2>1, <2>2, <2>4, <3>1 DEF Get, b, L
  <2> QED BY <2>3, <2>4
<1>16. ~Holds(st, sn.last) => es = <<>> /\ \A x \in Nat : Get(r, x) = None
  BY <1>4, <1>5 DEF Get
<1>17. Holds(st, sn.last) => k <= LastId(st).index /\ LastId(r).index = LastId(st).index
  BY <1>2, <1>4, <1>10, <1>11
<1>18. Holds(st, sn.last) => r.entries = SubSeq(st.entries, k - b + 1, L)
  BY <1>5 DEF es, Holds, m, k
<1> QED BY <1>5, <1>6, <1>10, <1>14, <1>15, <1>16, <1>17, <1>18 DEF k, b, L, r

-----------------------------------------------------------------------------
(* Nodes over their disks.                                                 *)

(* The fields of a node.                                                   *)
NodeFields == {"id", "st", "bootstrap", "hooks", "role", "leader", "membership", "peers", "votes",
               "active", "next", "matched", "outbox", "extra", "dirty", "logFrom", "snapChanged",
               "prevoting", "aged"}

(* What a queued descriptor and a message are made of.                     *)
OutKinds == {"PreVote", "PreVoted", "Vote", "Voted", "Replicate", "Replicated"}
OutOK(o) ==
  /\ o.kind \in OutKinds
  /\ o.kind \in {"PreVote", "PreVoted"} => o.campaign \in 0..U64Max
  /\ o.kind = "Replicated" => /\ o.index \in Nat
                              /\ o.rejection \notin {None, Full} => o.rejection.next \in Nat
MessageTypes == {"PreVote", "PreVoted", "Vote", "Voted", "Append", "AppendBatch", "Install", "Replicated"}
MsgOK(m) ==
  /\ m.type \in MessageTypes /\ m.term \in 0..U64Max
  /\ m.type = "Append" => m.previous \in LogIds /\ m.entry \in Entries \cup {None} /\ m.commit \in Nat
  /\ m.type = "AppendBatch" => m.previous \in LogIds /\ m.entries \in Seq(Entries) /\ m.commit \in Nat
  /\ m.type = "PreVoted" => m.campaign \in Nat
  /\ m.type = "Install" => m.snapshot \in Snapshots
  /\ m.type = "Replicated" => /\ m.index \in Nat
                              /\ m.rejection \notin {None, Full} => m.rejection.next \in Nat

(* A node's volatile parts.                                                *)
Typed(n) ==
  /\ DOMAIN n = NodeFields /\ n.id \in Id /\ n.bootstrap \in Configs /\ n.membership \in Configs
  /\ n.next \in [Slot -> 1..U64Max] /\ n.matched \in [Slot -> 0..U64Max]
  /\ DOMAIN n.outbox = Slot /\ \A s \in Slot : n.outbox[s] # None => OutOK(n.outbox[s])
  /\ n.extra # None => OutOK(n.extra.out)

(* A node and the disk under it.                                           *)
Held(d, n) ==
  /\ CP(n.st) /\ Pends(d, n)
  /\ ~n.dirty => n.st = d /\ n.logFrom = None /\ ~n.snapChanged
  /\ n.prevoting # None => n.prevoting = n.st.term + 1 /\ n.prevoting <= U64Max
  /\ n.role # "Follower" => n.st.term # 0

(* r is n after an operation that does not touch what is saved.            *)
Beside(n, r) ==
  /\ Typed(r) /\ r.id = n.id /\ r.st = n.st /\ r.dirty = n.dirty
  /\ r.logFrom = n.logFrom /\ r.snapChanged = n.snapChanged
  /\ r.prevoting \in {n.prevoting, None} /\ r.role \in {n.role, "Follower"}

(* Two such operations.                                                    *)
LEMMA BesideOn ==
  ASSUME NEW n, NEW a, NEW b, Beside(n, a), Beside(a, b)
  PROVE  Beside(n, b)
BY DEF Beside

(* They leave a node over its disk.                                        *)
LEMMA BesideHeld ==
  ASSUME NEW d, NEW n, Held(d, n), NEW r, Beside(n, r)
  PROVE  Held(d, r)
BY DEF Held, Beside, Pends

(* A bounded set of numbers that is not empty has a greatest element.      *)
LEMMA Greatest ==
  ASSUME NEW L \in Nat, NEW T \in SUBSET (0..L), T # {}
  PROVE  \E k \in T : \A j \in T : j <= k
<1> DEFINE R == {x \in 0..L : L - x \in T}
<1>1. R \in SUBSET Nat
  OBVIOUS
<1>2. R # {}
  <2>1. PICK k \in T : TRUE
    OBVIOUS
  <2>2. L - k \in 0..L /\ L - (L - k) = k
    OBVIOUS
  <2> QED BY <2>1, <2>2
<1>3. PICK x \in R : \A y \in R : x <= y
  <2> HIDE DEF R
  <2> QED BY <1>1, <1>2, LeastNatural
<1>4. L - x \in T /\ x \in 0..L
  BY <1>3
<1>5. ASSUME NEW j \in T PROVE j <= L - x
  <2>1. L - j \in 0..L /\ L - (L - j) = j
    OBVIOUS
  <2>2. L - j \in R
    BY <2>1
  <2>3. x <= L - j
    BY <1>3, <2>2
  <2> QED BY <1>4, <2>1, <2>3
<1> QED BY <1>4, <1>5

(* The configuration of a node is one that constructors make.              *)
LEMMA MembershipTyped ==
  ASSUME NEW n, n.bootstrap \in Configs, CP(n.st), NEW index
  PROVE  MembershipAt(n, index).membership \in Configs
<1> DEFINE R == RecordsThrough(n.st, index)
           L == Len(n.st.entries)
<1>1. /\ n.st.entries \in Seq(Entries) /\ L \in Nat /\ DOMAIN n.st.entries = 1..L
      /\ n.st.snapshot \in Snapshots \cup {None} /\ \A k \in 1..L : n.st.entries[k] \in Entries
  BY Fields6 DEF CP
<1>2. CASE R # {}
  <2>1. R \in SUBSET (0..L)
    BY <1>1 DEF RecordsThrough
  <2>2. \E k \in R : \A j \in R : j <= k
    <3> HIDE DEF R, L
    <3> QED BY <1>1, <1>2, <2>1, Greatest
  <2>3. PICK k \in R : Latest(n.st, R) = n.st.entries[k]
    <3> HIDE DEF R
    <3> QED BY <2>2 DEF Latest
  <2>4. k \in 1..L /\ n.st.entries[k].value \in Memberships
    BY <1>1 DEF RecordsThrough
  <2>5. n.st.entries[k].value \in Configs
    <3>1. n.st.entries[k].value \in Value \cup {None} \cup Configs
      BY <1>1, <2>4 DEF Entries
    <3> QED BY <2>4, <3>1, ValueAssumption, NoneAssumption
  <2> HIDE DEF R
  <2>6. MembershipFrom(n, R).membership \in Configs
    BY <1>2, <2>3, <2>5 DEF MembershipFrom
  <2> QED BY <2>6 DEF MembershipAt, R
<1>3. CASE R = {}
  <2> HIDE DEF R
  <2>1. MembershipFrom(n, R).membership \in Configs
    BY <1>1, <1>3 DEF MembershipFrom, Snapshots
  <2> QED BY <2>1 DEF MembershipAt, R
<1> QED BY <1>2, <1>3

(* track                                                                   *)
LEMMA TrackBeside ==
  ASSUME NEW n, Typed(n), NEW id
  PROVE  Beside(n, Track(n, id))
<1> DEFINE s == First({t \in Slot : ~Includes(n.membership, n.peers[t])})
           x == [n EXCEPT !.peers[s] = id, !.votes = @ \ {s}, !.active = @ \ {s},
                          !.next[s] = 1, !.matched[s] = 0, !.outbox[s] = None]
<1>0. Beside(n, n)
  BY DEF Beside
<1> HIDE DEF s
<1>1. /\ DOMAIN x = NodeFields /\ x.next = [n.next EXCEPT ![s] = 1] /\ x.matched = [n.matched EXCEPT ![s] = 0]
      /\ x.outbox = [n.outbox EXCEPT ![s] = None]
      /\ \A f \in NodeFields \ {"peers", "votes", "active", "next", "matched", "outbox"} : x[f] = n[f]
  BY DEF Typed, NodeFields
<1> HIDE DEF x
<1>2. x.next \in [Slot -> 1..U64Max] /\ x.matched \in [Slot -> 0..U64Max]
  <2>1. 1 \in 1..U64Max /\ 0 \in 0..U64Max
    BY U64Assumption
  <2>2. \A S : \A f \in [Slot -> S] : \A v \in S : [f EXCEPT ![s] = v] \in [Slot -> S]
    OBVIOUS
  <2>3. n.next \in [Slot -> 1..U64Max] /\ n.matched \in [Slot -> 0..U64Max]
    BY DEF Typed
  <2> QED BY <1>1, <2>1, <2>2, <2>3
<1>3. DOMAIN x.outbox = Slot /\ \A t \in Slot : x.outbox[t] = n.outbox[t] \/ x.outbox[t] = None
  BY <1>1 DEF Typed
<1>4. \A t \in Slot : x.outbox[t] # None => OutOK(x.outbox[t])
  BY <1>3 DEF Typed
<1>5. /\ x.id = n.id /\ x.st = n.st /\ x.dirty = n.dirty /\ x.logFrom = n.logFrom /\ x.snapChanged = n.snapChanged
      /\ x.prevoting = n.prevoting /\ x.role = n.role /\ x.bootstrap = n.bootstrap /\ x.membership = n.membership
      /\ x.extra = n.extra
  BY <1>1 DEF NodeFields
<1>6. Beside(n, x)
  BY <1>1, <1>2, <1>3, <1>4, <1>5 DEF Beside, Typed
<1> QED BY <1>0, <1>6 DEF Track, x, s

(* The loop over the members.                                              *)
LEMMA TrackAllBeside ==
  ASSUME NEW n, Typed(n), NEW ids
  PROVE  Beside(n, TrackAll(n, ids))
<1> DEFINE Is(f, k) == f = [s \in 0..k |-> IF s = 0 THEN n ELSE Track(f[s - 1], ids[s])]
           Some(k) == \E f : Is(f, k)
           E == {k \in 0..MAX : Some(k)}
           h == CHOOSE f : Is(f, MAX)
<1>1. MAX \in Nat
  BY MaxAssumption
<1>2. 0 \in E
  <2> DEFINE g == [s \in 0..0 |-> n]
  <2>1. Is(g, 0)
    OBVIOUS
  <2>2. Some(0)
    <3> HIDE DEF g
    <3> QED BY <2>1
  <2> HIDE DEF Some
  <2> QED BY <1>1, <2>2
<1>3. ASSUME NEW k \in 1..MAX, k - 1 \in E PROVE k \in E
  <2>1. PICK f : Is(f, k - 1)
    BY <1>3
  <2>2. DOMAIN f = 0..(k - 1) /\ f[0] = n /\ \A s \in 1..(k - 1) : f[s] = Track(f[s - 1], ids[s])
    BY <1>1, <2>1
  <2> DEFINE g == [s \in 0..k |-> IF s = k THEN Track(f[k - 1], ids[k]) ELSE f[s]]
  <2>3. \A s \in 0..k : g[s] = IF s = 0 THEN n ELSE Track(g[s - 1], ids[s])
    <3> SUFFICES ASSUME NEW s \in 0..k PROVE g[s] = IF s = 0 THEN n ELSE Track(g[s - 1], ids[s])
      OBVIOUS
    <3>1. CASE s = 0
      BY <1>1, <2>2, <3>1
    <3>2. CASE s = k
      <4>1. s # 0 /\ k - 1 \in 0..k /\ k - 1 # k /\ g[k - 1] = f[k - 1]
        BY <1>1, <3>2
      <4> QED BY <3>2, <4>1
    <3>3. CASE s # 0 /\ s # k
      <4>1. s \in 1..(k - 1) /\ s - 1 \in 0..k /\ s - 1 # k
        BY <1>1, <3>3
      <4> QED BY <2>2, <3>3, <4>1
    <3> QED BY <3>1, <3>2, <3>3
  <2>4. Is(g, k)
    BY <2>3
  <2>5. Some(k)
    <3> HIDE DEF g
    <3> QED BY <2>4
  <2> HIDE DEF Some
  <2> QED BY <1>1, <2>5
<1> HIDE DEF E
<1>4. 0..MAX \subseteq E
  BY <1>1, <1>2, <1>3, Upward
<1>5. Is(h, MAX)
  <2>1. Some(MAX)
    <3> HIDE DEF Some
    <3> QED BY <1>1, <1>4 DEF E
  <2> QED BY <2>1
<1>6. TrackAll(n, ids) = h[MAX]
  BY DEF TrackAll
<1> HIDE DEF h
<1>7. h[0] = n /\ \A s \in 1..MAX : h[s] = Track(h[s - 1], ids[s])
  BY <1>1, <1>5
<1> HIDE DEF Is
<1> DEFINE T == {s \in 0..MAX : Beside(n, h[s])}
<1>8. 0 \in T
  BY <1>1, <1>7 DEF Beside
<1>9. ASSUME NEW s \in 1..MAX, s - 1 \in T PROVE s \in T
  <2>1. Beside(n, h[s - 1])
    BY <1>9
  <2>2. Typed(h[s - 1])
    BY <2>1 DEF Beside
  <2>3. Beside(h[s - 1], Track(h[s - 1], ids[s]))
    BY <2>2, TrackBeside
  <2>4. Beside(n, h[s])
    BY <1>7, <2>1, <2>3, BesideOn
  <2> QED BY <1>1, <2>4
<1> HIDE DEF T
<1>10. 0..MAX \subseteq T
  BY <1>1, <1>8, <1>9, Upward
<1> QED BY <1>1, <1>6, <1>10 DEF T

(* follow                                                                  *)
LEMMA FollowBeside ==
  ASSUME NEW n, Typed(n), NEW leader
  PROVE  Beside(n, Follow(n, leader))
<1> DEFINE x == Follow(n, leader)
<1>1. /\ DOMAIN x = NodeFields /\ x.role = "Follower" /\ x.prevoting = None
      /\ \A f \in NodeFields \ {"role", "prevoting", "leader", "aged"} : x[f] = n[f]
  BY DEF Follow, Typed, NodeFields
<1> HIDE DEF x
<1>2. /\ x.id = n.id /\ x.st = n.st /\ x.dirty = n.dirty /\ x.logFrom = n.logFrom /\ x.snapChanged = n.snapChanged
      /\ x.bootstrap = n.bootstrap /\ x.membership = n.membership
      /\ x.extra = n.extra /\ x.next = n.next /\ x.matched = n.matched /\ x.outbox = n.outbox
  BY <1>1 DEF NodeFields
<1>3. Beside(n, x)
  BY <1>1, <1>2 DEF Beside, Typed
<1> QED BY <1>3 DEF x

(* refresh_membership                                                      *)
LEMMA RefreshBeside ==
  ASSUME NEW n, Typed(n), CP(n.st)
  PROVE  Beside(n, RefreshMembership(n))
<1> DEFINE at == MembershipAt(n, LastId(n.st).index)
           x == [n EXCEPT !.membership = at.membership]
           y == TrackAll(x, at.membership.slots)
<1>1. at.membership \in Configs
  BY MembershipTyped DEF Typed
<1> HIDE DEF at
<1>2. DOMAIN x = NodeFields /\ x.membership = at.membership /\ \A f \in NodeFields \ {"membership"} : x[f] = n[f]
  BY DEF Typed, NodeFields
<1> HIDE DEF x
<1>3. /\ x.id = n.id /\ x.st = n.st /\ x.dirty = n.dirty /\ x.logFrom = n.logFrom /\ x.snapChanged = n.snapChanged
      /\ x.bootstrap = n.bootstrap /\ x.prevoting = n.prevoting /\ x.role = n.role
      /\ x.extra = n.extra /\ x.next = n.next /\ x.matched = n.matched /\ x.outbox = n.outbox
  BY <1>2 DEF NodeFields
<1>4. Beside(n, x)
  BY <1>1, <1>2, <1>3 DEF Beside, Typed
<1>5. Beside(x, y)
  BY <1>4, TrackAllBeside DEF Beside
<1> HIDE DEF y
<1>6. Beside(y, StepDownIfRemoved(y, at.index))
  <2>1. Beside(y, y) /\ Typed(y)
    BY <1>5 DEF Beside
  <2> QED BY <2>1, FollowBeside DEF StepDownIfRemoved
<1>7. RefreshMembership(n) = StepDownIfRemoved(y, at.index)
  BY DEF RefreshMembership, Adopt, at, x, y
<1> QED BY <1>4, <1>5, <1>6, <1>7, BesideOn

(* Changes of one volatile field.                                          *)
LEMMA FieldBeside ==
  ASSUME NEW n, Typed(n), NEW r, DOMAIN r = NodeFields,
         \A f \in NodeFields \ {"next", "matched", "outbox", "extra", "votes", "active", "aged", "leader"} : r[f] = n[f],
         r.next \in [Slot -> 1..U64Max], r.matched \in [Slot -> 0..U64Max],
         DOMAIN r.outbox = Slot, \A s \in Slot : r.outbox[s] # None => OutOK(r.outbox[s]), r.extra # None => OutOK(r.extra.out)
  PROVE  Beside(n, r)
<1>1. /\ r.id = n.id /\ r.st = n.st /\ r.dirty = n.dirty /\ r.logFrom = n.logFrom /\ r.snapChanged = n.snapChanged
      /\ r.bootstrap = n.bootstrap /\ r.prevoting = n.prevoting /\ r.role = n.role /\ r.membership = n.membership
  BY DEF NodeFields
<1> QED BY <1>1 DEF Beside, Typed

(* A slot is found among the slots.                                        *)
LEMMA SlotOfSlot ==
  ASSUME NEW peers, NEW id
  PROVE  /\ SlotOf(peers, id) = 0 \/ (SlotOf(peers, id) \in Slot /\ peers[SlotOf(peers, id)] = id)
         /\ 0 \notin Slot
<1> DEFINE S == {s \in Slot : peers[s] = id}
<1>1. S # {} => First(S) \in S
  BY FirstSlot
<1>2. 0 \notin Slot
  BY DEF Slot
<1> QED BY <1>1, <1>2 DEF SlotOf

(* The leader's own position.                                              *)
LEMMA MatchSelfBeside ==
  ASSUME NEW n, Typed(n), NEW index \in 0..U64Max
  PROVE  Beside(n, MatchSelf(n, index))
<1>1. Beside(n, n)
  BY DEF Beside
<1> DEFINE x == [n EXCEPT !.matched[Local(n)] = index]
<1>2. DOMAIN x = NodeFields /\ x.matched = [n.matched EXCEPT ![Local(n)] = index]
      /\ \A f \in NodeFields \ {"matched"} : x[f] = n[f]
  BY DEF Typed, NodeFields
<1> HIDE DEF x
<1>3. x.matched \in [Slot -> 0..U64Max]
  <2>1. \A f \in [Slot -> 0..U64Max] : [f EXCEPT ![Local(n)] = index] \in [Slot -> 0..U64Max]
    OBVIOUS
  <2> QED BY <1>2, <2>1 DEF Typed
<1>4. x.next = n.next /\ x.outbox = n.outbox /\ x.extra = n.extra
  BY <1>2 DEF NodeFields
<1>5. Beside(n, x)
  BY <1>2, <1>3, <1>4, FieldBeside DEF Typed
<1> QED BY <1>1, <1>5 DEF MatchSelf, x

(* send_all                                                                *)
LEMMA SendAllBeside ==
  ASSUME NEW n, Typed(n), NEW ids, NEW out, OutOK(out)
  PROVE  Beside(n, SendAll(n, ids, out))
<1> DEFINE x == SendAll(n, ids, out)
<1>1. /\ DOMAIN x = NodeFields /\ \A f \in NodeFields \ {"outbox"} : x[f] = n[f]
      /\ x.outbox = [s \in Slot |-> IF s # Local(n) /\ n.peers[s] \in ids THEN out ELSE n.outbox[s]]
  BY DEF SendAll, Typed, NodeFields
<1> HIDE DEF x
<1>2. x.next = n.next /\ x.matched = n.matched /\ x.extra = n.extra
  BY <1>1 DEF NodeFields
<1>3. DOMAIN x.outbox = Slot /\ \A s \in Slot : x.outbox[s] = out \/ x.outbox[s] = n.outbox[s]
  BY <1>1
<1>4. \A s \in Slot : x.outbox[s] # None => OutOK(x.outbox[s])
  BY <1>3 DEF Typed
<1>5. Beside(n, x)
  BY <1>1, <1>2, <1>3, <1>4, FieldBeside DEF Typed
<1> QED BY <1>5 DEF x

(* Descriptors without contents.                                           *)
LEMMA PlainOut == OutOK(ReplicateOut) /\ OutOK(VoteOut) /\ \A g : OutOK(VotedOut(g))
BY DEF OutOK, OutKinds, ReplicateOut, VoteOut, VotedOut

(* bcast                                                                   *)
LEMMA BroadcastBeside ==
  ASSUME NEW n, Typed(n)
  PROVE  Beside(n, Broadcast(n))
BY SendAllBeside, PlainOut DEF Broadcast

(* send                                                                    *)
LEMMA SendBeside ==
  ASSUME NEW n, Typed(n), NEW slot, NEW from, NEW out, OutOK(out)
  PROVE  Beside(n, Send(n, slot, from, out))
<1> DEFINE x == [n EXCEPT !.extra = [to |-> from, out |-> out]]
           y == [n EXCEPT !.outbox[slot] = out]
<1>1. Beside(n, x)
  <2>1. DOMAIN x = NodeFields /\ x.extra = [to |-> from, out |-> out] /\ \A f \in NodeFields \ {"extra"} : x[f] = n[f]
    BY DEF Typed, NodeFields
  <2> HIDE DEF x
  <2>2. x.next = n.next /\ x.matched = n.matched /\ x.outbox = n.outbox
    BY <2>1 DEF NodeFields
  <2>3. x.extra.out = out
    BY <2>1
  <2> QED BY <2>1, <2>2, <2>3, FieldBeside DEF Typed
<1>2. Beside(n, y)
  <2>1. DOMAIN y = NodeFields /\ y.outbox = [n.outbox EXCEPT ![slot] = out] /\ \A f \in NodeFields \ {"outbox"} : y[f] = n[f]
    BY DEF Typed, NodeFields
  <2> HIDE DEF y
  <2>2. y.next = n.next /\ y.matched = n.matched /\ y.extra = n.extra
    BY <2>1 DEF NodeFields
  <2>3. DOMAIN y.outbox = Slot /\ \A s \in Slot : y.outbox[s] = out \/ y.outbox[s] = n.outbox[s]
    BY <2>1 DEF Typed
  <2>4. \A s \in Slot : y.outbox[s] # None => OutOK(y.outbox[s])
    BY <2>3 DEF Typed
  <2> QED BY <2>1, <2>2, <2>3, <2>4, FieldBeside DEF Typed
<1> QED BY <1>1, <1>2 DEF Send, x, y

(* A vote counted.                                                         *)
LEMMA CountBeside ==
  ASSUME NEW n, Typed(n), NEW slot
  PROVE  Beside(n, Count(n, slot))
<1> DEFINE x == Count(n, slot)
<1>1. DOMAIN x = NodeFields /\ \A f \in NodeFields \ {"votes"} : x[f] = n[f]
  BY DEF Count, Typed, NodeFields
<1> HIDE DEF x
<1>2. x.next = n.next /\ x.matched = n.matched /\ x.outbox = n.outbox /\ x.extra = n.extra
  BY <1>1 DEF NodeFields
<1>3. Beside(n, x)
  BY <1>1, <1>2, FieldBeside DEF Typed
<1> QED BY <1>3 DEF x

-----------------------------------------------------------------------------
(* Operations that change what is saved.                                   *)

OK(d, n) == Typed(n) /\ Held(d, n)

(* What is beside a node is as well over the disk.                         *)
LEMMA BesideOK ==
  ASSUME NEW d, NEW n, OK(d, n), NEW r, Beside(n, r)
  PROVE  OK(d, r)
BY BesideHeld DEF OK, Beside

(* Another hard state over the same log.                                   *)
LEMMA SameLogHeld ==
  ASSUME NEW d, NEW n, Held(d, n), NEW r, CP(r.st), SameLog(n.st, r.st), r.st.cap = n.st.cap, n.st.commit <= r.st.commit,
         r.dirty, r.logFrom = n.logFrom, r.snapChanged = n.snapChanged,
         r.prevoting # None => r.prevoting = r.st.term + 1 /\ r.prevoting <= U64Max,
         r.role # "Follower" => r.st.term # 0
  PROVE  Held(d, r)
<1>1. Pends(d, r)
  <2>1. \A x \in Nat : Get(r.st, x) = Get(n.st, x)
    BY DEF SameLog
  <2>2. d.commit \in Nat /\ d.commit <= r.st.commit
    <3>1. /\ n.st.commit \in Nat /\ r.st.commit \in Nat
          /\ d.commit \in Nat /\ d.commit <= n.st.commit /\ n.st.commit <= r.st.commit
      BY Fields6 DEF Held, Pends, CP
    <3> QED BY <3>1
  <2> QED BY <2>1, <2>2 DEF Pends, Held, SameLog
<1> QED BY <1>1 DEF Held

(* Fields other than what is saved, carried over.                          *)
LEMMA TypedOn ==
  ASSUME NEW n, Typed(n), NEW r, DOMAIN r = NodeFields,
         \A f \in NodeFields \ {"st", "dirty", "logFrom", "snapChanged", "votes", "active", "aged", "leader",
                                "role", "prevoting"} : r[f] = n[f]
  PROVE  Typed(r)
<1>1. /\ r.id = n.id /\ r.bootstrap = n.bootstrap /\ r.membership = n.membership
      /\ r.next = n.next /\ r.matched = n.matched /\ r.outbox = n.outbox /\ r.extra = n.extra
  BY DEF NodeFields
<1> QED BY <1>1 DEF Typed

(* commit_to                                                               *)
LEMMA CommitOK ==
  ASSUME NEW d, NEW n, OK(d, n), NEW index \in Nat, index <= LastId(n.st).index
  PROVE  OK(d, CommitTo(n, index)) /\ CommitTo(n, index).id = n.id
<1>1. CASE index > n.st.commit
  <2> DEFINE x == [n EXCEPT !.st.commit = index, !.dirty = TRUE]
  <2>1. /\ DOMAIN x = NodeFields /\ x.st = [n.st EXCEPT !.commit = index] /\ x.dirty
        /\ \A f \in NodeFields \ {"st", "dirty"} : x[f] = n[f]
    BY DEF OK, Typed, NodeFields
  <2> HIDE DEF x
  <2>2. /\ x.id = n.id /\ x.logFrom = n.logFrom /\ x.snapChanged = n.snapChanged /\ x.role = n.role /\ x.prevoting = n.prevoting
    BY <2>1 DEF NodeFields
  <2>3. CP(n.st) /\ n.st \in Checkpoints /\ LastId(n.st).index \in Nat /\ LastId(n.st).index <= U64Max
    BY Retained, U64Assumption DEF OK, Held, CP, LogIds
  <2>a. index \in 0..U64Max
    BY <2>3, U64Assumption
  <2>4. /\ x.st \in Checkpoints /\ x.st.term = n.st.term /\ x.st.vote = n.st.vote /\ x.st.commit = index
        /\ x.st.cap = n.st.cap /\ x.st.snapshot = n.st.snapshot /\ x.st.entries = n.st.entries
    BY <2>1, <2>3, <2>a DEF Checkpoints
  <2>5. /\ n.st.term \in 0..U64Max /\ n.st.vote \in Id \cup {None} /\ n.st.cap \in Nat /\ n.st.commit \in Nat
        /\ n.st.term = 0 => n.st.vote = None
    BY <2>3, Fields6, U64Assumption DEF CP, Restorable
  <2>6. CP(x.st) /\ SameLog(n.st, x.st)
    <3>1. n.st.term <= n.st.term /\ n.st.cap <= n.st.cap /\ n.st.commit <= index
      BY <1>1, <2>5, U64Assumption
    <3>2. PICK s, t, v, c : s = x.st /\ t = n.st.term /\ v = n.st.vote /\ c = n.st.cap
      OBVIOUS
    <3> QED BY <2>3, <2>4, <2>5, <3>1, HardChanged
  <2>b. /\ Held(d, n)
        /\ x.prevoting # None => x.prevoting = x.st.term + 1 /\ x.prevoting <= U64Max
        /\ x.role # "Follower" => x.st.term # 0
    BY <2>2, <2>4 DEF OK, Held
  <2>7. Held(d, x)
    <3>1. n.st.commit <= x.st.commit
      BY <1>1, <2>4, <2>5
    <3> QED BY <2>1, <2>2, <2>4, <2>6, <2>b, <3>1, SameLogHeld
  <2>8. Typed(x)
    BY <2>1, TypedOn DEF OK
  <2>9. Beside(x, RefreshMembership(x))
    BY <2>6, <2>8, RefreshBeside
  <2>10. OK(d, RefreshMembership(x)) /\ RefreshMembership(x).id = n.id
    BY <2>2, <2>7, <2>8, <2>9, BesideOK DEF OK, Beside
  <2> QED BY <1>1, <2>10 DEF CommitTo, x
<1>2. CASE ~(index > n.st.commit)
  BY <1>2 DEF CommitTo
<1> QED BY <1>1, <1>2

(* A prefix of a log and one entry more.                                   *)
LEMMA Appending ==
  ASSUME NEW S, NEW s \in Seq(S), NEW e \in S
  PROVE  /\ SubSeq(s, 1, Len(s)) = s
         /\ \A k \in 0..Len(s) : /\ SubSeq(s, 1, k) \in Seq(S) /\ Len(SubSeq(s, 1, k)) = k
                                 /\ Append(SubSeq(s, 1, k), e) = SubSeq(s, 1, k) \o <<e>>
<1>1. ASSUME NEW u \in Seq(S) PROVE Append(u, e) = u \o <<e>>
  <2>1. <<e>> \in Seq(S) /\ Len(<<e>>) = 1 /\ <<e>>[1] = e /\ Len(u) \in Nat
    OBVIOUS
  <2>2. /\ u \o <<e>> \in Seq(S) /\ Len(u \o <<e>>) = Len(u) + 1
        /\ \A i \in 1..(Len(u) + 1) : (u \o <<e>>)[i] = IF i <= Len(u) THEN u[i] ELSE <<e>>[i - Len(u)]
    BY <2>1, ConcatProperties
  <2>3. /\ Append(u, e) \in Seq(S) /\ Len(Append(u, e)) = Len(u) + 1
        /\ \A i \in 1..(Len(u) + 1) : Append(u, e)[i] = IF i <= Len(u) THEN u[i] ELSE e
    BY <2>1
  <2>4. \A i \in 1..(Len(u) + 1) : ~(i <= Len(u)) => i - Len(u) = 1
    BY <2>1
  <2>5. \A i \in 1..(Len(u) + 1) : Append(u, e)[i] = (u \o <<e>>)[i]
    BY <2>1, <2>2, <2>3, <2>4
  <2> DEFINE a == Append(u, e)
             c == u \o <<e>>
  <2> HIDE DEF a, c
  <2>6. a \in Seq(S) /\ c \in Seq(S) /\ Len(a) = Len(c) /\ \A i \in 1..Len(a) : a[i] = c[i]
    BY <2>2, <2>3, <2>5 DEF a, c
  <2>7. a = c
    BY <2>6, SeqEqual
  <2> QED BY <2>7 DEF a, c
<1>2. ASSUME NEW k \in 0..Len(s) PROVE SubSeq(s, 1, k) \in Seq(S) /\ Len(SubSeq(s, 1, k)) = k
  <2>1. \A i \in 1..k : s[i] \in S
    OBVIOUS
  <2>2. SubSeq(s, 1, k) \in Seq(S) /\ Len(SubSeq(s, 1, k)) = IF 1 <= k THEN k - 1 + 1 ELSE 0
    BY <2>1, SubSeqProperties
  <2> QED BY <2>2
<1>3. SubSeq(s, 1, Len(s)) = s
  <2>1. \A i \in 1..Len(s) : s[i] \in S
    OBVIOUS
  <2> DEFINE u == SubSeq(s, 1, Len(s))
  <2>2. u \in Seq(S) /\ Len(u) = Len(s) /\ \A i \in 1..Len(s) - 1 + 1 : u[i] = s[1 + i - 1]
    BY <1>2, <2>1, SubSeqProperties
  <2> HIDE DEF u
  <2>3. \A i \in 1..Len(u) : u[i] = s[i]
    BY <2>2
  <2>4. u = s
    BY <2>2, <2>3, SeqEqual
  <2> QED BY <2>4 DEF u
<1> QED BY <1>1, <1>2, <1>3

(* The log replaced from an index on.                                      *)
LEMMA SuffixHeld ==
  ASSUME NEW d, CP(d), NEW n, Held(d, n), NEW k \in 0..Len(n.st.entries), n.st.commit <= Base(n.st).index + k,
         NEW batch \in Seq(Entries), batch # <<>>, k + Len(batch) <= n.st.cap, Follows1(n.st, k, batch),
         NEW r, r.st = Suffixed(n.st, k, batch),
         r.dirty, r.snapChanged = n.snapChanged,
         LET index == Base(n.st).index + k + 1
         IN  r.logFrom = IF n.logFrom = None THEN index ELSE Min2(n.logFrom, index),
         r.prevoting \in {n.prevoting, None}, r.role \in {n.role, "Follower"}
  PROVE  Held(d, r)
<1>0. PICK st : st = n.st
  OBVIOUS
<1> DEFINE s == Suffixed(st, k, batch)
           b == Base(st).index
           index == b + k + 1
<1>1. CP(st) /\ Pends(d, n) /\ b \in Nat /\ Len(st.entries) \in Nat /\ k \in Nat /\ Len(batch) \in Nat /\ Len(batch) >= 1
  BY <1>0, Fields6 DEF Held, CP
<1>2. /\ CP(s) /\ s.term = st.term /\ s.cap = st.cap /\ s.snapshot = st.snapshot /\ Base(s) = Base(st)
      /\ LastId(s).index = b + k + Len(batch) /\ s.commit = st.commit
      /\ \A x \in Nat : x <= b + k => Get(s, x) = Get(st, x)
  <2>1. CP(st) /\ k \in 0..Len(st.entries) /\ st.commit <= Base(st).index + k /\ k + Len(batch) <= st.cap
        /\ Follows1(st, k, batch)
    BY <1>0, <1>1
  <2> QED BY <2>1, Extended
<1>3. r.st = s
  BY <1>0
<1> HIDE DEF s
<1>4. index \in 1..U64Max
  <2>1. LastId(s).index <= U64Max
    BY <1>2, Retained
  <2> QED BY <1>1, <1>2, <2>1, U64Assumption
<1>5. r.logFrom \in 1..U64Max /\ r.logFrom <= index /\ (n.logFrom # None => r.logFrom <= n.logFrom) /\ r.logFrom # None
  <2>1. n.logFrom \in 1..U64Max \cup {None} /\ None \notin Nat
    BY <1>1, NothingAssumption DEF Pends
  <2>2. r.logFrom = IF n.logFrom = None THEN index ELSE Min2(n.logFrom, index)
    BY <1>0
  <2> HIDE DEF index
  <2> QED BY <1>4, <2>1, <2>2, U64Assumption DEF Min2
<1>6. ASSUME NEW x \in Nat, x > Base(s).index, r.logFrom # None => x < r.logFrom PROVE Get(s, x) = Get(d, x)
  <2>1. x < r.logFrom /\ x <= b + k
    BY <1>1, <1>4, <1>5, <1>6
  <2>2. x > b /\ (n.logFrom # None => x < n.logFrom)
    <3>1. n.logFrom \in 1..U64Max \cup {None}
      BY <1>1 DEF Pends
    <3> QED BY <1>2, <1>5, <1>6, <2>1, <3>1, U64Assumption
  <2>3. Get(st, x) = Get(d, x)
    BY <1>0, <1>1, <2>2 DEF Pends
  <2> QED BY <1>2, <2>1, <2>3
<1>7. Pends(d, r)
  BY <1>0, <1>1, <1>2, <1>3, <1>5, <1>6 DEF Pends
<1> QED BY <1>0, <1>2, <1>3, <1>7 DEF Held

(* One entry put after the log.                                            *)
LEMMA PushedOne ==
  ASSUME NEW st, CP(st), NEW e \in Entries, NEW k \in 0..Len(st.entries)
  PROVE  /\ Push([st EXCEPT !.entries = SubSeq(@, 1, k)], e) = Suffixed(st, k, <<e>>)
         /\ k = Len(st.entries) => Push(st, e) = Suffixed(st, k, <<e>>)
<1>1. st \in Checkpoints /\ st.entries \in Seq(Entries)
  BY Fields6 DEF CP
<1>2. /\ SubSeq(st.entries, 1, Len(st.entries)) = st.entries
      /\ Append(SubSeq(st.entries, 1, k), e) = SubSeq(st.entries, 1, k) \o <<e>>
  BY <1>1, Appending
<1>3. k = Len(st.entries) => Append(st.entries, e) = SubSeq(st.entries, 1, k) \o <<e>>
  BY <1>2
<1> QED BY <1>1, <1>2, <1>3 DEF Push, Checkpoints, Suffixed

(* The measures of a checkpoint.                                           *)
LEMMA Measures ==
  ASSUME NEW st, CP(st)
  PROVE  LET b == Base(st).index
             k == Len(st.entries)
         IN  /\ b \in Nat /\ k \in Nat /\ k \in 0..k /\ st.cap \in Nat /\ k <= st.cap
             /\ st.term \in Nat /\ st.term <= U64Max /\ st.commit \in Nat /\ st.vote \in Id \cup {None}
             /\ st.term = 0 => st.vote = None
             /\ LastId(st) \in LogIds /\ LastId(st).index = b + k /\ LastId(st).term <= st.term /\ b + k <= U64Max
             /\ LastId(st).index \in Nat /\ LastId(st).index <= U64Max
             /\ b <= st.commit /\ st.commit <= b + k
             /\ IdAt(st, b + k) = LastId(st)
             /\ st \in Checkpoints /\ st.entries \in Seq(Entries)
<1> DEFINE b == Base(st).index
           k == Len(st.entries)
<1>1. /\ b \in Nat /\ k \in Nat /\ st.cap \in Nat /\ st.term \in 0..U64Max /\ st.commit \in 0..U64Max
      /\ st.vote \in Id \cup {None} /\ st \in Checkpoints /\ st.entries \in Seq(Entries)
  BY Fields6 DEF CP
<1>2. k <= st.cap /\ (st.term = 0 => st.vote = None)
  BY DEF CP, Restorable
<1>3. /\ LastId(st) \in LogIds /\ LastId(st).index = b + k /\ LastId(st).term <= st.term /\ b + k <= U64Max
      /\ b <= st.commit /\ st.commit <= b + k
  BY Retained
<1>4. IdAt(st, b + k) = LastId(st)
  <2>1. CASE k = 0
    <3>1. b + k = b /\ st.entries = <<>>
      BY <1>1, <2>1
    <3>2. IdAt(st, b) = Base(st)
      BY Retained
    <3> QED BY <3>1, <3>2 DEF LastId
  <2>2. CASE k # 0
    <3>1. b + k \in b + 1..b + k /\ b + k \in Nat /\ (b + k) - b = k
      BY <1>1, <2>2
    <3>2. IdAt(st, b + k) = Get(st, b + k).id /\ Get(st, b + k) = st.entries[(b + k) - b]
      BY <3>1, Retained
    <3>3. st.entries # <<>>
      BY <2>2
    <3> QED BY <3>1, <3>2, <3>3 DEF LastId
  <2> QED BY <2>1, <2>2
<1> QED BY <1>1, <1>2, <1>3, <1>4, U64Assumption

(* What the leader counts as acknowledged is an index.                     *)
LEMMA AcknowledgedTyped ==
  ASSUME NEW n, Typed(n)
  PROVE  Acknowledged(n) \in Nat
<1> DEFINE f == [id \in Id |-> Matched(n, id)]
<1>1. f \in [Id -> Nat]
  <2> SUFFICES ASSUME NEW id \in Id PROVE Matched(n, id) \in Nat
    OBVIOUS
  <2>1. SlotOf(n.peers, id) = 0 \/ SlotOf(n.peers, id) \in Slot
    BY SlotOfSlot
  <2> QED BY <2>1, U64Assumption DEF Matched, Typed
<1>2. n.membership.voters \in SUBSET Id /\ n.membership.voters # {} /\ n.membership.old \in SUBSET Id
  BY DEF Typed, Configs, Memberships
<1> HIDE DEF f
<1>3. MajorityIndex(n.membership.voters, f) \in Nat
  BY <1>1, <1>2, MajorityIndexIsGreatest
<1>4. n.membership.old # {} => MajorityIndex(n.membership.old, f) \in Nat
  BY <1>1, <1>2, MajorityIndexIsGreatest
<1>5. QuorumIndex(n.membership, f) \in Nat
  BY <1>3, <1>4 DEF QuorumIndex, IsJoint, Min2
<1> QED BY <1>5 DEF Acknowledged, f

(* advance_commit                                                          *)
LEMMA AdvanceOK ==
  ASSUME NEW d, NEW n, OK(d, n)
  PROVE  OK(d, AdvanceCommit(n))
<1>1. CASE Advances(n)
  <2>1. Acknowledged(n) \in Nat /\ IdAt(n.st, Acknowledged(n)) # None /\ CP(n.st)
    BY <1>1, AcknowledgedTyped DEF Advances, MayCommit, OK, Held
  <2>2. Acknowledged(n) <= LastId(n.st).index
    <3>1. PICK a : a = Acknowledged(n)
      OBVIOUS
    <3>2. Base(n.st).index \in Nat /\ Len(n.st.entries) \in Nat
      BY <2>1, Fields6 DEF CP
    <3>3. a \in Base(n.st).index..Base(n.st).index + Len(n.st.entries)
      BY <2>1, <3>1, Retained
    <3>4. LastId(n.st).index = Base(n.st).index + Len(n.st.entries)
      BY <2>1, Retained
    <3> QED BY <3>1, <3>2, <3>3, <3>4
  <2>3. OK(d, CommitTo(n, Acknowledged(n)))
    BY <2>1, <2>2, CommitOK
  <2> QED BY <1>1, <2>3 DEF AdvanceCommit
<1>2. CASE ~Advances(n)
  BY <1>2 DEF AdvanceCommit
<1> QED BY <1>1, <1>2

(* barrier                                                                 *)
LEMMA BarrierOK ==
  ASSUME NEW d, CP(d), NEW n, OK(d, n), n.logFrom = None, n.st.term # 0
  PROVE  OK(d, Barrier(n))
<1>0. PICK st : st = n.st
  OBVIOUS
<1> DEFINE index == LastId(st).index + 1
           e == Entry(index, st.term, None)
           x == [n EXCEPT !.st = Push(@, e), !.dirty = TRUE, !.logFrom = index]
           k == Len(st.entries)
<1>1. CASE LastId(st).term = st.term \/ IsFull(st) \/ index > U64Max
  BY <1>0, <1>1 DEF Barrier
<1>2. CASE ~(LastId(st).term = st.term \/ IsFull(st) \/ index > U64Max)
  <2>1. /\ CP(st) /\ k \in Nat /\ Base(st).index \in Nat /\ LastId(st).index = Base(st).index + k
        /\ st.commit <= Base(st).index + k /\ LastId(st).term <= st.term /\ st.term \in Nat /\ st.term <= U64Max
        /\ LastId(st) \in LogIds /\ k <= st.cap /\ st.cap \in Nat
    <3>1. CP(st)
      BY <1>0 DEF OK, Held
    <3> QED BY <3>1, Measures
  <2>2. index \in 1..U64Max /\ k # st.cap
    BY <1>2, <2>1, U64Assumption DEF IsFull
  <2>3. e \in Entries /\ e.id.index = index /\ e.id.term = st.term
    <3>1. LogId(index, st.term) \in LogIds
      BY <2>1, <2>2 DEF LogIds, LogId
    <3> QED BY <3>1 DEF Entry, Entries, LogId
  <2>4. IdAt(st, Base(st).index + k).term \in Nat /\ IdAt(st, Base(st).index + k).term <= st.term
    <3>1. IdAt(st, Base(st).index + k) = LastId(st)
      BY <2>1, Measures
    <3> QED BY <2>1, <3>1 DEF LogIds
  <2>5. Follows1(st, k, <<e>>)
    <3>1. Len(<<e>>) = 1 /\ <<e>>[1] = e
      OBVIOUS
    <3>2. Base(st).index + k + 1 = index /\ st.term # 0
      BY <1>0, <2>1
    <3> HIDE DEF e, index, k
    <3> QED BY <2>1, <2>2, <2>3, <2>4, <3>1, <3>2 DEF Follows1
  <2>6. Push(st, e) = Suffixed(st, k, <<e>>)
    <3> HIDE DEF e
    <3>1. k \in 0..k
      BY <2>1
    <3> QED BY <2>1, <2>3, <3>1, PushedOne
  <2> HIDE DEF e
  <2>7. /\ DOMAIN x = NodeFields /\ x.st = Push(st, e) /\ x.dirty /\ x.logFrom = index
        /\ \A f \in NodeFields \ {"st", "dirty", "logFrom"} : x[f] = n[f]
    BY <1>0 DEF OK, Typed, NodeFields
  <2> HIDE DEF x
  <2>8. x.snapChanged = n.snapChanged /\ x.prevoting = n.prevoting /\ x.role = n.role
    BY <2>7 DEF NodeFields
  <2>9. Held(d, x)
    <3>1. PICK B : B = <<e>>
      OBVIOUS
    <3>2. B \in Seq(Entries) /\ B # <<>> /\ Len(B) = 1 /\ k + Len(B) <= st.cap
      <4> HIDE DEF k
      <4> QED BY <2>1, <2>2, <2>3, <3>1
    <3>3. x.logFrom = IF n.logFrom = None THEN Base(st).index + k + 1 ELSE Min2(n.logFrom, Base(st).index + k + 1)
      BY <2>1, <2>7
    <3>4. Held(d, n) /\ k \in 0..Len(n.st.entries) /\ n.st.commit <= Base(n.st).index + k /\ Follows1(n.st, k, B)
          /\ x.st = Suffixed(n.st, k, B) /\ k + Len(B) <= n.st.cap
      BY <1>0, <2>1, <2>5, <2>6, <2>7, <3>1, <3>2 DEF OK
    <3> HIDE DEF k
    <3> QED BY <1>0, <2>7, <2>8, <3>2, <3>3, <3>4, SuffixHeld
  <2>10. Typed(x)
    BY <2>7, TypedOn DEF OK
  <2> DEFINE y == MatchSelf(x, index)
  <2>11. OK(d, y)
    <3>1. index \in 0..U64Max
      BY <2>2
    <3> HIDE DEF index
    <3> QED BY <2>9, <2>10, <3>1, MatchSelfBeside, BesideOK DEF OK
  <2> HIDE DEF y
  <2>12. OK(d, AdvanceCommit(y))
    BY <2>11, AdvanceOK
  <2>13. Barrier(n) = AdvanceCommit(y)
    BY <1>0, <1>2 DEF Barrier, y, x, e
  <2> QED BY <2>12, <2>13
<1> QED BY <1>1, <1>2

(* A term entered, with a vote.                                            *)
LEMMA TermOK ==
  ASSUME NEW d, NEW n, OK(d, n), NEW t \in Nat, n.st.term <= t, t # 0, t <= U64Max, NEW v \in Id \cup {None},
         NEW r, DOMAIN r = NodeFields,
         \A f \in NodeFields \ {"st", "dirty", "votes", "leader", "aged", "role", "prevoting"} : r[f] = n[f],
         r.st = [n.st EXCEPT !.term = t, !.vote = v], r.dirty, r.prevoting = None \/ (r.prevoting = n.prevoting /\ t = n.st.term)
  PROVE  OK(d, r) /\ SameLog(n.st, r.st)
<1>0. PICK st : st = n.st
  OBVIOUS
<1>1. CP(st)
  BY <1>0 DEF OK, Held
<1>2. st.term \in Nat /\ st.commit \in Nat /\ st.cap \in Nat /\ st \in Checkpoints /\ st.commit <= LastId(st).index /\ t \in 0..U64Max
  BY <1>1, Measures, U64Assumption
<1>3. PICK s : s = r.st
  OBVIOUS
<1>4. /\ s \in Checkpoints /\ s.term = t /\ s.vote = v /\ s.commit = st.commit /\ s.cap = st.cap
      /\ s.snapshot = st.snapshot /\ s.entries = st.entries
  BY <1>0, <1>2, <1>3, ZenonT(60) DEF Checkpoints
<1>5. CP(s) /\ SameLog(st, s)
  <2>1. PICK c, cap : c = st.commit /\ cap = st.cap
    OBVIOUS
  <2>2. c \in Nat /\ st.commit <= c /\ c <= LastId(st).index /\ cap \in Nat /\ st.cap <= cap /\ s.commit = c /\ s.cap = cap /\ st.term <= t
    BY <1>0, <1>2, <1>4, <2>1
  <2> QED BY <1>1, <1>2, <1>4, <2>2, HardChanged
<1>6. r.logFrom = n.logFrom /\ r.snapChanged = n.snapChanged
  BY DEF NodeFields
<1>7. /\ r.prevoting # None => r.prevoting = r.st.term + 1 /\ r.prevoting <= U64Max
      /\ r.role # "Follower" => r.st.term # 0
  BY <1>0, <1>3, <1>4 DEF OK, Held
<1>8. Held(d, r)
  <2>1. Held(d, n) /\ CP(r.st) /\ SameLog(n.st, r.st) /\ r.st.cap = n.st.cap /\ n.st.commit <= r.st.commit
    BY <1>0, <1>2, <1>3, <1>4, <1>5 DEF OK
  <2> QED BY <1>6, <1>7, <2>1, SameLogHeld
<1>9. Typed(r)
  BY TypedOn DEF OK
<1> QED BY <1>0, <1>3, <1>5, <1>8, <1>9 DEF OK

(* The term of a greater message.                                          *)
LEMMA AdoptTermOK ==
  ASSUME NEW d, NEW n, OK(d, n), NEW t \in 0..U64Max
  PROVE  LET r == AdoptTerm(n, t) IN
         /\ OK(d, r) /\ r.logFrom = n.logFrom /\ r.id = n.id
         /\ r.st.term >= t /\ r.st.term \in Nat /\ (r.st.term = n.st.term \/ r.st.term = t)
<1>0. CP(n.st) /\ n.st.term \in Nat /\ t \in Nat /\ t <= U64Max
  BY Measures, U64Assumption DEF OK, Held
<1>1. CASE t > n.st.term
  <2> DEFINE a == [n EXCEPT !.st.term = t, !.st.vote = None, !.dirty = TRUE]
             x == Follow(a, None)
  <2>a. /\ DOMAIN a = NodeFields /\ a.st = [n.st EXCEPT !.term = t, !.vote = None] /\ a.dirty
        /\ \A f \in NodeFields \ {"st", "dirty"} : a[f] = n[f]
    BY DEF OK, Typed, NodeFields
  <2> HIDE DEF a
  <2>1. /\ DOMAIN x = NodeFields /\ x.st = a.st /\ x.dirty = a.dirty /\ x.prevoting = None
        /\ \A f \in NodeFields \ {"leader", "aged", "role", "prevoting"} : x[f] = a[f]
    BY <2>a DEF Follow, NodeFields
  <2> HIDE DEF x
  <2>2. \A f \in NodeFields \ {"st", "dirty", "votes", "leader", "aged", "role", "prevoting"} : x[f] = n[f]
    BY <2>a, <2>1
  <2>3. OK(d, x)
    <3>1. t # 0 /\ n.st.term <= t /\ None \in Id \cup {None}
      BY <1>0, <1>1
    <3>2. x.st = [n.st EXCEPT !.term = t, !.vote = None] /\ x.dirty
      BY <2>a, <2>1
    <3> QED BY <1>0, <2>1, <2>2, <3>1, <3>2, TermOK
  <2>4. x.logFrom = n.logFrom /\ x.id = n.id
    BY <2>2 DEF NodeFields
  <2>5. x.st.term = t
    BY <2>a, <2>1, <1>0, Measures DEF Checkpoints
  <2>6. AdoptTerm(n, t) = x
    BY <1>1 DEF AdoptTerm, x, a
  <2> QED BY <1>0, <2>3, <2>4, <2>5, <2>6
<1>2. CASE ~(t > n.st.term)
  BY <1>0, <1>2 DEF AdoptTerm
<1> QED BY <1>1, <1>2

(* candidate                                                               *)
LEMMA CandidateOK ==
  ASSUME NEW d, NEW n, OK(d, n), NEW t \in Nat, n.st.term < t, t <= U64Max
  PROVE  LET r == Candidate(n, t) IN OK(d, r) /\ r.logFrom = n.logFrom /\ r.st.term # 0
<1> DEFINE x == Candidate(n, t)
<1>1. /\ DOMAIN x = NodeFields /\ x.st = [n.st EXCEPT !.term = t, !.vote = n.id] /\ x.dirty /\ x.prevoting = None
      /\ \A f \in NodeFields \ {"st", "dirty", "votes", "leader", "aged", "role", "prevoting"} : x[f] = n[f]
  BY DEF OK, Typed, NodeFields, Candidate
<1> HIDE DEF x
<1>2. n.st.term \in Nat /\ n.st \in Checkpoints
  BY Measures DEF OK, Held
<1>3. n.id \in Id \cup {None} /\ n.st.term <= t /\ t # 0
  BY <1>2 DEF OK, Typed
<1>4. OK(d, x)
  BY <1>1, <1>3, TermOK
<1>5. x.logFrom = n.logFrom
  BY <1>1 DEF NodeFields
<1>6. x.st.term = t
  BY <1>1, <1>2 DEF Checkpoints
<1> QED BY <1>3, <1>4, <1>5, <1>6 DEF x

(* become_leader                                                           *)
LEMMA BecomeLeaderOK ==
  ASSUME NEW d, CP(d), NEW n, OK(d, n), n.logFrom = None, n.st.term # 0
  PROVE  OK(d, BecomeLeader(n))
<1>0. PICK last : last = LastId(n.st).index
  OBVIOUS
<1> DEFINE x == [n EXCEPT !.active = {}, !.role = "Leader", !.leader = n.id,
                          !.next = [s \in Slot |-> SaturatingSucc(last)],
                          !.matched = [s \in Slot |-> 0]]
           y == MatchSelf(x, last)
           z == Barrier(y)
<1>1. last \in 0..U64Max /\ SaturatingSucc(last) \in 1..U64Max
  <2>1. last \in Nat /\ last <= U64Max
    BY <1>0, Measures DEF OK, Held
  <2> QED BY <2>1, U64Assumption DEF SaturatingSucc, Min2
<1>2. /\ DOMAIN x = NodeFields /\ x.role = "Leader" /\ x.next = [s \in Slot |-> SaturatingSucc(last)]
      /\ x.matched = [s \in Slot |-> 0]
      /\ \A f \in NodeFields \ {"active", "role", "leader", "next", "matched"} : x[f] = n[f]
  BY DEF OK, Typed, NodeFields
<1> HIDE DEF x
<1>3. /\ x.id = n.id /\ x.st = n.st /\ x.dirty = n.dirty /\ x.logFrom = n.logFrom /\ x.snapChanged = n.snapChanged
      /\ x.bootstrap = n.bootstrap /\ x.membership = n.membership /\ x.prevoting = n.prevoting
      /\ x.extra = n.extra /\ x.outbox = n.outbox
  BY <1>2 DEF NodeFields
<1>4. OK(d, x)
  <2>1. x.next \in [Slot -> 1..U64Max] /\ x.matched \in [Slot -> 0..U64Max]
    <3>1. 0 \in 0..U64Max
      BY U64Assumption
    <3> QED BY <1>1, <1>2, <3>1
  <2>2. Typed(x)
    BY <1>2, <1>3, <2>1 DEF OK, Typed
  <2>3. Held(d, x)
    BY <1>3 DEF OK, Held, Pends
  <2> QED BY <2>2, <2>3 DEF OK
<1>5. Beside(x, y)
  BY <1>1, <1>4, MatchSelfBeside DEF OK
<1> HIDE DEF y
<1>6. OK(d, y) /\ y.logFrom = None /\ y.st.term # 0
  BY <1>3, <1>4, <1>5, BesideOK DEF Beside
<1>7. OK(d, z)
  BY <1>6, BarrierOK
<1> HIDE DEF z
<1>8. OK(d, Broadcast(z))
  BY <1>7, BroadcastBeside, BesideOK DEF OK
<1>9. BecomeLeader(n) = Broadcast(z)
  BY <1>0 DEF BecomeLeader, x, y, z
<1> QED BY <1>8, <1>9

(* campaign                                                                *)
LEMMA CampaignOK ==
  ASSUME NEW d, CP(d), NEW n, OK(d, n), n.logFrom = None, NEW t \in Nat, n.st.term < t, t <= U64Max
  PROVE  OK(d, Campaign(n, t))
<1> DEFINE c == Candidate(n, t)
<1>1. OK(d, c) /\ c.logFrom = None /\ c.st.term # 0
  BY CandidateOK
<1> HIDE DEF c
<1>2. OK(d, BecomeLeader(c))
  BY <1>1, BecomeLeaderOK
<1>3. OK(d, AskVoters(c, VoteOut))
  BY <1>1, SendAllBeside, PlainOut, BesideOK DEF AskVoters, OK
<1> QED BY <1>2, <1>3 DEF Campaign, Contest, c

(* truncate                                                                *)
LEMMA Truncated ==
  ASSUME NEW st, CP(st), NEW k \in 0..Len(st.entries)
  PROVE  Truncate(st, Base(st).index + k + 1) = [st EXCEPT !.entries = SubSeq(@, 1, k)]
<1> DEFINE b == Base(st).index
           index == b + k + 1
           stays == {j \in 0..Len(st.entries) : j = 0 \/ st.entries[j].id.index < index}
           keep == CHOOSE j \in stays : \A i \in stays : i <= j
<1>1. b \in Nat /\ Len(st.entries) \in Nat /\ \A j \in 1..Len(st.entries) : st.entries[j].id.index = b + j
  BY Measures, Retained
<1>2. \A j \in 0..Len(st.entries) : j \in stays <=> j <= k
  <2> SUFFICES ASSUME NEW j \in 0..Len(st.entries) PROVE j \in stays <=> j <= k
    OBVIOUS
  <2>1. CASE j = 0
    BY <1>1, <2>1
  <2>2. CASE j # 0
    <3>1. j \in 1..Len(st.entries) /\ st.entries[j].id.index = b + j
      BY <1>1, <2>2
    <3>2. b + j < index <=> j <= k
      BY <1>1
    <3> HIDE DEF index
    <3> QED BY <2>2, <3>1, <3>2
  <2> QED BY <2>1, <2>2
<1>3. k \in stays /\ \A i \in stays : i <= k /\ i \in Nat
  BY <1>1, <1>2
<1> HIDE DEF stays
<1>4. keep \in stays /\ \A i \in stays : i <= keep
  BY <1>3
<1> HIDE DEF keep
<1>5. keep = k
  <2>1. keep <= k /\ k <= keep /\ keep \in Nat
    BY <1>3, <1>4
  <2> QED BY <2>1
<1>6. Truncate(st, index) = [st EXCEPT !.entries = SubSeq(@, 1, keep)]
  BY DEF Truncate, keep, stays
<1> QED BY <1>5, <1>6

(* An entry whose predecessor is in the log may follow it.                 *)
Continues(st, previous, entry) ==
  /\ previous \in LogIds /\ entry \in Entries /\ entry.id.index = previous.index + 1
  /\ entry.id.term # 0 /\ entry.id.term <= st.term /\ entry.id.term >= previous.term

(* Where it goes.                                                          *)
LEMMA Placing ==
  ASSUME NEW st, CP(st), NEW previous, NEW entry, Continues(st, previous, entry), Holds(st, previous)
  PROVE  LET k == previous.index - Base(st).index
             index == entry.id.index
         IN  /\ k \in 0..Len(st.entries) /\ index = Base(st).index + k + 1 /\ index \in 1..U64Max
             /\ Follows1(st, k, <<entry>>)
             /\ Push(Truncate(st, index), entry) = Suffixed(st, k, <<entry>>)
<1> DEFINE b == Base(st).index
           k == previous.index - b
           index == entry.id.index
           L == Len(st.entries)
<1>1. b \in Nat /\ L \in Nat /\ previous.index \in Nat /\ index \in 0..U64Max /\ previous # None /\ entry.id.term \in Nat /\ st.term \in Nat /\ previous.term \in Nat
  BY Measures, U64Assumption, NothingAssumption DEF Continues, Entries, LogIds
<1>2. previous.index \in b..b + L
  <2>1. PICK p : p = previous.index
    OBVIOUS
  <2>2. IdAt(st, p) # None /\ p \in Nat
    BY <1>1, <2>1 DEF Holds
  <2>3. p \in b..b + L
    BY <2>2, Retained
  <2> QED BY <2>1, <2>3
<1>3. k \in 0..L /\ index = b + k + 1 /\ b + k = previous.index
  <2>1. index = previous.index + 1
    BY DEF Continues
  <2> QED BY <1>1, <1>2, <2>1
<1>4. index \in 1..U64Max
  BY <1>1, <1>3
<1>5. IdAt(st, b + k) = previous
  BY <1>3 DEF Holds
<1> HIDE DEF k, index, b
<1>6. Follows1(st, k, <<entry>>)
  <2>1. Len(<<entry>>) = 1 /\ <<entry>>[1] = entry
    OBVIOUS
  <2>2. entry.id.index = index
    BY DEF index
  <2>3. entry.id.index = b + k + 1 /\ b + k + 1 <= U64Max
    BY <1>3, <1>4, <2>2
  <2>4. entry.id.term # 0 /\ entry.id.term <= st.term /\ entry.id.term >= IdAt(st, b + k).term
    BY <1>5 DEF Continues
  <2> QED BY <2>1, <2>3, <2>4 DEF Follows1, b
<1>7. Truncate(st, index) = [st EXCEPT !.entries = SubSeq(@, 1, k)]
  BY <1>3, Truncated DEF L, b
<1>8. Push([st EXCEPT !.entries = SubSeq(@, 1, k)], entry) = Suffixed(st, k, <<entry>>)
  BY <1>3, PushedOne DEF Continues, L
<1> QED BY <1>3, <1>4, <1>6, <1>7, <1>8 DEF k, index, b, L

(* The log replaced by an entry from its index on.                         *)
LEMMA OverwriteOK ==
  ASSUME NEW d, CP(d), NEW n, OK(d, n), NEW previous, NEW entry, Continues(n.st, previous, entry), Holds(n.st, previous),
         entry.id.index > n.st.commit, ~(IsFull(n.st) /\ entry.id.index > LastId(n.st).index)
  PROVE  LET r == Overwrite(n, entry)
             k == previous.index - Base(n.st).index
         IN  /\ OK(d, r) /\ r.st = Suffixed(n.st, k, <<entry>>) /\ r.st.term = n.st.term
             /\ LastId(r.st).index = entry.id.index /\ Holds(r.st, entry.id)
<1>0. PICK st : st = n.st
  OBVIOUS
<1> DEFINE k == previous.index - Base(st).index
           index == entry.id.index
           B == <<entry>>
           s == Suffixed(st, k, B)
           x == [n EXCEPT !.st = Push(Truncate(@, index), entry)]
           y == RefreshMembership(x)
           z == [y EXCEPT !.dirty = TRUE, !.logFrom = IF @ = None THEN index ELSE Min2(@, index)]
<1>1. CP(st) /\ Typed(n) /\ Held(d, n) /\ Continues(st, previous, entry) /\ Holds(st, previous)
      /\ index > st.commit /\ ~(IsFull(st) /\ index > LastId(st).index)
  BY <1>0 DEF OK, Held
<1>2. /\ k \in 0..Len(st.entries) /\ index = Base(st).index + k + 1 /\ index \in 1..U64Max
      /\ Follows1(st, k, B) /\ Push(Truncate(st, index), entry) = s
  BY <1>1, Placing
<1> HIDE DEF k, index
<1>3. /\ Base(st).index \in Nat /\ Len(st.entries) \in Nat /\ LastId(st).index = Base(st).index + Len(st.entries)
      /\ Len(st.entries) <= st.cap /\ st.cap \in Nat /\ st.commit \in Nat
  BY <1>1, Measures
<1>4. B \in Seq(Entries) /\ B # <<>> /\ Len(B) = 1 /\ B[1] = entry
  BY <1>1 DEF Continues
<1> HIDE DEF B
<1>5. k + Len(B) <= st.cap /\ st.commit <= Base(st).index + k
  <2>1. PICK L, b, c : L = Len(st.entries) /\ b = Base(st).index /\ c = st.cap
    OBVIOUS
  <2>2. ~(L = c /\ b + k + 1 > b + L) /\ b + k + 1 > st.commit
    BY <1>1, <1>2, <1>3, <2>1 DEF IsFull
  <2>3. L \in Nat /\ b \in Nat /\ c \in Nat /\ st.commit \in Nat /\ k \in 0..L /\ L <= c
    BY <1>2, <1>3, <2>1
  <2>4. k + 1 <= c /\ st.commit <= b + k
    BY <2>2, <2>3
  <2> QED BY <1>4, <2>1, <2>4
<1>6. /\ CP(s) /\ s.term = st.term /\ Base(s) = Base(st) /\ Len(s.entries) = k + 1 /\ s.entries[k + 1] = entry
      /\ LastId(s).index = Base(st).index + k + 1
  <2>1. /\ CP(s) /\ s.term = st.term /\ Base(s) = Base(st) /\ Len(s.entries) = k + Len(B)
        /\ \A j \in 1..Len(B) : s.entries[k + j] = B[j]
        /\ LastId(s).index = Base(st).index + k + Len(B)
    BY <1>1, <1>2, <1>4, <1>5, Extended, ZenonT(60)
  <2> HIDE DEF s
  <2> QED BY <1>4, <2>1
<1> HIDE DEF s
<1>7. DOMAIN x = NodeFields /\ x.st = s /\ \A f \in NodeFields \ {"st"} : x[f] = n[f]
  BY <1>0, <1>1, <1>2 DEF Typed, NodeFields
<1> HIDE DEF x
<1>8. Typed(x) /\ x.snapChanged = n.snapChanged /\ x.logFrom = n.logFrom /\ x.prevoting = n.prevoting /\ x.role = n.role
  <2>1. Typed(x)
    BY <1>1, <1>7, TypedOn
  <2> QED BY <1>7, <2>1 DEF NodeFields
<1>9. Beside(x, y)
  BY <1>6, <1>7, <1>8, RefreshBeside
<1> HIDE DEF y
<1>10. /\ DOMAIN z = NodeFields /\ z.dirty /\ z.logFrom = IF y.logFrom = None THEN index ELSE Min2(y.logFrom, index)
       /\ \A f \in NodeFields \ {"dirty", "logFrom"} : z[f] = y[f]
  BY <1>9 DEF Beside, Typed, NodeFields
<1> HIDE DEF z
<1>11. z.st = s /\ z.snapChanged = n.snapChanged /\ z.prevoting \in {n.prevoting, None} /\ z.role \in {n.role, "Follower"}
  <2>1. z.st = y.st /\ z.snapChanged = y.snapChanged /\ z.prevoting = y.prevoting /\ z.role = y.role
    BY <1>10 DEF NodeFields
  <2> QED BY <1>7, <1>8, <1>9, <2>1 DEF Beside
<1>12. Typed(z)
  BY <1>9, <1>10, TypedOn DEF Beside
<1>13. Held(d, z)
  <2>1. z.logFrom = IF n.logFrom = None THEN Base(n.st).index + k + 1 ELSE Min2(n.logFrom, Base(n.st).index + k + 1)
    BY <1>0, <1>2, <1>8, <1>9, <1>10 DEF Beside
  <2>2. k \in 0..Len(n.st.entries) /\ n.st.commit <= Base(n.st).index + k /\ k + Len(B) <= n.st.cap
        /\ Follows1(n.st, k, B) /\ z.st = Suffixed(n.st, k, B)
    BY <1>0, <1>2, <1>5, <1>11 DEF s
  <2> QED BY <1>1, <1>4, <1>10, <1>11, <2>1, <2>2, SuffixHeld
<1>14. Holds(s, entry.id)
  <2>1. s.entries # <<>> /\ Len(s.entries) = k + 1
    BY <1>2, <1>3, <1>6
  <2>2. LastId(s) = entry.id
    BY <1>6, <2>1 DEF LastId
  <2>3. IdAt(s, Base(s).index + Len(s.entries)) = LastId(s) /\ LastId(s).index = Base(s).index + Len(s.entries)
    BY <1>6, Measures
  <2> QED BY <2>2, <2>3 DEF Holds
<1>15. Overwrite(n, entry) = z
  BY DEF Overwrite, z, y, x, index
<1>16. LastId(s).index = entry.id.index
  BY <1>2, <1>6 DEF index
<1> QED BY <1>0, <1>6, <1>11, <1>12, <1>13, <1>14, <1>15, <1>16 DEF OK, s, k, B

(* commit_to changes nothing of the checkpoint but the commit index.       *)
LEMMA CommitTerm ==
  ASSUME NEW d, NEW n, OK(d, n), NEW index \in Nat, index <= LastId(n.st).index
  PROVE  LET r == CommitTo(n, index) IN
         /\ r.st = IF index > n.st.commit THEN [n.st EXCEPT !.commit = index] ELSE n.st
         /\ r.st.term = n.st.term /\ r.logFrom = n.logFrom /\ r.snapChanged = n.snapChanged
         /\ index <= n.st.commit => r = n
<1>0. CP(n.st) /\ n.st.commit \in Nat /\ n.st \in Checkpoints /\ LastId(n.st).index <= U64Max /\ LastId(n.st).index \in Nat
  BY Measures DEF OK, Held
<1>1. CASE index > n.st.commit
  <2> DEFINE x == [n EXCEPT !.st.commit = index, !.dirty = TRUE]
  <2>1. /\ DOMAIN x = NodeFields /\ x.st = [n.st EXCEPT !.commit = index] /\ x.dirty
        /\ \A f \in NodeFields \ {"st", "dirty"} : x[f] = n[f]
    BY DEF OK, Typed, NodeFields
  <2> HIDE DEF x
  <2>2. Typed(x) /\ x.logFrom = n.logFrom /\ x.snapChanged = n.snapChanged
    <3>1. Typed(x)
      BY <2>1, TypedOn DEF OK
    <3> QED BY <2>1, <3>1 DEF NodeFields
  <2>3. CP(x.st)
    <3>1. PICK st, s : st = n.st /\ s = x.st
      OBVIOUS
    <3>2. index \in 0..U64Max
      BY <1>0, U64Assumption
    <3>3. /\ s \in Checkpoints /\ s.term = st.term /\ s.vote = st.vote /\ s.commit = index
          /\ s.cap = st.cap /\ s.snapshot = st.snapshot /\ s.entries = st.entries
      BY <1>0, <2>1, <3>1, <3>2 DEF Checkpoints
    <3>4. CP(st) /\ st.term \in 0..U64Max /\ st.vote \in Id \cup {None} /\ (st.term = 0 => st.vote = None) /\ st.cap \in Nat
          /\ st.commit <= index /\ index <= LastId(st).index /\ st.term <= st.term /\ st.cap <= st.cap
      <4>1. CP(st)
        BY <1>0, <3>1
      <4>2. /\ st.term \in Nat /\ st.term <= U64Max /\ st.vote \in Id \cup {None} /\ (st.term = 0 => st.vote = None) /\ st.cap \in Nat
        BY <4>1, Measures
      <4> QED BY <1>0, <1>1, <3>1, <4>1, <4>2, U64Assumption
    <3>5. PICK t, v, c : t = st.term /\ v = st.vote /\ c = st.cap
      OBVIOUS
    <3> QED BY <3>1, <3>3, <3>4, <3>5, HardChanged
  <2>4. Beside(x, RefreshMembership(x))
    BY <2>2, <2>3, RefreshBeside
  <2>5. CommitTo(n, index) = RefreshMembership(x)
    BY <1>1 DEF CommitTo, x
  <2>6. [n.st EXCEPT !.commit = index].term = n.st.term
    BY <1>0 DEF Checkpoints
  <2>7. ~(index <= n.st.commit)
    BY <1>0, <1>1
  <2> QED BY <1>1, <2>1, <2>2, <2>4, <2>5, <2>6, <2>7 DEF Beside
<1>2. CASE ~(index > n.st.commit)
  BY <1>2 DEF CommitTo
<1> QED BY <1>1, <1>2

(* An identity that is held is one of the log.                             *)
LEMMA HoldsBelow ==
  ASSUME NEW st, CP(st), NEW id \in LogIds, Holds(st, id)
  PROVE  id.index \in Nat /\ Base(st).index <= id.index /\ id.index <= LastId(st).index
<1>1. PICK i : i = id.index
  OBVIOUS
<1>2. i \in Nat /\ IdAt(st, i) # None
  BY <1>1, NothingAssumption, U64Assumption DEF Holds, LogIds
<1>3. i \in Base(st).index..Base(st).index + Len(st.entries)
  BY <1>2, Retained
<1>4. LastId(st).index = Base(st).index + Len(st.entries) /\ Base(st).index \in Nat /\ Len(st.entries) \in Nat
  BY Measures
<1> QED BY <1>1, <1>2, <1>3, <1>4

(* What a reply carries.                                                   *)
RejectionOK(r) == r \notin {None, Full} => r.next \in Nat

(* append                                                                  *)
LEMMA AppendOK ==
  ASSUME NEW d, CP(d), NEW n, OK(d, n), NEW previous \in LogIds, NEW entry \in Entries \cup {None},
         entry # None => Continues(n.st, previous, entry), NEW commit \in Nat
  PROVE  LET r == AppendOne(n, previous, entry, commit) IN
         /\ DOMAIN r = {"n", "index", "rejection", "agreed"}
         /\ OK(d, r.n) /\ r.n.st.term = n.st.term /\ r.index \in Nat /\ RejectionOK(r.rejection)
<1> DEFINE p == Place(n, previous, entry)
<1>1. CP(n.st) /\ previous.index \in Nat /\ previous # None
  BY NothingAssumption, U64Assumption DEF OK, Held, LogIds
<1>2. /\ Base(n.st).index \in Nat /\ LastId(n.st).index \in Nat /\ Len(n.st.entries) \in Nat /\ n.st.commit \in Nat
      /\ LastId(n.st).index <= U64Max
  BY <1>1, Measures
<1>3. /\ DOMAIN p = {"n", "index", "rejection", "agreed"}
      /\ OK(d, p.n) /\ p.n.st.term = n.st.term /\ p.index \in Nat /\ RejectionOK(p.rejection)
      /\ p.agreed \in Nat /\ p.agreed <= LastId(p.n.st).index
  <2>1. CASE ~Holds(n.st, previous)
    <3>1. RetryHint(n.st, previous) \in Nat
      BY <1>1, <1>2, U64Assumption DEF RetryHint, SaturatingSucc, Min2, Max2
    <3>2. p = [n |-> n, index |-> previous.index, rejection |-> Conflict(RetryHint(n.st, previous)), agreed |-> 0]
      BY <2>1 DEF Place, Refuse
    <3> QED BY <1>1, <1>2, <3>1, <3>2 DEF RejectionOK, Conflict
  <2>2. CASE Holds(n.st, previous) /\ entry = None
    <3>1. p = [n |-> n, index |-> previous.index, rejection |-> None, agreed |-> previous.index]
      BY <2>2 DEF Place, Accept
    <3>2. previous.index <= LastId(n.st).index
      BY <1>1, <2>2, HoldsBelow
    <3> QED BY <1>1, <3>1, <3>2 DEF RejectionOK
  <2>3. CASE Holds(n.st, previous) /\ entry # None
    <3> DEFINE index == entry.id.index
    <3>1. p = PlaceEntry(n, previous, entry)
      BY <2>3 DEF Place
    <3>2. Continues(n.st, previous, entry) /\ entry.id \in LogIds /\ index \in Nat
      BY <2>3, U64Assumption DEF Entries, LogIds
    <3>3. CASE Holds(n.st, entry.id)
      <4>1. p = [n |-> n, index |-> index, rejection |-> None, agreed |-> index]
        BY <3>1, <3>3 DEF PlaceEntry, Accept
      <4>2. index <= LastId(n.st).index
        BY <1>1, <3>2, <3>3, HoldsBelow
      <4> HIDE DEF index
      <4> QED BY <3>2, <4>1, <4>2 DEF RejectionOK
    <3>4. CASE ~Holds(n.st, entry.id) /\ index <= n.st.commit
      <4>1. p = [n |-> n, index |-> previous.index, rejection |-> Conflict(index), agreed |-> 0]
        BY <1>2, <3>1, <3>2, <3>4 DEF PlaceEntry, Refuse
      <4> HIDE DEF index
      <4> QED BY <1>1, <1>2, <3>2, <4>1 DEF RejectionOK, Conflict
    <3>5. CASE ~Holds(n.st, entry.id) /\ index > n.st.commit /\ IsFull(n.st) /\ index > LastId(n.st).index
      <4>1. p = [n |-> n, index |-> previous.index, rejection |-> Full, agreed |-> previous.index]
        BY <1>2, <3>1, <3>2, <3>5 DEF PlaceEntry, Refuse
      <4>2. previous.index <= LastId(n.st).index
        BY <1>1, <2>3, HoldsBelow
      <4> QED BY <1>1, <4>1, <4>2 DEF RejectionOK
    <3>6. CASE ~Holds(n.st, entry.id) /\ index > n.st.commit /\ ~(IsFull(n.st) /\ index > LastId(n.st).index)
      <4>1. p = [n |-> Overwrite(n, entry), index |-> index, rejection |-> None, agreed |-> index]
        BY <1>2, <3>1, <3>2, <3>6 DEF PlaceEntry, Accept
      <4>2. /\ OK(d, Overwrite(n, entry)) /\ Overwrite(n, entry).st.term = n.st.term
            /\ LastId(Overwrite(n, entry).st).index = entry.id.index
        BY <2>3, <3>2, <3>6, OverwriteOK
      <4>3. index <= index
        BY <3>2
      <4> QED BY <3>2, <4>1, <4>2, <4>3 DEF RejectionOK
    <3>7. index <= n.st.commit \/ index > n.st.commit
      BY <1>2, <3>2
    <3> QED BY <3>3, <3>4, <3>5, <3>6, <3>7
  <2> QED BY <2>1, <2>2, <2>3
<1> HIDE DEF p
<1> DEFINE c == Min2(commit, p.agreed)
           r == AppendOne(n, previous, entry, commit)
<1>4. c \in Nat /\ c <= LastId(p.n.st).index
  <2>1. LastId(p.n.st).index \in Nat
    BY <1>3, Measures DEF OK, Held
  <2> QED BY <1>3, <2>1 DEF Min2
<1>5. DOMAIN r = {"n", "index", "rejection", "agreed"} /\ r.n = CommitTo(p.n, c) /\ r.index = p.index /\ r.rejection = p.rejection
  BY <1>3 DEF AppendOne, CommitAgreed, p
<1> HIDE DEF c, r
<1>6. OK(d, CommitTo(p.n, c)) /\ CommitTo(p.n, c).st.term = p.n.st.term
  <2>1. OK(d, CommitTo(p.n, c))
    BY <1>3, <1>4, CommitOK
  <2>2. CommitTo(p.n, c).st.term = p.n.st.term
    BY <1>3, <1>4, CommitTerm
  <2> QED BY <2>1, <2>2
<1> QED BY <1>3, <1>5, <1>6 DEF r

(* What the AppendBatch loop has after k entries.                          *)
BatchFields == {"n", "index", "rejection", "previous", "accepted", "stopped"}
BatchOK(d, n, previous, entries, k, acc) ==
  /\ DOMAIN acc = BatchFields
  /\ OK(d, acc.n) /\ acc.n.st.term = n.st.term
  /\ acc.index \in Nat /\ RejectionOK(acc.rejection)
  /\ ~acc.stopped => acc.previous = IF k = 0 THEN previous ELSE entries[k].id

(* One entry of a batch.                                                   *)
LEMMA BatchStep ==
  ASSUME NEW d, CP(d), NEW n, OK(d, n), NEW previous \in LogIds, NEW entries \in Seq(Entries), NEW commit \in Nat,
         Chained(previous, entries, n.st.term), NEW k \in 1..Len(entries), NEW acc,
         BatchOK(d, n, previous, entries, k - 1, acc), ~acc.stopped
  PROVE  BatchOK(d, n, previous, entries, k,
                 Extend(acc, entries[k], AppendOne(acc.n, acc.previous, entries[k], commit)))
<1>0. PICK e, p, m, r : e = entries[k] /\ p = acc.previous /\ m = acc.n /\ r = AppendOne(m, p, e, commit)
  OBVIOUS
<1>1. DOMAIN acc = BatchFields /\ OK(d, m) /\ m.st.term = n.st.term /\ acc.index \in Nat /\ RejectionOK(acc.rejection)
  BY <1>0 DEF BatchOK
<1>2. Len(entries) \in Nat /\ k \in Nat /\ e \in Entries /\ (k # 1 => k - 1 \in 1..Len(entries) /\ k - 1 # 0) /\ (k = 1 => k - 1 = 0)
  BY <1>0
<1>3. p = IF k = 1 THEN previous ELSE entries[k - 1].id
  BY <1>0, <1>2 DEF BatchOK
<1>4. p \in LogIds
  <2>1. CASE k = 1
    BY <1>3, <2>1
  <2>2. CASE k # 1
    <3>1. entries[k - 1] \in Entries
      BY <1>2, <2>2
    <3>2. entries[k - 1].id \in LogIds
      BY <3>1 DEF Entries
    <3> QED BY <1>3, <2>2, <3>2
  <2> QED BY <2>1, <2>2
<1>5. ValidId(e.id, n.st.term) /\ e.id.index = p.index + 1 /\ e.id.term >= p.term
  <2>1. k \in DOMAIN entries
    BY <1>2
  <2>2. ValidId(entries[k].id, n.st.term)
        /\ entries[k].id.index = (IF k = 1 THEN previous ELSE entries[k - 1].id).index + 1
        /\ entries[k].id.term >= (IF k = 1 THEN previous ELSE entries[k - 1].id).term
    BY <2>1 DEF Chained
  <2> QED BY <1>0, <1>3, <2>2
<1>6. Continues(m.st, p, e)
  <2>1. e.id.index # 0
    BY <1>4, <1>5, U64Assumption DEF LogIds
  <2>2. e.id.term \in 1..n.st.term /\ n.st.term \in Nat
    <3>1. n.st.term \in Nat
      BY Measures DEF OK, Held
    <3> QED BY <1>5, <2>1, <3>1 DEF ValidId, Genesis
  <2> QED BY <1>1, <1>2, <1>4, <1>5, <2>2 DEF Continues
<1>7. /\ DOMAIN r = {"n", "index", "rejection", "agreed"}
      /\ OK(d, r.n) /\ r.n.st.term = m.st.term /\ r.index \in Nat /\ RejectionOK(r.rejection)
  <2>1. e \in Entries \cup {None} /\ (e # None => Continues(m.st, p, e))
    BY <1>2, <1>6
  <2>2. LET a == AppendOne(m, p, e, commit) IN
        /\ DOMAIN a = {"n", "index", "rejection", "agreed"}
        /\ OK(d, a.n) /\ a.n.st.term = m.st.term /\ a.index \in Nat /\ RejectionOK(a.rejection)
    BY <1>1, <1>4, <2>1, AppendOK
  <2> QED BY <1>0, <2>2
<1>8. k # 0
  BY <1>2
<1> DEFINE x == Extend(acc, e, r)
<1>9. CASE r.rejection = None
  <2>1. x = [n |-> r.n, index |-> r.index, rejection |-> None,
             previous |-> e.id, accepted |-> TRUE, stopped |-> FALSE]
    BY <1>9 DEF Extend
  <2>2. BatchOK(d, n, previous, entries, k, x)
    BY <1>0, <1>1, <1>7, <1>8, <2>1 DEF BatchOK, BatchFields, RejectionOK
  <2> QED BY <1>0, <2>2
<1>10. CASE r.rejection # None /\ acc.accepted
  <2>1. x = [acc EXCEPT !.n = r.n, !.stopped = TRUE]
    BY <1>10 DEF Extend
  <2>2. DOMAIN x = BatchFields /\ x.n = r.n /\ x.stopped /\ x.index = acc.index /\ x.rejection = acc.rejection
    BY <1>1, <2>1 DEF BatchFields
  <2>3. BatchOK(d, n, previous, entries, k, x)
    BY <1>1, <1>7, <2>2 DEF BatchOK
  <2> QED BY <1>0, <2>3
<1>11. CASE r.rejection # None /\ ~acc.accepted
  <2>1. x = [acc EXCEPT !.n = r.n, !.stopped = TRUE, !.index = r.index, !.rejection = r.rejection]
    BY <1>11 DEF Extend
  <2>2. DOMAIN x = BatchFields /\ x.n = r.n /\ x.stopped /\ x.index = r.index /\ x.rejection = r.rejection
    BY <1>1, <2>1 DEF BatchFields
  <2>3. BatchOK(d, n, previous, entries, k, x)
    BY <1>1, <1>7, <2>2 DEF BatchOK
  <2> QED BY <1>0, <2>3
<1> QED BY <1>9, <1>10, <1>11

(* One round of the loop, and its runs.                                    *)
Round(acc, entry, commit) ==
  IF acc.stopped THEN acc ELSE Extend(acc, entry, AppendOne(acc.n, acc.previous, entry, commit))
BatchRounds(f, n, previous, entries, commit, k) ==
  f = [j \in 0..k |->
         IF j = 0 THEN [n |-> n, index |-> previous.index, rejection |-> None,
                        previous |-> previous, accepted |-> FALSE, stopped |-> FALSE]
         ELSE Round(f[j - 1], entries[j], commit)]

(* The loop runs through.                                                  *)
LEMMA RoundsExist ==
  ASSUME NEW n, NEW previous, NEW entries, NEW commit, NEW L \in Nat
  PROVE  \E f : BatchRounds(f, n, previous, entries, commit, L)
<1>0. PICK first : first = [n |-> n, index |-> previous.index, rejection |-> None,
                        previous |-> previous, accepted |-> FALSE, stopped |-> FALSE]
  OBVIOUS
<1> DEFINE Is(f, k) == f = [j \in 0..k |-> IF j = 0 THEN first ELSE Round(f[j - 1], entries[j], commit)]
           Some(k) == \E f : Is(f, k)
           E == {k \in 0..L : Some(k)}
<1>1. 0 \in E
  <2> DEFINE g == [s \in 0..0 |-> first]
  <2>1. Is(g, 0)
    OBVIOUS
  <2>2. Some(0)
    <3> HIDE DEF g
    <3> QED BY <2>1
  <2> HIDE DEF Some
  <2> QED BY <2>2
<1>2. ASSUME NEW k \in 1..L, k - 1 \in E PROVE k \in E
  <2>1. PICK f : Is(f, k - 1)
    BY <1>2
  <2>2. DOMAIN f = 0..(k - 1) /\ f[0] = first /\ \A s \in 1..(k - 1) : f[s] = Round(f[s - 1], entries[s], commit)
    BY <2>1
  <2> DEFINE g == [s \in 0..k |-> IF s = k THEN Round(f[k - 1], entries[k], commit) ELSE f[s]]
  <2>3. \A s \in 0..k : g[s] = IF s = 0 THEN first ELSE Round(g[s - 1], entries[s], commit)
    <3> SUFFICES ASSUME NEW s \in 0..k PROVE g[s] = IF s = 0 THEN first ELSE Round(g[s - 1], entries[s], commit)
      OBVIOUS
    <3>1. CASE s = 0
      BY <2>2, <3>1
    <3>2. CASE s = k
      <4>1. s # 0 /\ k - 1 \in 0..k /\ k - 1 # k /\ g[k - 1] = f[k - 1]
        BY <3>2
      <4> QED BY <3>2, <4>1
    <3>3. CASE s # 0 /\ s # k
      <4>1. s \in 1..(k - 1) /\ s - 1 \in 0..k /\ s - 1 # k
        BY <3>3
      <4> QED BY <2>2, <3>3, <4>1
    <3> QED BY <3>1, <3>2, <3>3
  <2>4. Is(g, k)
    BY <2>3
  <2>5. Some(k)
    <3> HIDE DEF g
    <3> QED BY <2>4
  <2> HIDE DEF Some
  <2> QED BY <2>5
<1> HIDE DEF E
<1>3. 0..L \subseteq E
  BY <1>1, <1>2, Upward
<1>4. Some(L)
  <2> HIDE DEF Some
  <2> QED BY <1>3 DEF E
<1>5. PICK f : Is(f, L)
  BY <1>4
<1>6. BatchRounds(f, n, previous, entries, commit, L)
  BY <1>0, <1>5 DEF BatchRounds
<1> QED BY <1>6

(* The AppendBatch loop.                                                   *)
LEMMA AppendAllOK ==
  ASSUME NEW d, CP(d), NEW n, OK(d, n), NEW previous \in LogIds, NEW entries \in Seq(Entries), NEW commit \in Nat,
         Chained(previous, entries, n.st.term)
  PROVE  LET r == AppendAll(n, previous, entries, commit) IN
         OK(d, r.n) /\ r.n.st.term = n.st.term /\ r.index \in Nat /\ RejectionOK(r.rejection)
<1> DEFINE L == Len(entries)
           Is(f) == BatchRounds(f, n, previous, entries, commit, L)
           h == CHOOSE f : Is(f)
<1>1. L \in Nat
  OBVIOUS
<1>2. Is(h)
  <2>1. \E f : Is(f)
    BY <1>1, RoundsExist
  <2> HIDE DEF Is
  <2> QED BY <2>1
<1>3. AppendAll(n, previous, entries, commit) = h[L]
  BY DEF AppendAll, BatchRounds, Round
<1> HIDE DEF h
<1>4. h[0] = [n |-> n, index |-> previous.index, rejection |-> None,
              previous |-> previous, accepted |-> FALSE, stopped |-> FALSE]
      /\ \A j \in 1..L : h[j] = Round(h[j - 1], entries[j], commit)
  <2>1. h = [j \in 0..L |->
         IF j = 0 THEN [n |-> n, index |-> previous.index, rejection |-> None,
                        previous |-> previous, accepted |-> FALSE, stopped |-> FALSE]
         ELSE Round(h[j - 1], entries[j], commit)]
    BY <1>2 DEF BatchRounds
  <2>2. 0 \in 0..L /\ \A j \in 1..L : j \in 0..L /\ j # 0
    BY <1>1
  <2> HIDE DEF Is, L
  <2> QED BY <2>1, <2>2
<1> HIDE DEF Is
<1> DEFINE T == {k \in 0..L : BatchOK(d, n, previous, entries, k, h[k])}
<1>5. 0 \in T
  <2>1. previous.index \in Nat
    BY U64Assumption DEF LogIds
  <2>2. BatchOK(d, n, previous, entries, 0, h[0])
    BY <1>4, <2>1 DEF BatchOK, BatchFields, RejectionOK
  <2> QED BY <1>1, <2>2
<1>6. ASSUME NEW k \in 1..L, k - 1 \in T PROVE k \in T
  <2>1. PICK acc : acc = h[k - 1]
    OBVIOUS
  <2>2. BatchOK(d, n, previous, entries, k - 1, acc) /\ h[k] = Round(acc, entries[k], commit) /\ k \in 0..L
    BY <1>1, <1>4, <1>6, <2>1
  <2>3. CASE acc.stopped
    <3>1. BatchOK(d, n, previous, entries, k, acc)
      BY <2>2, <2>3 DEF BatchOK
    <3> QED BY <2>2, <2>3, <3>1 DEF Round
  <2>4. CASE ~acc.stopped
    <3>1. BatchOK(d, n, previous, entries, k, Extend(acc, entries[k], AppendOne(acc.n, acc.previous, entries[k], commit)))
      BY <2>2, <2>4, BatchStep
    <3> QED BY <2>2, <2>4, <3>1 DEF Round
  <2> QED BY <2>3, <2>4
<1> HIDE DEF T
<1>7. 0..L \subseteq T
  BY <1>1, <1>5, <1>6, Upward
<1>8. BatchOK(d, n, previous, entries, L, h[L])
  BY <1>1, <1>7 DEF T
<1> QED BY <1>3, <1>8 DEF BatchOK

-----------------------------------------------------------------------------
(* Snapshots.                                                              *)

(* A snapshot that may replace the head of a log.                          *)
Fits(st, sn) ==
  /\ sn \in Snapshots /\ sn.last.index > Base(st).index
  /\ sn.last.term # 0 /\ sn.last.term <= st.term
  /\ sn.last.index > st.commit \/ Holds(st, sn.last)

(* A snapshot taken in is unsaved, and so is the loss of a suffix.         *)
LEMMA InstallHeld ==
  ASSUME NEW d, CP(d), NEW n, Held(d, n), NEW sn, Fits(n.st, sn),
         NEW r, r.st = Install(n.st, sn), r.dirty, r.snapChanged = TRUE, r.logFrom = InstallFrom(n, sn.last),
         r.prevoting \in {n.prevoting, None}, r.role \in {n.role, "Follower"}
  PROVE  Held(d, r) /\ r.st.term = n.st.term
<1>0. PICK st, s : st = n.st /\ s = Install(st, sn)
  OBVIOUS
<1> DEFINE k == sn.last.index
<1>1. CP(st) /\ Pends(d, n) /\ Fits(st, sn) /\ r.st = s
  BY <1>0 DEF Held
<1>2. /\ CP(s) /\ s.term = st.term /\ s.cap = st.cap /\ s.snapshot = sn /\ Base(s) = sn.last
      /\ s.commit = Max2(st.commit, k)
      /\ Holds(st, sn.last) => \A x \in Nat : x > k => Get(s, x) = Get(st, x)
      /\ ~Holds(st, sn.last) => \A x \in Nat : Get(s, x) = None
  BY <1>0, <1>1, Installed DEF Fits
<1>3. k \in Nat /\ k <= U64Max /\ k > Base(st).index /\ Base(st).index \in Nat /\ Base(d).index \in Nat /\ sn # None /\ sn \in Snapshots
  BY <1>1, Measures, U64Assumption, NothingAssumption DEF Fits, Snapshots, LogIds
<1>4. Base(d).index <= Base(st).index /\ st.cap = d.cap /\ n.logFrom \in 1..U64Max \cup {None}
  BY <1>0, <1>1 DEF Pends
<1>5. r.logFrom \in 1..U64Max \cup {None}
      /\ \A x \in Nat : x > k /\ (r.logFrom # None => x < r.logFrom) => Get(s, x) = Get(d, x)
  <2>1. CASE Holds(st, sn.last)
    <3>1. r.logFrom = n.logFrom
      BY <1>0, <2>1 DEF InstallFrom
    <3>2. ASSUME NEW x \in Nat, x > k, r.logFrom # None => x < r.logFrom PROVE Get(s, x) = Get(d, x)
      <4>1. x > Base(st).index
        BY <1>3, <3>2
      <4>2. Get(st, x) = Get(d, x)
        BY <1>0, <1>1, <3>1, <3>2, <4>1 DEF Pends
      <4> QED BY <1>2, <2>1, <3>2, <4>2
    <3> QED BY <1>4, <3>1, <3>2
  <2>2. CASE ~Holds(st, sn.last) /\ k < U64Max
    <3>1. r.logFrom = k + 1
      BY <1>0, <2>2 DEF InstallFrom
    <3>2. k + 1 # None /\ k + 1 \in 1..U64Max
      BY <1>3, <2>2, NothingAssumption, U64Assumption
    <3>3. ASSUME NEW x \in Nat, x > k, r.logFrom # None => x < r.logFrom PROVE FALSE
      BY <1>3, <3>1, <3>2, <3>3
    <3> QED BY <3>1, <3>2, <3>3
  <2>3. CASE ~Holds(st, sn.last) /\ ~(k < U64Max)
    <3>1. r.logFrom = None
      BY <1>0, <2>3 DEF InstallFrom
    <3>2. ASSUME NEW x \in Nat, x > k PROVE Get(s, x) = Get(d, x)
      <4>1. Len(d.entries) \in Nat /\ Base(d).index + Len(d.entries) <= U64Max
        BY Measures
      <4>2. x \notin Base(d).index + 1..Base(d).index + Len(d.entries)
        BY <1>3, <2>3, <3>2, <4>1, U64Assumption
      <4>3. Get(d, x) = None
        BY <4>2, Retained
      <4> QED BY <1>2, <2>3, <4>3
    <3> QED BY <3>1, <3>2
  <2> QED BY <2>1, <2>2, <2>3
<1>6. Pends(d, r)
  <2>1. Base(d).index <= Base(s).index
    BY <1>2, <1>3, <1>4
  <2>2. d.commit \in Nat /\ d.commit <= s.commit
    <3>1. d.commit \in Nat /\ d.commit <= st.commit /\ st.commit \in Nat
      BY <1>0, <1>1, Measures DEF Pends
    <3> QED BY <1>2, <1>3, <3>1 DEF Max2
  <2> QED BY <1>1, <1>2, <1>3, <1>4, <1>5, <2>1, <2>2 DEF Pends
<1> QED BY <1>0, <1>1, <1>2, <1>6 DEF Held

(* The snapshot of an Install message taken in.                            *)
LEMMA TakeSnapshotOK ==
  ASSUME NEW d, CP(d), NEW n, OK(d, n), NEW sn, Fits(n.st, sn)
  PROVE  LET r == TakeSnapshot(n, sn) IN OK(d, r) /\ r.st = Install(n.st, sn) /\ r.st.term = n.st.term
<1> DEFINE x == [n EXCEPT !.st = Install(@, sn), !.logFrom = InstallFrom(n, sn.last)]
           y == RefreshMembership(x)
           z == [y EXCEPT !.snapChanged = TRUE, !.dirty = TRUE]
<1>1. /\ DOMAIN x = NodeFields /\ x.st = Install(n.st, sn) /\ x.logFrom = InstallFrom(n, sn.last)
      /\ \A f \in NodeFields \ {"st", "logFrom"} : x[f] = n[f]
  BY DEF OK, Typed, NodeFields
<1> HIDE DEF x
<1>2. Typed(x) /\ x.prevoting = n.prevoting /\ x.role = n.role
  <2>1. Typed(x)
    BY <1>1, TypedOn DEF OK
  <2> QED BY <1>1, <2>1 DEF NodeFields
<1>3. CP(x.st)
  <2>1. CP(n.st)
    BY DEF OK, Held
  <2> QED BY <1>1, <2>1, Installed DEF Fits
<1>4. Beside(x, y)
  BY <1>2, <1>3, RefreshBeside
<1> HIDE DEF y
<1>5. /\ DOMAIN z = NodeFields /\ z.dirty /\ z.snapChanged = TRUE
      /\ \A f \in NodeFields \ {"snapChanged", "dirty"} : z[f] = y[f]
  BY <1>4 DEF Beside, Typed, NodeFields
<1> HIDE DEF z
<1>6. z.st = y.st /\ z.logFrom = y.logFrom /\ z.prevoting = y.prevoting /\ z.role = y.role
  BY <1>5 DEF NodeFields
<1>7. Typed(z)
  BY <1>4, <1>5, TypedOn DEF Beside
<1>8. /\ z.st = Install(n.st, sn) /\ z.logFrom = InstallFrom(n, sn.last)
      /\ z.prevoting \in {n.prevoting, None} /\ z.role \in {n.role, "Follower"}
  BY <1>1, <1>2, <1>4, <1>6 DEF Beside
<1>9. Held(d, z) /\ z.st.term = n.st.term
  <2>1. Held(d, n)
    BY DEF OK
  <2>2. z.dirty /\ z.snapChanged = TRUE
    BY <1>5
  <2> QED BY <1>8, <2>1, <2>2, InstallHeld
<1>10. TakeSnapshot(n, sn) = z
  BY DEF TakeSnapshot, z, y, x
<1> QED BY <1>7, <1>8, <1>9, <1>10 DEF OK

(* Install                                                                 *)
LEMMA InstallSnapshotOK ==
  ASSUME NEW d, CP(d), NEW n, OK(d, n), NEW sn \in Snapshots, sn.last.term # 0, sn.last.term <= n.st.term
  PROVE  LET r == InstallSnapshot(n, sn) IN
         OK(d, r.n) /\ r.n.st.term = n.st.term /\ r.index \in Nat /\ RejectionOK(r.rejection)
<1> DEFINE last == sn.last
           r == InstallSnapshot(n, sn)
<1>1. CP(n.st) /\ last.index \in Nat /\ Base(n.st).index \in Nat /\ SaturatingSucc(Base(n.st).index) \in Nat
  <2>1. CP(n.st) /\ last.index \in Nat /\ Base(n.st).index \in Nat
    BY Measures, U64Assumption DEF OK, Held, Snapshots, LogIds
  <2> QED BY <2>1, U64Assumption DEF SaturatingSucc, Min2
<1>2. CASE last.index <= n.st.commit /\ IdAt(n.st, last.index) \notin {None, last}
  <2>1. r = [n |-> n, index |-> last.index, rejection |-> Conflict(SaturatingSucc(Base(n.st).index))]
    <3>1. n.st.commit \in Nat
      BY <1>1, Measures
    <3>2. ~(last.index > n.st.commit \/ Holds(n.st, last))
      BY <1>1, <1>2, <3>1 DEF Holds
    <3> QED BY <1>2, <3>2 DEF InstallSnapshot
  <2> HIDE DEF r
  <2>2. r.n = n /\ r.index \in Nat /\ RejectionOK(r.rejection)
    BY <1>1, <2>1 DEF RejectionOK, Conflict
  <2> QED BY <2>2 DEF r
<1>3. CASE /\ ~(last.index <= n.st.commit /\ IdAt(n.st, last.index) \notin {None, last})
           /\ last.index > Base(n.st).index /\ (last.index > n.st.commit \/ Holds(n.st, last))
  <2>1. r = [n |-> TakeSnapshot(n, sn), index |-> last.index, rejection |-> None]
    BY <1>3 DEF InstallSnapshot
  <2>2. Fits(n.st, sn)
    BY <1>3 DEF Fits
  <2>3. OK(d, TakeSnapshot(n, sn)) /\ TakeSnapshot(n, sn).st.term = n.st.term
    BY <2>2, TakeSnapshotOK
  <2> HIDE DEF r
  <2>4. r.n = TakeSnapshot(n, sn) /\ r.index \in Nat /\ RejectionOK(r.rejection)
    BY <1>1, <2>1 DEF RejectionOK
  <2> QED BY <2>3, <2>4 DEF r
<1>4. CASE /\ ~(last.index <= n.st.commit /\ IdAt(n.st, last.index) \notin {None, last})
           /\ ~(last.index > Base(n.st).index /\ (last.index > n.st.commit \/ Holds(n.st, last)))
  <2>1. r = [n |-> n, index |-> last.index, rejection |-> None]
    BY <1>4 DEF InstallSnapshot
  <2> HIDE DEF r
  <2>2. r.n = n /\ r.index \in Nat /\ RejectionOK(r.rejection)
    BY <1>1, <2>1 DEF RejectionOK
  <2> QED BY <2>2 DEF r
<1> QED BY <1>2, <1>3, <1>4

-----------------------------------------------------------------------------
(* Replies and votes.                                                      *)

(* A leader's positions and queue.                                         *)
LEMMA ProgressBeside ==
  ASSUME NEW n, Typed(n), NEW s \in Slot, NEW v \in 1..U64Max, NEW m \in 0..U64Max, NEW out, OutOK(out)
  PROVE  /\ Beside(n, [n EXCEPT !.matched[s] = m, !.next[s] = v])
         /\ Beside(n, [n EXCEPT !.next[s] = v])
         /\ Beside(n, [n EXCEPT !.outbox[s] = out])
         /\ Beside(n, [n EXCEPT !.active = @ \cup {s}])
<1>0. \A S : \A f \in [Slot -> S] : \A w \in S : [f EXCEPT ![s] = w] \in [Slot -> S]
  OBVIOUS
<1>1. Beside(n, [n EXCEPT !.matched[s] = m, !.next[s] = v])
  <2> DEFINE x == [n EXCEPT !.matched[s] = m, !.next[s] = v]
  <2>1. /\ DOMAIN x = NodeFields /\ x.matched = [n.matched EXCEPT ![s] = m] /\ x.next = [n.next EXCEPT ![s] = v]
        /\ \A f \in NodeFields \ {"matched", "next"} : x[f] = n[f]
    BY DEF Typed, NodeFields
  <2> HIDE DEF x
  <2>2. x.outbox = n.outbox /\ x.extra = n.extra
    BY <2>1 DEF NodeFields
  <2>3. x.matched \in [Slot -> 0..U64Max] /\ x.next \in [Slot -> 1..U64Max]
    BY <1>0, <2>1 DEF Typed
  <2>4. Beside(n, x)
    BY <2>1, <2>2, <2>3, FieldBeside DEF Typed
  <2> QED BY <2>4 DEF x
<1>2. Beside(n, [n EXCEPT !.next[s] = v])
  <2> DEFINE x == [n EXCEPT !.next[s] = v]
  <2>1. /\ DOMAIN x = NodeFields /\ x.next = [n.next EXCEPT ![s] = v]
        /\ \A f \in NodeFields \ {"next"} : x[f] = n[f]
    BY DEF Typed, NodeFields
  <2> HIDE DEF x
  <2>2. x.outbox = n.outbox /\ x.extra = n.extra /\ x.matched = n.matched
    BY <2>1 DEF NodeFields
  <2>3. x.next \in [Slot -> 1..U64Max]
    BY <1>0, <2>1 DEF Typed
  <2>4. Beside(n, x)
    BY <2>1, <2>2, <2>3, FieldBeside DEF Typed
  <2> QED BY <2>4 DEF x
<1>3. Beside(n, [n EXCEPT !.outbox[s] = out])
  <2>1. s # 0
    BY DEF Slot
  <2> QED BY <2>1, SendBeside DEF Send
<1>4. Beside(n, [n EXCEPT !.active = @ \cup {s}])
  <2> DEFINE x == [n EXCEPT !.active = @ \cup {s}]
  <2>1. DOMAIN x = NodeFields /\ \A f \in NodeFields \ {"active"} : x[f] = n[f]
    BY DEF Typed, NodeFields
  <2> HIDE DEF x
  <2>2. x.outbox = n.outbox /\ x.extra = n.extra /\ x.matched = n.matched /\ x.next = n.next
    BY <2>1 DEF NodeFields
  <2>4. Beside(n, x)
    BY <2>1, <2>2, FieldBeside DEF Typed
  <2> QED BY <2>4 DEF x
<1> QED BY <1>1, <1>2, <1>3, <1>4

(* What follows a new acknowledgement.                                     *)
LEMMA ProgressedOK ==
  ASSUME NEW d, NEW n, OK(d, n), NEW s \in Slot, NEW index
  PROVE  OK(d, Progressed(n, s, index))
<1>1. OK(d, AdvanceCommit(n))
  BY AdvanceOK
<1>2. OK(d, Broadcast(AdvanceCommit(n)))
  BY <1>1, BroadcastBeside, BesideOK DEF OK
<1>3. OK(d, Resend(n, s))
  <2>1. 1 \in 1..U64Max /\ 0 \in 0..U64Max
    BY U64Assumption
  <2>2. Beside(n, [n EXCEPT !.outbox[s] = ReplicateOut])
    BY <2>1, ProgressBeside, PlainOut DEF OK
  <2> QED BY <2>2, BesideOK DEF Resend
<1> QED BY <1>2, <1>3 DEF Progressed

(* replicated                                                              *)
LEMMA ReplicatedOK ==
  ASSUME NEW d, NEW n, OK(d, n), NEW s \in Slot, NEW index \in Nat, NEW rejection, RejectionOK(rejection)
  PROVE  OK(d, Replicated(n, s, index, rejection))
<1> DEFINE a == [n EXCEPT !.active = @ \cup {s}]
<1>0. 1 \in 1..U64Max /\ 0 \in 0..U64Max
  BY U64Assumption
<1>1. OK(d, a)
  BY <1>0, ProgressBeside, PlainOut, BesideOK DEF OK
<1>2. Replicated(n, s, index, rejection) =
        CASE index > LastId(a.st).index \/ rejection = Full -> a
        [] index <= LastId(a.st).index /\ rejection = None ->
             IF index <= a.matched[s] THEN a
             ELSE Progressed([a EXCEPT !.matched[s] = index,
                                       !.next[s] = Max2(@, SaturatingSucc(index))], s, index)
        [] OTHER -> IF index >= a.matched[s] /\ index + 1 = a.next[s]
                    THEN Resend([a EXCEPT !.next[s] = Retry(a, s, rejection.next)], s) ELSE a
  BY DEF Replicated
<1> HIDE DEF a
<1>3. /\ LastId(a.st).index \in Nat /\ LastId(a.st).index <= U64Max
      /\ a.matched[s] \in 0..U64Max /\ a.next[s] \in 1..U64Max /\ U64Max \in Nat
  <2>1. LastId(a.st).index \in Nat /\ LastId(a.st).index <= U64Max
    BY <1>1, Measures DEF OK, Held
  <2> QED BY <1>1, <2>1, U64Assumption DEF OK, Typed
<1>4. CASE index > LastId(a.st).index \/ rejection = Full
  <2>1. ~(index <= LastId(a.st).index /\ rejection = None)
    BY <1>3, <1>4, NothingAssumption DEF Rejections
  <2> QED BY <1>1, <1>2, <1>4, <2>1
<1>5. CASE index <= LastId(a.st).index /\ rejection = None
  <2>1. ~(index > LastId(a.st).index \/ rejection = Full)
    BY <1>3, <1>5, NothingAssumption DEF Rejections
  <2>2. index \in 0..U64Max /\ Max2(a.next[s], SaturatingSucc(index)) \in 1..U64Max
    BY <1>3, <1>5 DEF Max2, SaturatingSucc, Min2
  <2> DEFINE b == [a EXCEPT !.matched[s] = index, !.next[s] = Max2(@, SaturatingSucc(index))]
  <2>3. b = [a EXCEPT !.matched[s] = index, !.next[s] = Max2(a.next[s], SaturatingSucc(index))]
    BY <1>1 DEF OK, Typed, NodeFields
  <2>4. OK(d, b)
    <3>1. PICK v : v = Max2(a.next[s], SaturatingSucc(index))
      OBVIOUS
    <3>2. v \in 1..U64Max
      BY <2>2, <3>1
    <3>3. Beside(a, [a EXCEPT !.matched[s] = index, !.next[s] = v])
      BY <1>1, <2>2, <3>2, ProgressBeside, PlainOut DEF OK
    <3> QED BY <1>1, <2>3, <3>1, <3>3, BesideOK
  <2> HIDE DEF b
  <2>5. OK(d, Progressed(b, s, index))
    BY <2>4, ProgressedOK
  <2> QED BY <1>1, <1>2, <1>5, <2>1, <2>5 DEF b
<1>6. CASE index <= LastId(a.st).index /\ rejection \notin {None, Full}
  <2>1. ~(index > LastId(a.st).index \/ rejection = Full) /\ ~(index <= LastId(a.st).index /\ rejection = None)
    BY <1>3, <1>6
  <2>2. Retry(a, s, rejection.next) \in 1..U64Max
    <3>1. rejection.next \in Nat
      BY <1>6 DEF RejectionOK
    <3> QED BY <1>3, <3>1, U64Assumption DEF Retry, Max2, Min2, SaturatingSucc
  <2> DEFINE b == [a EXCEPT !.next[s] = Retry(a, s, rejection.next)]
  <2>3. OK(d, b)
    BY <1>0, <1>1, <2>2, ProgressBeside, PlainOut, BesideOK DEF OK
  <2> HIDE DEF b
  <2>4. OK(d, Resend(b, s))
    <3>2. Beside(b, [b EXCEPT !.outbox[s] = ReplicateOut])
      BY <1>0, <2>3, ProgressBeside, PlainOut DEF OK
    <3> QED BY <2>3, <3>2, BesideOK DEF Resend
  <2> QED BY <1>1, <1>2, <2>1, <2>4 DEF b
<1> QED BY <1>3, <1>4, <1>5, <1>6

(* An append or install answered.                                          *)
LEMMA ReplyOK ==
  ASSUME NEW d, NEW r, OK(d, r.n), r.index \in Nat, RejectionOK(r.rejection), NEW slot, NEW from
  PROVE  OK(d, Reply(r, slot, from))
<1>1. OutOK(ReplicatedOut(r.index, r.rejection))
  BY DEF OutOK, OutKinds, ReplicatedOut, RejectionOK
<1>2. Beside(r.n, Send(r.n, slot, from, ReplicatedOut(r.index, r.rejection)))
  BY <1>1, SendBeside DEF OK
<1> QED BY <1>2, BesideOK DEF Reply

(* What a request of an older term is told.                                *)
LEMMA RefuseStaleOK ==
  ASSUME NEW d, NEW n, OK(d, n), NEW slot, NEW from, NEW msg, MsgOK(msg)
  PROVE  OK(d, RefuseStale(n, slot, from, msg))
<1>1. OK(d, Send(n, slot, from, VotedOut(FALSE)))
  BY PlainOut, SendBeside, BesideOK DEF OK
<1>2. ASSUME NEW index \in Nat PROVE OK(d, Send(n, slot, from, ReplicatedOut(index, Conflict(1))))
  <2>1. OutOK(ReplicatedOut(index, Conflict(1)))
    BY DEF OutOK, OutKinds, ReplicatedOut, Conflict
  <2> QED BY <2>1, SendBeside, BesideOK DEF OK
<1>3. msg.type \in {"Append", "AppendBatch"} => msg.previous.index \in Nat
  BY U64Assumption DEF MsgOK, LogIds
<1>4. msg.type = "Install" => msg.snapshot.last.index \in Nat
  BY U64Assumption DEF MsgOK, Snapshots, LogIds
<1> QED BY <1>1, <1>2, <1>3, <1>4 DEF RefuseStale

(* PreVote                                                                 *)
LEMMA OnPreVoteOK ==
  ASSUME NEW d, NEW n, OK(d, n), NEW slot, NEW from, NEW msg, msg.term \in 0..U64Max
  PROVE  OK(d, OnPreVote(n, slot, from, msg))
<1>1. PICK g : OnPreVote(n, slot, from, msg) = Send(n, slot, from, PreVotedOut(msg.term, g))
  BY DEF OnPreVote
<1>2. OutOK(PreVotedOut(msg.term, g))
  BY DEF OutOK, OutKinds, PreVotedOut
<1> QED BY <1>1, <1>2, SendBeside, BesideOK DEF OK

(* Vote                                                                    *)
LEMMA OnVoteOK ==
  ASSUME NEW d, NEW n, OK(d, n), NEW slot, NEW from \in Id, NEW msg, n.st.term # 0
  PROVE  OK(d, OnVote(n, slot, from, msg))
<1> DEFINE granted == n.st.vote \in {None, from} /\ UpToDate(msg.last, LastId(n.st))
           x == [n EXCEPT !.st.vote = from, !.dirty = TRUE]
           voted == IF granted /\ n.st.vote # from THEN x ELSE n
<1>1. OK(d, x)
  <2>0. n.st.term \in Nat /\ n.st.term <= U64Max /\ n.st.term <= n.st.term /\ n.st \in Checkpoints
    BY Measures DEF OK, Held
  <2>1. /\ DOMAIN x = NodeFields /\ x.st = [n.st EXCEPT !.vote = from] /\ x.dirty
        /\ \A f \in NodeFields \ {"st", "dirty"} : x[f] = n[f]
    BY DEF OK, Typed, NodeFields
  <2> HIDE DEF x
  <2>2. x.prevoting = n.prevoting
    BY <2>1 DEF NodeFields
  <2>3. x.st = [n.st EXCEPT !.term = n.st.term, !.vote = from]
    BY <2>0, <2>1 DEF Checkpoints
  <2>4. PICK t : t = n.st.term
    OBVIOUS
  <2>5. t \in Nat /\ n.st.term <= t /\ t # 0 /\ t <= U64Max /\ from \in Id \cup {None} /\ x.st = [n.st EXCEPT !.term = t, !.vote = from]
        /\ x.prevoting = n.prevoting /\ t = n.st.term
    BY <2>0, <2>2, <2>3, <2>4
  <2>6. \A f \in NodeFields \ {"st", "dirty", "votes", "leader", "aged", "role", "prevoting"} : x[f] = n[f]
    BY <2>1
  <2> QED BY <2>1, <2>5, <2>6, TermOK
<1>2. OK(d, voted)
  BY <1>1
<1>3. OnVote(n, slot, from, msg) = Send(voted, slot, from, VotedOut(granted))
  BY DEF OnVote
<1> HIDE DEF voted, granted
<1>4. OutOK(VotedOut(granted))
  BY DEF OutOK, OutKinds, VotedOut
<1> QED BY <1>2, <1>3, <1>4, SendBeside, BesideOK DEF OK

(* Voted                                                                   *)
LEMMA OnVotedOK ==
  ASSUME NEW d, CP(d), NEW n, OK(d, n), n.logFrom = None, n.st.term # 0, NEW slot, NEW msg
  PROVE  OK(d, OnVoted(n, slot, msg))
<1>1. Beside(n, Count(n, slot))
  BY CountBeside DEF OK
<1>2. OK(d, Count(n, slot)) /\ Count(n, slot).logFrom = None /\ Count(n, slot).st.term # 0
  BY <1>1, BesideOK DEF Beside
<1>3. OK(d, BecomeLeader(Count(n, slot)))
  BY <1>2, BecomeLeaderOK
<1> QED BY <1>2, <1>3 DEF OnVoted

(* PreVoted                                                                *)
LEMMA OnPreVotedOK ==
  ASSUME NEW d, CP(d), NEW n, OK(d, n), n.logFrom = None, NEW slot, NEW msg, msg.campaign # None
  PROVE  OK(d, OnPreVoted(n, slot, msg))
<1>1. Beside(n, Count(n, slot))
  BY CountBeside DEF OK
<1>2. OK(d, Count(n, slot)) /\ Count(n, slot).logFrom = None /\ Count(n, slot).st = n.st
  BY <1>1, BesideOK DEF Beside
<1>3. ASSUME n.prevoting = msg.campaign PROVE OK(d, Campaign(Count(n, slot), msg.campaign))
  <2>1. n.st.term \in Nat /\ msg.campaign = n.st.term + 1 /\ msg.campaign <= U64Max
    BY <1>3, Measures DEF OK, Held
  <2>2. PICK t, m : t = msg.campaign /\ m = Count(n, slot)
    OBVIOUS
  <2>3. OK(d, m) /\ m.logFrom = None /\ t \in Nat /\ m.st.term < t /\ t <= U64Max
    BY <1>2, <2>1, <2>2
  <2> QED BY <2>2, <2>3, CampaignOK
<1> QED BY <1>2, <1>3 DEF OnPreVoted

(* step                                                                    *)
LEMMA StepOK ==
  ASSUME NEW d, CP(d), NEW n0, OK(d, n0), ~n0.dirty, NEW env, MsgOK(env.msg), Valid(env.msg), env.from \in Id,
         SlotOf(n0.peers, env.from) # 0 \/ env.msg.type \in Requests
  PROVE  OK(d, Step(n0, env))
<1>0. PICK msg, from, slot, n : msg = env.msg /\ from = env.from /\ slot = SlotOf(n0.peers, from) /\ n = AdoptTerm(n0, msg.term)
  OBVIOUS
<1> DEFINE loyal == Follow(n, from)
           quiet == n0.hooks /\ msg.type = "Vote" /\ (n0.role = "Leader" \/ ~n0.aged)
           x == Step(n0, env)
<1>1. msg.type \in MessageTypes /\ msg.term \in 0..U64Max /\ MsgOK(msg) /\ Valid(msg) /\ from \in Id
      /\ (slot # 0 \/ msg.type \in Requests)
  BY <1>0 DEF MsgOK
<1>2. n0.logFrom = None
  BY DEF OK, Held
<1>3. OK(d, n) /\ n.logFrom = None /\ n.st.term >= msg.term /\ n.st.term \in Nat
  BY <1>0, <1>1, <1>2, AdoptTermOK
<1>4. msg.type # "PreVoted" => msg.term > 0 /\ n.st.term # 0
  BY <1>1, <1>3, U64Assumption DEF Valid
<1>5. OK(d, loyal) /\ loyal.st = n.st
  <2>1. Beside(n, loyal)
    BY <1>3, FollowBeside DEF OK
  <2> QED BY <1>3, <2>1, BesideOK DEF Beside
<1> HIDE DEF loyal
<1>6. CASE msg.type = "PreVote"
  <2>1. x = OnPreVote(n0, slot, from, msg)
    BY <1>0, <1>6 DEF Step
  <2> QED BY <1>1, <2>1, OnPreVoteOK DEF x
<1>7. CASE quiet
  <2>1. x = n0
    BY <1>0, <1>7 DEF Step
  <2> QED BY <2>1 DEF x
<1>8. CASE msg.type = "PreVoted"
  <2>1. x = OnPreVoted(n, slot, msg)
    BY <1>0, <1>8 DEF Step
  <2>2. msg.campaign # None
    <3>1. msg.campaign \in Nat
      BY <1>1, <1>8 DEF MsgOK
    <3> QED BY <3>1, NothingAssumption
  <2> QED BY <1>3, <2>1, <2>2, OnPreVotedOK DEF x
<1>9. CASE msg.type \notin {"PreVote", "PreVoted"} /\ ~quiet /\ msg.term < n.st.term
  <2>1. x = RefuseStale(n, slot, from, msg)
    BY <1>0, <1>9 DEF Step
  <2> QED BY <1>1, <1>3, <2>1, RefuseStaleOK DEF x
<1>10. CASE msg.type \notin {"PreVote", "PreVoted"} /\ ~quiet /\ ~(msg.term < n.st.term)
  <2>0. n.st.term = msg.term /\ n.st.term # 0
    BY <1>1, <1>3, <1>4, <1>10, U64Assumption
  <2>1. CASE msg.type = "Vote"
    <3>1. x = OnVote(n, slot, from, msg)
      BY <1>0, <1>10, <2>1 DEF Step
    <3> QED BY <1>1, <1>3, <2>0, <3>1, OnVoteOK DEF x
  <2>2. CASE msg.type = "Voted"
    <3>1. x = OnVoted(n, slot, msg)
      BY <1>0, <1>10, <2>2 DEF Step
    <3> QED BY <1>3, <2>0, <3>1, OnVotedOK DEF x
  <2>3. CASE msg.type = "Append"
    <3> DEFINE r == AppendOne(loyal, msg.previous, msg.entry, msg.commit)
    <3>1. x = Reply(r, slot, from)
      BY <1>0, <1>10, <2>3 DEF Step, loyal
    <3>2. msg.previous \in LogIds /\ msg.entry \in Entries \cup {None} /\ msg.commit \in Nat
      BY <1>1, <2>3 DEF MsgOK
    <3>3. ASSUME msg.entry # None PROVE Continues(loyal.st, msg.previous, msg.entry)
      <4>1. Chained(msg.previous, <<msg.entry>>, msg.term)
        BY <1>1, <2>3, <3>3 DEF Valid
      <4>2. ValidId(msg.entry.id, msg.term) /\ msg.entry.id.index = msg.previous.index + 1 /\ msg.entry.id.term >= msg.previous.term
        <5>1. 1 \in DOMAIN <<msg.entry>> /\ <<msg.entry>>[1] = msg.entry
          OBVIOUS
        <5> QED BY <4>1, <5>1 DEF Chained
      <4>3. msg.previous.index \in Nat
        BY <3>2, U64Assumption DEF LogIds
      <4>4. msg.entry.id.term \in 1..msg.term
        BY <4>2, <4>3 DEF ValidId, Genesis
      <4>5. msg.entry \in Entries
        BY <3>2, <3>3
      <4> QED BY <1>1, <1>5, <2>0, <3>2, <4>2, <4>4, <4>5, U64Assumption DEF Continues
    <3>4. OK(d, r.n) /\ r.index \in Nat /\ RejectionOK(r.rejection)
      BY <1>5, <3>2, <3>3, AppendOK
    <3> QED BY <3>1, <3>4, ReplyOK DEF x
  <2>4. CASE msg.type = "AppendBatch"
    <3> DEFINE r == AppendAll(loyal, msg.previous, msg.entries, msg.commit)
    <3>1. x = Reply(r, slot, from)
      BY <1>0, <1>10, <2>4 DEF Step, loyal
    <3>2. msg.previous \in LogIds /\ msg.entries \in Seq(Entries) /\ msg.commit \in Nat
      BY <1>1, <2>4 DEF MsgOK
    <3>3. Chained(msg.previous, msg.entries, loyal.st.term)
      BY <1>1, <1>5, <2>0, <2>4 DEF Valid
    <3>4. OK(d, r.n) /\ r.index \in Nat /\ RejectionOK(r.rejection)
      BY <1>5, <3>2, <3>3, AppendAllOK
    <3> QED BY <3>1, <3>4, ReplyOK DEF x
  <2>5. CASE msg.type = "Install"
    <3> DEFINE r == InstallSnapshot(loyal, msg.snapshot)
    <3>1. x = Reply(r, slot, from)
      BY <1>0, <1>10, <2>5 DEF Step, loyal
    <3>2. msg.snapshot \in Snapshots
      BY <1>1, <2>5 DEF MsgOK
    <3>3. msg.snapshot.last.term # 0 /\ msg.snapshot.last.term <= loyal.st.term
      <4>1. msg.snapshot.last.index > 0 /\ ValidId(msg.snapshot.last, msg.term)
        BY <1>1, <2>5 DEF Valid
      <4> QED BY <1>1, <1>5, <2>0, <4>1 DEF ValidId, Genesis
    <3>4. OK(d, r.n) /\ r.index \in Nat /\ RejectionOK(r.rejection)
      BY <1>5, <3>2, <3>3, InstallSnapshotOK
    <3> QED BY <3>1, <3>4, ReplyOK DEF x
  <2>6. CASE msg.type = "Replicated"
    <3>1. x = IF n.role = "Leader" THEN Replicated(n, slot, msg.index, msg.rejection) ELSE n
      BY <1>0, <1>10, <2>6 DEF Step
    <3>2. msg.index \in Nat /\ RejectionOK(msg.rejection)
      BY <1>1, <2>6 DEF MsgOK, RejectionOK
    <3>3. slot \in Slot
      BY <1>0, <1>1, <2>6, SlotOfSlot DEF Requests
    <3>4. OK(d, Replicated(n, slot, msg.index, msg.rejection))
      BY <1>3, <3>2, <3>3, ReplicatedOK
    <3> QED BY <1>3, <3>1, <3>4 DEF x
  <2> QED BY <1>1, <1>10, <2>1, <2>2, <2>3, <2>4, <2>5, <2>6 DEF MessageTypes
<1> QED BY <1>6, <1>7, <1>8, <1>9, <1>10

-----------------------------------------------------------------------------
(* Changes of configuration propose configurations.                        *)

(* A configuration fits its slots, and its voters are listed once each.    *)
LEMMA ConfigFits ==
  ASSUME NEW m \in Configs
  PROVE  LET vs == InOrder(m, m.voters) IN
         /\ Fit(m) /\ m.voters \in SUBSET Id /\ m.voters # {} /\ m.voters \subseteq Ids(m.slots)
         /\ vs \in Seq(Id) /\ ToSet(vs) = m.voters
<1>1. Fit(m) /\ m.voters \in SUBSET Id /\ m.voters # {} /\ m.voters \subseteq Ids(m.slots)
  BY DEF Configs, Fit, Memberships
<1>2. InOrder(m, m.voters) \in Seq(Id) /\ ToSet(InOrder(m, m.voters)) = m.voters \cap Ids(m.slots)
  BY <1>1, Listed
<1> QED BY <1>1, <1>2

(* with_learners                                                           *)
LEMMA WithLearnersTyped ==
  ASSUME NEW m \in Configs, NEW learners \in Seq(Id), WithLearners(m, learners) # None
  PROVE  WithLearners(m, learners) \in Configs
<1> DEFINE vs == InOrder(m, m.voters)
           kept == IncludeAll(Empty, vs, "voters")
           y == IncludeAll(kept, learners, "learners")
<1>0. /\ Fit(m) /\ m.voters \in SUBSET Id /\ m.voters # {} /\ m.voters \subseteq Ids(m.slots)
      /\ vs \in Seq(Id) /\ ToSet(vs) = m.voters
  BY ConfigFits
<1>1. WithLearners(m, learners) = y
  BY DEF WithLearners
<1> HIDE DEF vs
<1>2. kept # None
  <2>1. IsFiniteSet(Ids(m.slots)) /\ Cardinality(Ids(m.slots)) <= MAX
    BY <1>0, MembersFit
  <2>2. \A W : IsFiniteSet(W) /\ Cardinality(W) <= MAX /\ Ids(Empty.slots) \cup ToSet(vs) \subseteq W => kept # None
    BY <1>0, EmptyFits, AllIncluded DEF Kinds
  <2> HIDE DEF kept
  <2> QED BY <1>0, <2>1, <2>2, EmptyFits
<1>3. Fit(kept) /\ kept.voters = m.voters
  <2>1. Fit(kept) /\ kept["voters"] = Empty["voters"] \cup ToSet(vs)
    BY <1>0, <1>2, EmptyFits, AllIncluded DEF Kinds
  <2> HIDE DEF kept
  <2> QED BY <1>0, <2>1, EmptyFits
<1> HIDE DEF kept
<1>4. Fit(y) /\ y.voters = m.voters
  <2>1. Fit(y) /\ \A k \in Kinds \ {"learners"} : y[k] = kept[k]
    BY <1>1, <1>3, AllIncluded DEF Kinds
  <2> HIDE DEF y
  <2> QED BY <1>3, <2>1 DEF Kinds
<1> HIDE DEF y
<1> QED BY <1>0, <1>1, <1>4 DEF Configs, Fit

(* joint                                                                   *)
LEMMA JointTyped ==
  ASSUME NEW m \in Configs, NEW target \in Configs, Joint(m, target) # None
  PROVE  Joint(m, target) \in Configs
<1> DEFINE vs == InOrder(m, m.voters)
           y == IncludeAll(target, vs, "old")
<1>0. vs \in Seq(Id) /\ Fit(target) /\ target.voters # {}
  BY ConfigFits
<1>1. Joint(m, target) = y
  BY DEF Joint
<1> HIDE DEF vs
<1>2. Fit(y) /\ y.voters = target.voters
  <2>1. Fit(y) /\ \A k \in Kinds \ {"old"} : y[k] = target[k]
    BY <1>0, <1>1, AllIncluded DEF Kinds
  <2> HIDE DEF y
  <2> QED BY <2>1 DEF Kinds
<1> HIDE DEF y
<1> QED BY <1>0, <1>1, <1>2 DEF Configs, Fit

(* finalized                                                               *)
LEMMA FinalizedTyped ==
  ASSUME NEW m \in Configs
  PROVE  Finalized(m) \in Configs
<1>1. PICK f : f = Finalized(m)
  OBVIOUS
<1>2. /\ m.slots \in [Slot -> Id \cup {None}] /\ m.voters \in SUBSET Id /\ m.learners \in SUBSET Id
      /\ m \in Memberships /\ m.voters # {}
      /\ Ids(m.slots) = m.voters \cup m.old \cup m.learners
      /\ \A s, t \in Slot : m.slots[s] = m.slots[t] /\ s # t => m.slots[s] = None
  BY DEF Configs, Memberships
<1>3. /\ f.old = {} /\ f.voters = m.voters /\ f.learners = m.learners
      /\ f.slots = [s \in Slot |-> IF m.slots[s] \in m.voters \cup m.learners THEN m.slots[s] ELSE None]
      /\ f \in Memberships
  BY <1>1, <1>2 DEF Finalized, Memberships
<1>4. Ids(f.slots) = f.voters \cup f.old \cup f.learners
  <2>1. \A id \in m.voters \cup m.learners : id # None /\ \E s \in Slot : m.slots[s] = id
    BY <1>2, IdAssumption DEF Ids
  <2> QED BY <1>2, <1>3, <2>1 DEF Ids
<1>5. \A s, t \in Slot : f.slots[s] = f.slots[t] /\ s # t => f.slots[s] = None
  BY <1>2, <1>3
<1> QED BY <1>1, <1>2, <1>3, <1>4, <1>5 DEF Configs

-----------------------------------------------------------------------------
(* Operations of the host and of clients.                                  *)

(* tick                                                                    *)
LEMMA TickOK ==
  ASSUME NEW d, CP(d), NEW n0, OK(d, n0), ~n0.dirty, NEW check, NEW due, NEW ages
  PROVE  OK(d, Tick(n0, check, due, ages))
<1> DEFINE n == [n0 EXCEPT !.aged = @ \/ ages]
<1>1. OK(d, n) /\ n.logFrom = None /\ n.role = n0.role /\ n.st = n0.st
  <2>1. DOMAIN n = NodeFields /\ \A f \in NodeFields \ {"aged"} : n[f] = n0[f]
    BY DEF OK, Typed, NodeFields
  <2> HIDE DEF n
  <2>2. n.outbox = n0.outbox /\ n.extra = n0.extra /\ n.matched = n0.matched /\ n.next = n0.next /\ n.role = n0.role
    BY <2>1 DEF NodeFields
  <2>3. Beside(n0, n)
    BY <2>1, <2>2, FieldBeside DEF OK, Typed
  <2> QED BY <2>2, <2>3, BesideOK DEF Beside, OK, Held
<1>2. Tick(n0, check, due, ages) = IF n.role = "Leader" THEN LeaderTick(n, check, due)
                                   ELSE IF due /\ MayCampaign(n) THEN ElectionTick(n) ELSE n
  BY DEF Tick
<1> HIDE DEF n
<1>3. ASSUME n.role = "Leader" PROVE OK(d, LeaderTick(n, check, due))
  <2> DEFINE x == [n EXCEPT !.active = {}]
             c == IF n.hooks /\ check THEN x ELSE n
  <2>1. OK(d, x) /\ x.logFrom = None /\ x.st = n.st
    <3>1. DOMAIN x = NodeFields /\ \A f \in NodeFields \ {"active"} : x[f] = n[f]
      BY <1>1 DEF OK, Typed, NodeFields
    <3> HIDE DEF x
    <3>2. x.outbox = n.outbox /\ x.extra = n.extra /\ x.matched = n.matched /\ x.next = n.next
      BY <3>1 DEF NodeFields
    <3>3. Beside(n, x)
      BY <1>1, <3>1, <3>2, FieldBeside DEF OK, Typed
    <3> QED BY <1>1, <3>3, BesideOK DEF Beside
  <2> HIDE DEF x
  <2>2. OK(d, c) /\ c.logFrom = None /\ c.st.term # 0
    <3>1. n.st.term # 0
      BY <1>1, <1>3 DEF OK, Held
    <3> QED BY <1>1, <2>1, <3>1
  <2> HIDE DEF c
  <2>3. OK(d, Barrier(c))
    BY <2>2, BarrierOK
  <2>4. OK(d, Broadcast(Barrier(c)))
    BY <2>3, BroadcastBeside, BesideOK DEF OK
  <2>5. OK(d, Follow(c, None))
    BY <2>2, FollowBeside, BesideOK DEF OK
  <2> QED BY <2>2, <2>4, <2>5 DEF LeaderTick, c, x
<1>4. ASSUME MayCampaign(n) PROVE OK(d, ElectionTick(n))
  <2> DEFINE t == n.st.term + 1
             p == [n EXCEPT !.role = "Follower", !.prevoting = t, !.votes = {Local(n)}]
  <2>1. t \in Nat /\ t <= U64Max /\ n.st.term < t /\ t \in 0..U64Max
    <3>1. n.st.term \in Nat
      BY <1>1, Measures DEF OK, Held
    <3> QED BY <1>4, <3>1, U64Assumption DEF MayCampaign
  <2>2. OK(d, Campaign(n, t))
    <3> HIDE DEF t
    <3> QED BY <1>1, <2>1, CampaignOK
  <2>3. /\ DOMAIN p = NodeFields /\ p.role = "Follower" /\ p.prevoting = t
        /\ \A f \in NodeFields \ {"role", "prevoting", "votes"} : p[f] = n[f]
    BY <1>1 DEF OK, Typed, NodeFields
  <2> HIDE DEF p
  <2>4. p.st = n.st /\ p.dirty = n.dirty /\ p.logFrom = n.logFrom /\ p.snapChanged = n.snapChanged
    BY <2>3 DEF NodeFields
  <2>5. OK(d, p)
    <3>1. Typed(p)
      BY <1>1, <2>3, TypedOn DEF OK
    <3>2. Held(d, p)
      BY <1>1, <2>1, <2>3, <2>4 DEF OK, Held, Pends
    <3> QED BY <3>1, <3>2 DEF OK
  <2>6. OutOK(PreVoteOut(t))
    BY <2>1 DEF OutOK, OutKinds, PreVoteOut
  <2>7. OK(d, AskVoters(p, PreVoteOut(t)))
    <3>1. PICK o : o = PreVoteOut(t)
      OBVIOUS
    <3>2. OK(d, AskVoters(p, o))
      BY <2>5, <2>6, <3>1, SendAllBeside, BesideOK DEF OK, AskVoters
    <3> QED BY <3>1, <3>2
  <2> QED BY <2>2, <2>7 DEF ElectionTick, p
<1> QED BY <1>1, <1>2, <1>3, <1>4

(* The entries of a batch of proposals.                                    *)
Batch(first, term, values) == [k \in 1..Len(values) |-> Entry(first + k - 1, term, values[k])]
Proposals == Value \cup {None} \cup Configs

(* They may follow the leader's log.                                       *)
LEMMA BatchFollows ==
  ASSUME NEW st, CP(st), st.term # 0, NEW values \in Seq(Proposals), Len(values) # 0,
         LastId(st).index + Len(values) <= U64Max
  PROVE  LET B == Batch(LastId(st).index + 1, st.term, values)
             L == Len(st.entries)
         IN  /\ B \in Seq(Entries) /\ Len(B) = Len(values) /\ B # <<>> /\ Follows1(st, L, B)
             /\ [st EXCEPT !.entries = @ \o B] = Suffixed(st, L, B)
             /\ \A k \in 1..Len(B) : B[k].id = LogId(LastId(st).index + k, st.term)
<1> DEFINE first == LastId(st).index + 1
           B == Batch(first, st.term, values)
           L == Len(st.entries)
           b == Base(st).index
<1>1. /\ b \in Nat /\ L \in Nat /\ LastId(st).index = b + L /\ st.term \in Nat /\ st.term <= U64Max
      /\ st \in Checkpoints /\ st.entries \in Seq(Entries) /\ LastId(st) \in LogIds /\ LastId(st).term <= st.term
      /\ IdAt(st, b + L) = LastId(st) /\ Len(values) \in Nat
  BY Measures
<1> HIDE DEF b, L
<1>2. ASSUME NEW k \in 1..Len(values)
      PROVE  /\ first + k - 1 = b + L + k /\ b + L + k <= U64Max
             /\ Entry(first + k - 1, st.term, values[k]) \in Entries
             /\ Entry(first + k - 1, st.term, values[k]).id = LogId(b + L + k, st.term)
  <2>0. PICK l, v : l = LastId(st).index /\ v = Len(values)
    OBVIOUS
  <2>a. l = b + L /\ l + v <= U64Max /\ v \in Nat /\ k \in 1..v /\ first = l + 1 /\ U64Max \in Nat
    BY <1>1, <2>0, U64Assumption
  <2>b. k \in Nat /\ k <= v
    BY <2>a
  <2>1. first + k - 1 = b + L + k /\ b + L + k <= U64Max /\ b + L + k \in 0..U64Max /\ st.term \in 0..U64Max
    <3> HIDE DEF first
    <3> QED BY <1>1, <2>a, <2>b
  <2>2. LogId(b + L + k, st.term) \in LogIds
    BY <2>1 DEF LogId, LogIds
  <2>3. values[k] \in Proposals
    OBVIOUS
  <2> HIDE DEF first
  <2> QED BY <2>1, <2>2, <2>3 DEF Entry, Entries, Proposals
<1>3. B = [k \in 1..Len(values) |-> Entry(first + k - 1, st.term, values[k])]
  BY DEF Batch
<1> HIDE DEF B, first
<1>4. B \in Seq(Entries) /\ Len(B) = Len(values) /\ B # <<>>
  <2>1. B \in Seq(Entries) /\ Len(B) = Len(values)
    BY <1>1, <1>2, <1>3
  <2> QED BY <2>1
<1>5. \A k \in 1..Len(B) : B[k].id = LogId(b + L + k, st.term) /\ b + L + k <= U64Max
  BY <1>2, <1>3, <1>4
<1>6. \A k \in 1..Len(B) : B[k].id.index = b + L + k /\ B[k].id.term = st.term
  <2>1. \A i, t : LogId(i, t).index = i /\ LogId(i, t).term = t
    BY DEF LogId
  <2> QED BY <1>5, <2>1
<1>7. Follows1(st, L, B)
  <2>1. \A k \in 1..Len(B) : k # 1 => k - 1 \in 1..Len(B)
    BY <1>1, <1>4
  <2>2. \A k \in 1..Len(B) : k # 1 => B[k - 1].id.term = st.term
    BY <1>6, <2>1
  <2>3. st.term >= st.term /\ st.term <= st.term /\ st.term >= LastId(st).term
    BY <1>1 DEF LogIds
  <2> QED BY <1>1, <1>5, <1>6, <2>2, <2>3 DEF Follows1, b
<1>8. SubSeq(st.entries, 1, L) = st.entries
  <2>1. PICK s, e : s = st.entries /\ e = B[1]
    OBVIOUS
  <2>2. e \in Entries
    <3>1. 1 \in 1..Len(B)
      BY <1>1, <1>4
    <3> QED BY <1>4, <2>1, <3>1
  <2>3. SubSeq(s, 1, Len(s)) = s
    BY <1>1, <2>1, <2>2, Appending
  <2> QED BY <2>1, <2>3 DEF L
<1>9. [st EXCEPT !.entries = @ \o B] = Suffixed(st, L, B)
  BY <1>1, <1>8 DEF Suffixed, Checkpoints
<1> QED BY <1>1, <1>4, <1>5, <1>7, <1>9 DEF B, first, L, b

(* propose_many                                                            *)
LEMMA ProposeOK ==
  ASSUME NEW d, CP(d), NEW n, OK(d, n), NEW values \in Seq(Proposals), CanPropose(n, Len(values))
  PROVE  OK(d, ProposeMany(n, values))
<1>0. PICK st : st = n.st
  OBVIOUS
<1> DEFINE first == LastId(st).index + 1
           B == Batch(first, st.term, values)
           L == Len(st.entries)
           x == [n EXCEPT !.st.entries = @ \o B, !.dirty = TRUE, !.logFrom = first]
           y == RefreshMembership(x)
           z == MatchSelf(y, first + Len(values) - 1)
<1>1. /\ CP(st) /\ st.term # 0 /\ ~n.dirty /\ n.logFrom = None /\ Len(values) \in 1..Remaining(n)
      /\ LastId(st).index + Len(values) <= U64Max /\ L \in Nat /\ LastId(st).index \in Nat /\ st.cap \in Nat
      /\ LastId(st).index = Base(st).index + L /\ st.commit <= Base(st).index + L /\ Base(st).index \in Nat
  <2>1. CP(st) /\ st.term # 0 /\ ~n.dirty /\ n.logFrom = None /\ Len(values) \in 1..Remaining(n)
        /\ LastId(st).index + Len(values) <= U64Max
    BY <1>0 DEF OK, Held, CanPropose, Available
  <2> QED BY <2>1, Measures
<1>2. Len(values) # 0 /\ L + Len(values) <= st.cap /\ L \in 0..L
  BY <1>0, <1>1 DEF Remaining
<1>3. /\ B \in Seq(Entries) /\ Len(B) = Len(values) /\ B # <<>> /\ Follows1(st, L, B)
      /\ [st EXCEPT !.entries = @ \o B] = Suffixed(st, L, B)
  BY <1>1, <1>2, BatchFollows
<1>c. ProposeMany(n, values) = Broadcast(AdvanceCommit(z))
  BY <1>0 DEF ProposeMany, Batch
<1> HIDE DEF B
<1>4. /\ DOMAIN x = NodeFields /\ x.st = Suffixed(st, L, B) /\ x.dirty /\ x.logFrom = first
      /\ \A f \in NodeFields \ {"st", "dirty", "logFrom"} : x[f] = n[f]
  <2>1. DOMAIN x = NodeFields /\ x.st = [st EXCEPT !.entries = @ \o B] /\ x.dirty /\ x.logFrom = first
        /\ \A f \in NodeFields \ {"st", "dirty", "logFrom"} : x[f] = n[f]
    BY <1>0 DEF OK, Typed, NodeFields
  <2> QED BY <1>3, <2>1
<1> HIDE DEF x
<1>5. x.snapChanged = n.snapChanged /\ x.prevoting = n.prevoting /\ x.role = n.role
  BY <1>4 DEF NodeFields
<1>6. Typed(x)
  BY <1>4, TypedOn DEF OK
<1>7. Held(d, x)
  <2>1. x.logFrom = IF n.logFrom = None THEN Base(n.st).index + L + 1 ELSE Min2(n.logFrom, Base(n.st).index + L + 1)
    BY <1>0, <1>1, <1>4
  <2>2. Held(d, n) /\ L \in 0..Len(n.st.entries) /\ n.st.commit <= Base(n.st).index + L /\ Follows1(n.st, L, B)
        /\ x.st = Suffixed(n.st, L, B) /\ L + Len(B) <= n.st.cap
    BY <1>0, <1>1, <1>2, <1>3, <1>4 DEF OK
  <2> HIDE DEF L
  <2> QED BY <1>3, <1>4, <1>5, <2>1, <2>2, SuffixHeld
<1>8. Beside(x, y)
  BY <1>6, <1>7, RefreshBeside DEF Held
<1>9. OK(d, y)
  BY <1>6, <1>7, <1>8, BesideOK DEF OK
<1> HIDE DEF y
<1>10. first + Len(values) - 1 \in 0..U64Max
  BY <1>1
<1>11. OK(d, z)
  <2>1. PICK i : i = first + Len(values) - 1
    OBVIOUS
  <2>2. OK(d, MatchSelf(y, i))
    BY <1>9, <1>10, <2>1, MatchSelfBeside, BesideOK DEF OK
  <2> QED BY <2>1, <2>2
<1> HIDE DEF z
<1>12. OK(d, AdvanceCommit(z))
  BY <1>11, AdvanceOK
<1>13. OK(d, Broadcast(AdvanceCommit(z)))
  BY <1>12, BroadcastBeside, BesideOK DEF OK
<1> QED BY <1>c, <1>13

(* What a checkpoint has applied.                                          *)
LEMMA AppliedTyped ==
  ASSUME NEW st, CP(st), NEW k \in Nat, Base(st).index <= k, k <= LastId(st).index
  PROVE  AppliedThrough(st, k) \in Seq(Entries)
<1>1. /\ Base(st).index \in Nat /\ Len(st.entries) \in Nat /\ LastId(st).index = Base(st).index + Len(st.entries)
      /\ st.entries \in Seq(Entries) /\ st.snapshot \in Snapshots \cup {None}
  BY Measures, Fields6 DEF CP
<1>2. k - Base(st).index \in 0..Len(st.entries)
  BY <1>1
<1>3. SubSeq(st.entries, 1, k - Base(st).index) \in Seq(Entries)
  <2>1. PICK s, j : s = st.entries /\ j = k - Base(st).index
    OBVIOUS
  <2>2. s \in Seq(Entries) /\ j \in 0..Len(s)
    BY <1>1, <1>2, <2>1
  <2>3. \A i \in 1..j : s[i] \in Entries
    BY <2>2
  <2>4. SubSeq(s, 1, j) \in Seq(Entries)
    BY <2>2, <2>3, SubSeqProperties
  <2> QED BY <2>1, <2>4
<1>4. (IF st.snapshot = None THEN <<>> ELSE st.snapshot.app) \in Seq(Entries)
  BY <1>1, NothingAssumption DEF Snapshots
<1> QED BY <1>3, <1>4, ConcatProperties DEF AppliedThrough

(* compact                                                                 *)
LEMMA CompactOK ==
  ASSUME NEW d, CP(d), NEW n, OK(d, n), NEW index \in Nat, CanCompact(n, index)
  PROVE  OK(d, CompactWith(n, index))
<1>0. PICK st : st = n.st
  OBVIOUS
<1> DEFINE sn == [last |-> IdAt(st, index), app |-> AppliedThrough(st, index),
                  membership |-> MembershipAt(n, index).membership]
           x == [n EXCEPT !.st = Install(@, sn), !.dirty = TRUE, !.snapChanged = TRUE]
<1>1. /\ CP(st) /\ ~n.dirty /\ n.logFrom = None /\ index > Base(st).index /\ index <= st.commit
      /\ Base(st).index \in Nat /\ Len(st.entries) \in Nat /\ LastId(st).index = Base(st).index + Len(st.entries)
      /\ st.commit \in Nat /\ st.commit <= Base(st).index + Len(st.entries) /\ st.term \in Nat
  <2>1. CP(st) /\ ~n.dirty /\ n.logFrom = None /\ index > Base(st).index /\ index <= st.commit
    BY <1>0 DEF OK, Held, CanCompact, Available
  <2> QED BY <2>1, Measures
<1>2. index \in Base(st).index + 1..Base(st).index + Len(st.entries)
  BY <1>1
<1>3. IdAt(st, index) \in LogIds /\ IdAt(st, index).index = index
      /\ IdAt(st, index).term # 0 /\ IdAt(st, index).term <= st.term
  <2>1. /\ Get(st, index) = st.entries[index - Base(st).index] /\ Get(st, index).id.index = index
        /\ IdAt(st, index) = Get(st, index).id /\ IdAt(st, index) \in LogIds
    BY <1>1, <1>2, Retained
  <2>2. index - Base(st).index \in 1..Len(st.entries)
    BY <1>1, <1>2
  <2>3. PICK j : j = index - Base(st).index
    OBVIOUS
  <2>4. st.entries[j].id.term # 0 /\ st.entries[j].id.term <= st.term
    BY <1>1, <2>2, <2>3 DEF CP, Restorable
  <2> QED BY <2>1, <2>3, <2>4
<1>4. sn \in Snapshots /\ sn.last = IdAt(st, index)
  <2>1. AppliedThrough(st, index) \in Seq(Entries)
    BY <1>1, AppliedTyped
  <2>2. MembershipAt(n, index).membership \in Configs
    BY <1>0, <1>1, MembershipTyped DEF OK, Typed
  <2> QED BY <1>3, <2>1, <2>2 DEF Snapshots
<1> HIDE DEF sn
<1>5. Holds(st, sn.last) /\ Fits(st, sn)
  <2>1. Holds(st, sn.last)
    BY <1>3, <1>4 DEF Holds
  <2> QED BY <1>1, <1>3, <1>4, <2>1 DEF Fits
<1>6. /\ DOMAIN x = NodeFields /\ x.st = Install(n.st, sn) /\ x.dirty /\ x.snapChanged = TRUE
      /\ \A f \in NodeFields \ {"st", "dirty", "snapChanged"} : x[f] = n[f]
  BY DEF OK, Typed, NodeFields
<1> HIDE DEF x
<1>7. x.logFrom = n.logFrom /\ x.prevoting = n.prevoting /\ x.role = n.role
  BY <1>6 DEF NodeFields
<1>8. x.logFrom = InstallFrom(n, sn.last)
  BY <1>0, <1>5, <1>7 DEF InstallFrom
<1>9. Held(d, x) /\ x.st.term = n.st.term
  <2>1. Held(d, n) /\ Fits(n.st, sn)
    BY <1>0, <1>5 DEF OK
  <2> QED BY <1>6, <1>7, <1>8, <2>1, InstallHeld
<1>10. OK(d, x) /\ x.logFrom = None
  <2>1. Typed(x)
    BY <1>6, TypedOn DEF OK
  <2> QED BY <1>1, <1>7, <1>9, <2>1 DEF OK
<1>11. n.role = "Leader" => OK(d, Broadcast(Barrier(x)))
  <2>1. n.role = "Leader" => x.st.term # 0
    BY <1>9 DEF OK, Held
  <2>2. n.role = "Leader" => OK(d, Barrier(x))
    BY <1>10, <2>1, BarrierOK
  <2> QED BY <2>2, BroadcastBeside, BesideOK DEF OK
<1>12. CompactWith(n, index) = IF n.role = "Leader" THEN Broadcast(Barrier(x)) ELSE x
  BY <1>0 DEF CompactWith, sn, x
<1> QED BY <1>10, <1>11, <1>12

(* grow                                                                    *)
LEMMA GrownCP ==
  ASSUME NEW st, CP(st), NEW cap \in Nat, st.cap <= cap
  PROVE  LET r == Grow(st, cap) IN
         CP(r) /\ SameLog(st, r) /\ r.cap = cap /\ r.term = st.term /\ r.vote = st.vote /\ r.commit = st.commit
<1>1. PICK s : s = Grow(st, cap)
  OBVIOUS
<1>2. /\ st \in Checkpoints /\ st.term \in 0..U64Max /\ st.vote \in Id \cup {None} /\ (st.term = 0 => st.vote = None)
      /\ st.commit \in Nat /\ st.commit <= st.commit /\ st.term <= st.term /\ st.commit <= LastId(st).index
  BY Measures, U64Assumption DEF CP
<1>3. /\ s \in Checkpoints /\ s.term = st.term /\ s.vote = st.vote /\ s.commit = st.commit
      /\ s.cap = cap /\ s.snapshot = st.snapshot /\ s.entries = st.entries
  BY <1>1, <1>2 DEF Grow, Checkpoints
<1>4. PICK t, v, c : t = st.term /\ v = st.vote /\ c = st.commit
  OBVIOUS
<1>5. CP(s) /\ SameLog(st, s)
  BY <1>2, <1>3, <1>4, HardChanged
<1> QED BY <1>1, <1>3, <1>5

(* The disk and the node grow together.                                    *)
LEMMA GrowOK ==
  ASSUME NEW d, CP(d), NEW n, OK(d, n), NEW cap \in Nat, cap > n.st.cap
  PROVE  CP(Grow(d, cap)) /\ OK(Grow(d, cap), GrowNode(n, cap))
<1> DEFINE x == GrowNode(n, cap)
<1>1. CP(n.st) /\ Pends(d, n) /\ n.st.cap = d.cap /\ n.st.cap \in Nat
  BY Measures DEF OK, Held, Pends
<1>2. n.st.cap <= cap /\ d.cap <= cap
  BY <1>1
<1>3. PICK e, s : e = Grow(d, cap) /\ s = Grow(n.st, cap)
  OBVIOUS
<1>4. CP(e) /\ SameLog(d, e) /\ e.cap = cap /\ e.commit = d.commit
  BY <1>2, <1>3, GrownCP
<1>5. CP(s) /\ SameLog(n.st, s) /\ s.cap = cap /\ s.term = n.st.term /\ s.commit = n.st.commit
  <2>1. PICK st : st = n.st
    OBVIOUS
  <2> QED BY <1>1, <1>2, <1>3, <2>1, GrownCP
<1>6. DOMAIN x = NodeFields /\ x.st = s /\ \A f \in NodeFields \ {"st"} : x[f] = n[f]
  BY <1>3 DEF GrowNode, OK, Typed, NodeFields
<1> HIDE DEF x
<1>7. x.dirty = n.dirty /\ x.logFrom = n.logFrom /\ x.snapChanged = n.snapChanged /\ x.prevoting = n.prevoting /\ x.role = n.role
  BY <1>6 DEF NodeFields
<1>8. Typed(x)
  BY <1>6, TypedOn DEF OK
<1>9. Pends(e, x)
  BY <1>1, <1>4, <1>5, <1>6, <1>7 DEF Pends, SameLog
<1>10. Held(e, x)
  BY <1>3, <1>5, <1>6, <1>7, <1>9 DEF Held, OK
<1> QED BY <1>3, <1>4, <1>8, <1>10 DEF OK, x

(* persisted: what was in memory is on the disk.                           *)
LEMMA PersistedOK ==
  ASSUME NEW d, NEW n, OK(d, n)
  PROVE  OK(n.st, Persisted(n))
<1> DEFINE x == Persisted(n)
<1>1. /\ DOMAIN x = NodeFields /\ x.dirty = FALSE /\ x.logFrom = None /\ x.snapChanged = FALSE
      /\ \A f \in NodeFields \ {"dirty", "logFrom", "snapChanged"} : x[f] = n[f]
  BY DEF Persisted, OK, Typed, NodeFields
<1> HIDE DEF x
<1>2. x.st = n.st /\ x.prevoting = n.prevoting /\ x.role = n.role
  BY <1>1 DEF NodeFields
<1>3. Typed(x)
  BY <1>1, TypedOn DEF OK
<1>4. Pends(n.st, x)
  <2>1. Base(n.st).index <= Base(n.st).index /\ n.st.commit \in Nat /\ n.st.commit <= n.st.commit
    BY Measures DEF OK, Held
  <2> QED BY <1>1, <1>2, <2>1 DEF Pends
<1>5. Held(n.st, x)
  BY <1>1, <1>2, <1>4 DEF Held, OK
<1> QED BY <1>3, <1>5 DEF OK, x

(* The drain loop.                                                         *)
LEMMA DrainedBeside ==
  ASSUME NEW n, Typed(n)
  PROVE  Beside(n, Drained(n))
<1> DEFINE x == Drained(n)
<1>1. /\ DOMAIN x = NodeFields /\ x.outbox = [s \in Slot |-> None] /\ x.extra = None
      /\ \A f \in NodeFields \ {"outbox", "extra"} : x[f] = n[f]
  BY DEF Drained, Typed, NodeFields
<1> HIDE DEF x
<1>2. x.next = n.next /\ x.matched = n.matched
  BY <1>1 DEF NodeFields
<1>3. DOMAIN x.outbox = Slot /\ (\A s \in Slot : x.outbox[s] # None => OutOK(x.outbox[s])) /\ x.next \in [Slot -> 1..U64Max] /\ x.matched \in [Slot -> 0..U64Max]
  BY <1>1, <1>2 DEF OutOK, Typed
<1>4. Beside(n, x)
  BY <1>1, <1>3, FieldBeside
<1> QED BY <1>4 DEF x

(* build                                                                   *)
LEMMA BuildOK ==
  ASSUME NEW d, CP(d), NEW id \in Id, NEW genesis \in Configs, NEW hooks
  PROVE  OK(d, Build(id, d, genesis, hooks)) /\ Build(id, d, genesis, hooks).id = id
<1> DEFINE x == [id |-> id, st |-> d, bootstrap |-> genesis, hooks |-> hooks,
                 role |-> "Follower", leader |-> None, membership |-> genesis,
                 peers |-> genesis.slots, votes |-> {}, active |-> {},
                 next |-> Ones, matched |-> Zeros,
                 outbox |-> [s \in Slot |-> None], extra |-> None,
                 dirty |-> FALSE, logFrom |-> None, snapChanged |-> FALSE,
                 prevoting |-> None, aged |-> TRUE]
<1>1. /\ DOMAIN x = NodeFields /\ x.id = id /\ x.st = d /\ x.bootstrap = genesis /\ x.membership = genesis
      /\ x.next = Ones /\ x.matched = Zeros /\ x.outbox = [s \in Slot |-> None] /\ x.extra = None
      /\ x.dirty = FALSE /\ x.logFrom = None /\ x.snapChanged = FALSE /\ x.prevoting = None /\ x.role = "Follower"
  BY DEF NodeFields
<1>2. Build(id, d, genesis, hooks) = RefreshMembership(x)
  BY DEF Build
<1> HIDE DEF x
<1>3. Typed(x)
  <2>1. x.next \in [Slot -> 1..U64Max] /\ x.matched \in [Slot -> 0..U64Max]
    BY <1>1, U64Assumption DEF Ones, Zeros
  <2> QED BY <1>1, <2>1 DEF Typed, OutOK
<1>4. Held(d, x)
  <2>1. Base(d).index <= Base(d).index /\ d.commit \in Nat /\ d.commit <= d.commit
    BY Measures
  <2> QED BY <1>1, <2>1 DEF Held, Pends
<1>5. Beside(x, RefreshMembership(x))
  BY <1>1, <1>3, RefreshBeside
<1> QED BY <1>1, <1>2, <1>3, <1>4, <1>5, BesideOK DEF OK, Beside

(* The messages of a batch.                                                *)
LEMMA BatchTyped ==
  ASSUME NEW st, CP(st), NEW next \in Nat, next > Base(st).index, NEW upTo \in Nat, upTo <= LastId(st).index
  PROVE  [k \in 1..(upTo - next + 1) |-> Get(st, next + k - 1)] \in Seq(Entries)
<1>1. Base(st).index \in Nat /\ Len(st.entries) \in Nat /\ LastId(st).index = Base(st).index + Len(st.entries)
  BY Measures
<1>2. ASSUME NEW k \in 1..(upTo - next + 1) PROVE Get(st, next + k - 1) \in Entries
  <2>1. next + k - 1 \in Nat /\ next + k - 1 \in Base(st).index + 1..Base(st).index + Len(st.entries)
    BY <1>1
  <2> QED BY <2>1, Retained
<1>3. PICK m : m = upTo - next + 1
  OBVIOUS
<1>4. CASE m \in Nat
  BY <1>2, <1>3, <1>4
<1>5. CASE m \notin Nat
  <2>1. 1..m = {}
    BY <1>3, <1>5
  <2>2. [k \in 1..m |-> Get(st, next + k - 1)] = <<>>
    BY <2>1
  <2> QED BY <1>3, <2>2
<1> QED BY <1>4, <1>5

(* next_message: what is queued becomes a message that is well formed.     *)
LEMMA MessageTyped ==
  ASSUME NEW d, NEW n, OK(d, n), NEW slot \in Slot, NEW out, OutOK(out)
  PROVE  MessageOf(n, slot, out) = None \/ MsgOK(MessageOf(n, slot, out))
<1>0. PICK st, next : st = n.st /\ next = n.next[slot]
  OBVIOUS
<1> DEFINE upTo == Min2(next + MaxAppend - 1, LastId(st).index)
           x == MessageOf(n, slot, out)
<1>1. /\ CP(st) /\ next \in 1..U64Max /\ U64Max \in Nat /\ st.term \in 0..U64Max /\ LastId(st) \in LogIds /\ LastId(st).index \in Nat
      /\ st.commit \in Nat /\ Base(st).index \in Nat /\ Len(st.entries) \in Nat /\ LastId(st).index = Base(st).index + Len(st.entries)
  <2>1. CP(st) /\ next \in 1..U64Max
    BY <1>0 DEF OK, Held, Typed
  <2> QED BY <2>1, Measures, U64Assumption
<1>2. out.kind \in OutKinds
  BY DEF OutOK
<1>3. CASE out.kind = "PreVote"
  <2>1. x = [type |-> "PreVote", term |-> out.campaign, last |-> LastId(st)]
    BY <1>0, <1>3 DEF MessageOf
  <2> QED BY <1>3, <2>1 DEF MsgOK, OutOK, MessageTypes
<1>4. CASE out.kind = "PreVoted"
  <2>1. x = [type |-> "PreVoted", term |-> st.term, campaign |-> out.campaign, granted |-> out.granted]
    BY <1>0, <1>4 DEF MessageOf
  <2>2. out.campaign \in Nat
    BY <1>1, <1>4 DEF OutOK
  <2> QED BY <1>1, <1>4, <2>1, <2>2 DEF MsgOK, MessageTypes
<1>5. CASE out.kind = "Vote"
  <2>1. x = [type |-> "Vote", term |-> st.term, last |-> LastId(st)]
    BY <1>0, <1>5 DEF MessageOf
  <2> QED BY <1>1, <2>1 DEF MsgOK, MessageTypes
<1>6. CASE out.kind = "Voted"
  <2>1. x = [type |-> "Voted", term |-> st.term, granted |-> out.granted]
    BY <1>0, <1>6 DEF MessageOf
  <2> QED BY <1>1, <2>1 DEF MsgOK, MessageTypes
<1>7. CASE out.kind = "Replicated"
  <2>1. x = [type |-> "Replicated", term |-> st.term, index |-> out.index, rejection |-> out.rejection]
    BY <1>0, <1>7 DEF MessageOf
  <2> QED BY <1>1, <1>7, <2>1 DEF MsgOK, MessageTypes, OutOK
<1>8. CASE out.kind = "Replicate" /\ NeedsSnapshot(st, next)
  <2>1. x = IF st.snapshot = None THEN None ELSE [type |-> "Install", term |-> st.term, snapshot |-> st.snapshot]
    BY <1>0, <1>8 DEF MessageOf
  <2>2. st.snapshot # None => st.snapshot \in Snapshots
    BY <1>1, Fields6 DEF CP
  <2> QED BY <1>1, <2>1, <2>2 DEF MsgOK, MessageTypes
<1>9. CASE out.kind = "Replicate" /\ ~NeedsSnapshot(st, next) /\ IdAt(st, next - 1) = None
  <2>1. x = None
    BY <1>0, <1>9 DEF MessageOf
  <2> QED BY <2>1
<1>10. CASE out.kind = "Replicate" /\ ~NeedsSnapshot(st, next) /\ IdAt(st, next - 1) # None
  <2> DEFINE es == [k \in 1..(upTo - next + 1) |-> Get(st, next + k - 1)]
  <2>1. x = IF n.hooks /\ next < U64Max /\ Get(st, next + 1) # None
             THEN [type |-> "AppendBatch", term |-> st.term, commit |-> st.commit,
                   previous |-> IdAt(st, next - 1), entries |-> es]
             ELSE [type |-> "Append", term |-> st.term, commit |-> st.commit,
                   previous |-> IdAt(st, next - 1), entry |-> Get(st, next)]
    BY <1>0, <1>10 DEF MessageOf
  <2>2. next \in Nat /\ next > Base(st).index /\ next - 1 \in Nat
    BY <1>1, <1>10 DEF NeedsSnapshot
  <2>3. IdAt(st, next - 1) \in LogIds
    <3>1. PICK p : p = next - 1
      OBVIOUS
    <3>2. p \in Base(st).index..Base(st).index + Len(st.entries)
      BY <1>1, <1>10, <2>2, <3>1, Retained
    <3>3. CASE p = Base(st).index
      BY <1>1, <3>1, <3>3, Retained, Fields6 DEF CP
    <3>4. CASE p # Base(st).index
      <4>1. p \in Base(st).index + 1..Base(st).index + Len(st.entries)
        BY <1>1, <3>2, <3>4
      <4> QED BY <1>1, <2>2, <3>1, <4>1, Retained
    <3> QED BY <3>3, <3>4
  <2>4. Get(st, next) \in Entries \cup {None}
    BY <1>1, <2>2, Retained
  <2>5. es \in Seq(Entries)
    <3>1. upTo \in Nat /\ upTo <= LastId(st).index
      BY <1>1, <2>2, MaxAppendAssumption DEF Min2
    <3> HIDE DEF upTo
    <3> QED BY <1>1, <2>2, <3>1, BatchTyped
  <2> HIDE DEF es
  <2>6. CASE n.hooks /\ next < U64Max /\ Get(st, next + 1) # None
    BY <1>1, <2>1, <2>3, <2>5, <2>6 DEF MsgOK, MessageTypes
  <2>7. CASE ~(n.hooks /\ next < U64Max /\ Get(st, next + 1) # None)
    BY <1>1, <2>1, <2>3, <2>4, <2>7 DEF MsgOK, MessageTypes
  <2> QED BY <2>6, <2>7
<1> QED BY <1>2, <1>3, <1>4, <1>5, <1>6, <1>7, <1>8, <1>9, <1>10 DEF OutKinds

(* What a node sends.                                                      *)
LEMMA SentTyped ==
  ASSUME NEW d, NEW n, OK(d, n), NEW env \in Outgoing(n), env.msg # None
  PROVE  MsgOK(env.msg) /\ env.from \in Id /\ env.from = n.id
<1>1. CASE \E s \in Slot : n.outbox[s] # None /\ env = [from |-> n.id, to |-> n.peers[s], msg |-> MessageOf(n, s, n.outbox[s])]
  <2>1. PICK s \in Slot : n.outbox[s] # None /\ env = [from |-> n.id, to |-> n.peers[s], msg |-> MessageOf(n, s, n.outbox[s])]
    BY <1>1
  <2>2. OutOK(n.outbox[s])
    BY <2>1 DEF OK, Typed
  <2>3. MessageOf(n, s, n.outbox[s]) = None \/ MsgOK(MessageOf(n, s, n.outbox[s]))
    BY <2>1, <2>2, MessageTyped
  <2> QED BY <2>1, <2>3 DEF OK, Typed
<1>2. CASE n.extra # None /\ env = [from |-> n.id, to |-> n.extra.to, msg |-> MessageOf(n, 1, n.extra.out)]
  <2>1. OutOK(n.extra.out) /\ 1 \in Slot
    BY <1>2, MaxAssumption DEF OK, Typed, Slot
  <2>2. MessageOf(n, 1, n.extra.out) = None \/ MsgOK(MessageOf(n, 1, n.extra.out))
    BY <2>1, MessageTyped
  <2> QED BY <1>2, <2>2 DEF OK, Typed
<1> QED BY <1>1, <1>2 DEF Outgoing

-----------------------------------------------------------------------------
(* The invariant: every checkpoint restores, every node is over its disk,  *)
(* and messages are made of what checkpoints are made of.                  *)
DInv ==
  /\ scenario \in DOMAIN Scenarios /\ DOMAIN nodes = Id /\ DOMAIN disk = Id
  /\ \A i \in Id : CP(disk[i]) /\ OK(disk[i], nodes[i])
  /\ \A env \in net : MsgOK(env.msg) /\ env.from \in Id

(* It holds at the start.                                                  *)
LEMMA DurableInit == Init => DInv
<1> SUFFICES ASSUME Init PROVE DInv
  OBVIOUS
<1>1. scenario \in DOMAIN Scenarios /\ DOMAIN nodes = Id /\ DOMAIN disk = Id /\ net = {}
  BY DEF Init
<1>2. ASSUME NEW i \in Id PROVE CP(disk[i]) /\ OK(disk[i], nodes[i])
  <2>1. disk[i] = Scenarios[scenario].disk[i]
    BY DEF Init, Bounds
  <2>2. CP(disk[i])
    BY <1>1, <2>1, DisksAssumption DEF CP
  <2>3. Bounds.genesis \in Configs
    BY <1>1, GenesisAssumption DEF Bounds
  <2>4. nodes[i] = Build(i, disk[i], Bounds.genesis, Bounds.hooks)
    BY DEF Init
  <2>5. PICK d, g, h : d = disk[i] /\ g = Bounds.genesis /\ h = Bounds.hooks
    OBVIOUS
  <2>6. OK(d, Build(i, d, g, h))
    BY <2>2, <2>3, <2>5, BuildOK
  <2> QED BY <2>2, <2>4, <2>5, <2>6
<1> QED BY <1>1, <1>2 DEF DInv

(* An operation whose result is over the disk keeps it.                    *)
LEMMA DurableAct ==
  ASSUME DInv, NEW i \in Id, NEW n, OK(disk[i], n), Act(i, n)
  PROVE  DInv'
<1> DEFINE m == IF n.dirty THEN n ELSE Drained(n)
<1>1. /\ scenario' = scenario /\ disk' = disk /\ nodes' = [nodes EXCEPT ![i] = m]
      /\ net' = IF n.dirty THEN net ELSE net \cup Sent(n)
  BY DEF Act
<1>2. OK(disk[i], m)
  BY DrainedBeside, BesideOK DEF OK
<1> HIDE DEF m
<1>3. ASSUME NEW j \in Id PROVE CP(disk'[j]) /\ OK(disk'[j], nodes'[j])
  <2>1. CASE j = i
    BY <1>1, <1>2, <2>1 DEF DInv
  <2>2. CASE j # i
    BY <1>1, <2>2 DEF DInv
  <2> QED BY <2>1, <2>2
<1>4. ASSUME NEW env \in net' PROVE MsgOK(env.msg) /\ env.from \in Id
  <2>1. CASE env \in net
    BY <2>1 DEF DInv
  <2>2. CASE env \in Sent(n)
    <3>1. env \in Outgoing(n) /\ env.msg # None
      BY <2>2 DEF Sent
    <3>2. PICK d : d = disk[i]
      OBVIOUS
    <3> QED BY <3>1, <3>2, SentTyped
  <2> QED BY <1>1, <2>1, <2>2
<1> QED BY <1>1, <1>3, <1>4 DEF DInv

(* Every step keeps it.                                                    *)
LEMMA DurableNext == DInv /\ [Next]_vars => DInv'
<1> SUFFICES ASSUME DInv, [Next]_vars PROVE DInv'
  OBVIOUS
<1>1. CASE UNCHANGED vars
  BY <1>1 DEF vars, DInv
<1>2. CASE Next
  <2>1. PICK i \in Id : \/ Timer(i) \/ Deliver(i) \/ Propose(i) \/ Compact(i) \/ GrowLog(i)
                        \/ ChangeLearners(i) \/ BeginJoint(i) \/ FinishJoint(i) \/ Save(i) \/ Crash(i)
    BY <1>2 DEF Next
  <2>2. PICK d, n : d = disk[i] /\ n = nodes[i]
    OBVIOUS
  <2>3. CP(d) /\ OK(d, n) /\ Bounds = Scenarios[scenario] /\ scenario \in DOMAIN Scenarios /\ n.membership \in Configs
    BY <2>2 DEF DInv, Bounds, OK, Typed
  <2>4. ASSUME NEW m, OK(d, m), Act(i, m) PROVE DInv'
    BY <2>2, <2>4, DurableAct
  <2>5. CASE Timer(i)
    <3>1. PICK check \in BOOLEAN, due \in BOOLEAN, ages \in BOOLEAN :
            CanTick(i, check, due, ages) /\ Act(i, Tick(nodes[i], check, due, ages))
      BY <2>5 DEF Timer
    <3>2. PICK m : m = Tick(n, check, due, ages)
      OBVIOUS
    <3>3. ~n.dirty /\ Act(i, m)
      BY <2>2, <3>1, <3>2 DEF CanTick, Available
    <3>4. OK(d, m)
      BY <2>3, <3>2, <3>3, TickOK
    <3> QED BY <2>4, <3>3, <3>4
  <2>6. CASE Deliver(i)
    <3>1. PICK env \in net : Accepts(nodes[i], env) /\ Act(i, Step(nodes[i], env))
      BY <2>6 DEF Deliver
    <3>2. PICK m : m = Step(n, env)
      OBVIOUS
    <3>3. /\ ~n.dirty /\ Valid(env.msg) /\ Act(i, m)
          /\ SlotOf(n.peers, env.from) # 0 \/ env.msg.type \in Requests
      BY <2>2, <3>1, <3>2 DEF Accepts, Available
    <3>4. MsgOK(env.msg) /\ env.from \in Id
      BY <3>1 DEF DInv
    <3>5. OK(d, m)
      BY <2>3, <3>2, <3>3, <3>4, StepOK
    <3> QED BY <2>4, <3>3, <3>5
  <2>7. CASE Propose(i)
    <3>1. PICK values \in Bounds.batches : CanAdmit(nodes[i], Len(values)) /\ Act(i, ProposeMany(nodes[i], values))
      BY <2>7 DEF Propose
    <3>2. values \in Seq(Value)
      BY <2>3, <3>1, CallersAssumption
    <3>3. values \in Seq(Proposals) /\ CanPropose(n, Len(values))
      <4>1. \A k \in 1..Len(values) : values[k] \in Proposals
        BY <3>2 DEF Proposals
      <4>2. values \in Seq(Proposals)
        BY <3>2, <4>1
      <4> QED BY <2>2, <3>1, <4>2 DEF CanAdmit
    <3>4. PICK m : m = ProposeMany(n, values)
      OBVIOUS
    <3>5. OK(d, m) /\ Act(i, m)
      BY <2>2, <2>3, <3>1, <3>3, <3>4, ProposeOK
    <3> QED BY <2>4, <3>5
  <2>8. CASE Compact(i)
    <3>1. PICK index \in 1..U64Max : CanCompact(nodes[i], index) /\ Act(i, CompactWith(nodes[i], index))
      BY <2>8 DEF Compact
    <3>2. index \in Nat /\ CanCompact(n, index)
      BY <2>2, <3>1, U64Assumption
    <3>3. PICK m : m = CompactWith(n, index)
      OBVIOUS
    <3>4. OK(d, m) /\ Act(i, m)
      BY <2>2, <2>3, <3>1, <3>2, <3>3, CompactOK
    <3> QED BY <2>4, <3>4
  <2>9. CASE ChangeLearners(i)
    <3>1. PICK learners \in Bounds.learnerSets : CanSetLearners(nodes[i], learners) /\ Act(i, SetLearners(nodes[i], learners))
      BY <2>9 DEF ChangeLearners
    <3>2. learners \in Seq(Id)
      BY <2>3, <3>1, CallersAssumption
    <3>3. CanPropose(n, 1) /\ WithLearners(n.membership, learners) # None
      BY <2>2, <3>1 DEF CanSetLearners
    <3>4. PICK w : w = WithLearners(n.membership, learners)
      OBVIOUS
    <3>5. w \in Configs
      BY <2>3, <3>2, <3>3, <3>4, WithLearnersTyped
    <3>6. <<w>> \in Seq(Proposals) /\ CanPropose(n, Len(<<w>>))
      BY <3>3, <3>5 DEF Proposals
    <3>7. PICK m : m = ProposeMany(n, <<w>>)
      OBVIOUS
    <3>8. Act(i, m)
      BY <2>2, <3>1, <3>4, <3>7 DEF SetLearners
    <3>9. OK(d, m)
      BY <2>3, <3>6, <3>7, ProposeOK
    <3> QED BY <2>4, <3>8, <3>9
  <2>10. CASE BeginJoint(i)
    <3>1. PICK target \in Bounds.targets : CanReconfigure(nodes[i], target) /\ Act(i, Reconfigure(nodes[i], target))
      BY <2>10 DEF BeginJoint
    <3>2. target \in Configs
      BY <2>3, <3>1, CallersAssumption
    <3>3. CanPropose(n, 1) /\ Joint(n.membership, target) # None
      BY <2>2, <3>1 DEF CanReconfigure
    <3>4. PICK w : w = Joint(n.membership, target)
      OBVIOUS
    <3>5. w \in Configs
      BY <2>3, <3>2, <3>3, <3>4, JointTyped
    <3>6. <<w>> \in Seq(Proposals) /\ CanPropose(n, Len(<<w>>))
      BY <3>3, <3>5 DEF Proposals
    <3>7. PICK m : m = ProposeMany(n, <<w>>)
      OBVIOUS
    <3>8. Act(i, m)
      BY <2>2, <3>1, <3>4, <3>7 DEF Reconfigure
    <3>9. OK(d, m)
      BY <2>3, <3>6, <3>7, ProposeOK
    <3> QED BY <2>4, <3>8, <3>9
  <2>11. CASE FinishJoint(i)
    <3>1. CanFinish(nodes[i]) /\ Act(i, FinishReconfiguration(nodes[i]))
      BY <2>11 DEF FinishJoint
    <3>3. CanPropose(n, 1)
      BY <2>2, <3>1 DEF CanFinish
    <3>4. PICK w : w = Finalized(n.membership)
      OBVIOUS
    <3>5. w \in Configs
      BY <2>3, <3>4, FinalizedTyped
    <3>6. <<w>> \in Seq(Proposals) /\ CanPropose(n, Len(<<w>>))
      BY <3>3, <3>5 DEF Proposals
    <3>7. PICK m : m = ProposeMany(n, <<w>>)
      OBVIOUS
    <3>8. Act(i, m)
      BY <2>2, <3>1, <3>4, <3>7 DEF FinishReconfiguration
    <3>9. OK(d, m)
      BY <2>3, <3>6, <3>7, ProposeOK
    <3> QED BY <2>4, <3>8, <3>9
  <2>12. CASE GrowLog(i)
    <3>1. PICK g \in Bounds.growth :
            /\ g.id = i /\ g.cap > nodes[i].st.cap
            /\ nodes' = [nodes EXCEPT ![i] = GrowNode(@, g.cap)]
            /\ disk' = [disk EXCEPT ![i] = Grow(@, g.cap)]
            /\ scenario' = scenario /\ net' = net
      BY <2>12 DEF GrowLog
    <3>2. g.cap \in Nat
      BY <2>3, <3>1, CallersAssumption
    <3>3. PICK c : c = g.cap
      OBVIOUS
    <3>4. CP(Grow(d, c)) /\ OK(Grow(d, c), GrowNode(n, c))
      BY <2>2, <2>3, <3>1, <3>2, <3>3, GrowOK
    <3>5. disk'[i] = Grow(d, c) /\ nodes'[i] = GrowNode(n, c) /\ DOMAIN disk' = Id /\ DOMAIN nodes' = Id
          /\ \A j \in Id \ {i} : disk'[j] = disk[j] /\ nodes'[j] = nodes[j]
      BY <2>2, <3>1, <3>3 DEF DInv
    <3>6. ASSUME NEW j \in Id PROVE CP(disk'[j]) /\ OK(disk'[j], nodes'[j])
      <4>1. CASE j = i
        BY <3>4, <3>5, <4>1
      <4>2. CASE j # i
        BY <3>5, <4>2 DEF DInv
      <4> QED BY <4>1, <4>2
    <3> QED BY <3>1, <3>5, <3>6 DEF DInv
  <2>13. CASE Save(i)
    <3>1. PICK p, w : p = Persisted(n) /\ w = ApplyWrite(d, Pending(n))
      OBVIOUS
    <3>2. /\ disk' = [disk EXCEPT ![i] = w] /\ nodes' = [nodes EXCEPT ![i] = Drained(p)]
          /\ net' = net \cup Sent(p) /\ scenario' = scenario
      BY <2>2, <2>13, <3>1 DEF Save
    <3>3. w = n.st /\ CP(w)
      BY <2>3, <3>1, Exact DEF OK, Held
    <3>4. OK(w, p)
      BY <2>3, <3>1, <3>3, PersistedOK
    <3>5. OK(w, Drained(p))
      BY <3>4, DrainedBeside, BesideOK DEF OK
    <3>6. disk'[i] = w /\ nodes'[i] = Drained(p) /\ DOMAIN disk' = Id /\ DOMAIN nodes' = Id
          /\ \A j \in Id \ {i} : disk'[j] = disk[j] /\ nodes'[j] = nodes[j]
      BY <3>2 DEF DInv
    <3>7. ASSUME NEW j \in Id PROVE CP(disk'[j]) /\ OK(disk'[j], nodes'[j])
      <4>1. CASE j = i
        BY <3>3, <3>5, <3>6, <4>1
      <4>2. CASE j # i
        BY <3>6, <4>2 DEF DInv
      <4> QED BY <4>1, <4>2
    <3>8. ASSUME NEW env \in net' PROVE MsgOK(env.msg) /\ env.from \in Id
      <4>1. CASE env \in net
        BY <4>1 DEF DInv
      <4>2. CASE env \in Sent(p)
        <5>1. env \in Outgoing(p) /\ env.msg # None
          BY <4>2 DEF Sent
        <5> QED BY <3>4, <5>1, SentTyped
      <4> QED BY <3>2, <4>1, <4>2
    <3> QED BY <3>2, <3>6, <3>7, <3>8, <2>3 DEF DInv
  <2>14. CASE Crash(i)
    <3>1. PICK m : m = Build(i, d, n.bootstrap, n.hooks)
      OBVIOUS
    <3>2. nodes' = [nodes EXCEPT ![i] = m] /\ disk' = disk /\ net' = net /\ scenario' = scenario
      BY <2>2, <2>14, <3>1 DEF Crash
    <3>3. n.bootstrap \in Configs
      BY <2>3 DEF OK, Typed
    <3>4. OK(d, m)
      BY <2>3, <3>1, <3>3, BuildOK
    <3>5. ASSUME NEW j \in Id PROVE CP(disk'[j]) /\ OK(disk'[j], nodes'[j])
      <4>1. CASE j = i
        BY <2>2, <3>2, <3>4, <4>1 DEF DInv
      <4>2. CASE j # i
        BY <3>2, <4>2 DEF DInv
      <4> QED BY <4>1, <4>2
    <3> QED BY <3>2, <3>5 DEF DInv
  <2> QED BY <2>1, <2>5, <2>6, <2>7, <2>8, <2>9, <2>10, <2>11, <2>12, <2>13, <2>14
<1> QED BY <1>1, <1>2

(* What the invariant says of disks.                                       *)
LEMMA DurableSays == DInv => SaveIsExact /\ DiskRestores
<1> SUFFICES ASSUME DInv PROVE SaveIsExact /\ DiskRestores
  OBVIOUS
<1>1. ASSUME NEW i \in Id
      PROVE  /\ nodes[i].st = IF nodes[i].dirty THEN ApplyWrite(disk[i], Pending(nodes[i])) ELSE disk[i]
             /\ Restorable(disk[i])
  <2>1. PICK d, n : d = disk[i] /\ n = nodes[i]
    OBVIOUS
  <2>2. CP(d) /\ OK(d, n)
    BY <2>1 DEF DInv
  <2>3. ApplyWrite(d, Pending(n)) = n.st
    BY <2>2, Exact DEF OK, Held
  <2> QED BY <2>1, <2>2, <2>3 DEF OK, Held, CP
<1> QED BY <1>1 DEF SaveIsExact, DiskRestores

(* In every scenario, with fixed and with changing memberships, whatever   *)
(* is lost, repeated or crashed: the incremental write of ready() brings   *)
(* the disk exactly to the state in memory, nothing is unsaved when none   *)
(* is pending, and what a crash may leave on disk passes State::restore.   *)
THEOREM SavesAreExact == Spec => [](SaveIsExact /\ DiskRestores)
BY DurableInit, DurableNext, DurableSays, PTL DEF Spec

-----------------------------------------------------------------------------
(* The whole log of a checkpoint.                                          *)

(* Where a log ends.                                                       *)
LogLast(A) == IF A = <<>> THEN Genesis ELSE A[Len(A)].id

(* The snapshot is the log through its boundary.                           *)
Whole(st) ==
  st.snapshot # None =>
    LET app == st.snapshot.app
        last == st.snapshot.last
    IN  Len(app) = last.index /\ app[last.index].id = last

(* Concatenation.                                                          *)
LEMMA Concat ==
  ASSUME NEW s \in Seq(Entries), NEW r \in Seq(Entries)
  PROVE  /\ s \o r \in Seq(Entries) /\ Len(s \o r) = Len(s) + Len(r)
         /\ \A k \in 1..Len(s) : (s \o r)[k] = s[k]
         /\ \A k \in 1..Len(r) : (s \o r)[Len(s) + k] = r[k]
<1>1. s \o r \in Seq(Entries) /\ Len(s \o r) = Len(s) + Len(r)
  OBVIOUS
<1>2. ASSUME NEW k \in 1..Len(s) PROVE (s \o r)[k] = s[k]
  OBVIOUS
<1>3. ASSUME NEW k \in 1..Len(r) PROVE (s \o r)[Len(s) + k] = r[k]
  <2>1. Len(s) + k \in 1..Len(s \o r) /\ Len(s) + k > Len(s) /\ (Len(s) + k) - Len(s) = k
    BY <1>1
  <2> QED BY <2>1
<1> QED BY <1>1, <1>2, <1>3

(* Where the entries of the whole log are.                                 *)
LEMMA Shape ==
  ASSUME NEW st, CP(st), Whole(st)
  PROVE  LET F == FullLog(st)
             b == Base(st).index
             m == Len(st.entries)
         IN  /\ F \in Seq(Entries) /\ b \in Nat /\ m \in Nat /\ Len(F) = b + m /\ LastId(st).index = Len(F)
             /\ \A k \in 1..m : F[b + k] = st.entries[k]
             /\ st.snapshot = None => b = 0
             /\ st.snapshot # None => b \in 1..b /\ \A k \in 1..b : F[k] = st.snapshot.app[k]
             /\ b # 0 => st.snapshot # None /\ F[b].id = Base(st)
<1> DEFINE b == Base(st).index
           m == Len(st.entries)
           app == IF st.snapshot = None THEN <<>> ELSE st.snapshot.app
           F == app \o st.entries
<1>1. /\ b \in Nat /\ m \in Nat /\ LastId(st).index = b + m /\ st.entries \in Seq(Entries)
      /\ st.snapshot \in Snapshots \cup {None}
  BY Measures, Fields6 DEF CP
<1>2. FullLog(st) = F
  <2>1. LastId(st).index - b = m
    BY <1>1
  <2>2. SubSeq(st.entries, 1, m) = st.entries
    BY <1>1
  <2> QED BY <2>1, <2>2 DEF FullLog, AppliedThrough
<1>3. /\ app \in Seq(Entries) /\ Len(app) = b
      /\ st.snapshot = None => b = 0
      /\ st.snapshot # None => b \in 1..b /\ Base(st) = st.snapshot.last /\ app = st.snapshot.app /\ app[b].id = Base(st)
  <2>1. CASE st.snapshot = None
    BY <2>1 DEF Base, Genesis
  <2>2. CASE st.snapshot # None
    <3>1. st.snapshot \in Snapshots /\ Base(st) = st.snapshot.last /\ b # 0
      BY <1>1, <2>2 DEF Base, CP, Restorable
    <3>2. app = st.snapshot.app /\ app \in Seq(Entries)
      BY <2>2, <3>1 DEF Snapshots
    <3>3. Len(app) = b /\ app[b].id = Base(st)
      BY <2>2, <3>1, <3>2 DEF Whole
    <3> QED BY <1>1, <2>2, <3>1, <3>2, <3>3
  <2> QED BY <2>1, <2>2
<1> HIDE DEF app, b, m
<1>4. /\ F \in Seq(Entries) /\ Len(F) = b + m /\ \A k \in 1..b : F[k] = app[k]
      /\ \A k \in 1..m : F[b + k] = st.entries[k]
  <2>1. /\ F \in Seq(Entries) /\ Len(F) = Len(app) + Len(st.entries)
        /\ \A k \in 1..Len(app) : F[k] = app[k]
        /\ \A k \in 1..Len(st.entries) : F[Len(app) + k] = st.entries[k]
    BY <1>1, <1>3, Concat
  <2> QED BY <1>3, <2>1 DEF m
<1> HIDE DEF F
<1>5. b # 0 => st.snapshot # None /\ F[b].id = Base(st)
  BY <1>1, <1>3, <1>4
<1>6. st.snapshot # None => \A k \in 1..b : F[k] = st.snapshot.app[k]
  BY <1>3, <1>4
<1> QED BY <1>1, <1>2, <1>3, <1>4, <1>5, <1>6 DEF b, m

(* What the methods of State read of the whole log.                        *)
LEMMA Reading ==
  ASSUME NEW st, CP(st), Whole(st)
  PROVE  LET F == FullLog(st)
             b == Base(st).index
         IN  /\ LastId(st) = LogLast(F)
             /\ b <= st.commit /\ st.commit <= Len(F) /\ st.commit \in Nat /\ st.term \in Nat
             /\ \A x \in Nat : b < x /\ x <= Len(F) => Get(st, x) = F[x] /\ IdAt(st, x) = F[x].id
             /\ \A x \in Nat : b <= x /\ x <= Len(F) => AppliedThrough(st, x) = SubSeq(F, 1, x)
             /\ \A x \in Nat : x > Len(F) => Get(st, x) = None
             /\ \A x \in Nat : x > Len(F) \/ x < b => IdAt(st, x) = None
             /\ \A x \in Nat : b <= x /\ x <= Len(F) /\ x # 0 => IdAt(st, x) = F[x].id
             /\ b = 0 => IdAt(st, 0) = Genesis
<1> DEFINE F == FullLog(st)
           b == Base(st).index
           m == Len(st.entries)
<1>1. /\ F \in Seq(Entries) /\ b \in Nat /\ m \in Nat /\ Len(F) = b + m /\ LastId(st).index = Len(F)
      /\ \A k \in 1..m : F[b + k] = st.entries[k]
      /\ st.snapshot = None => b = 0
      /\ st.snapshot # None => b \in 1..b /\ \A k \in 1..b : F[k] = st.snapshot.app[k]
      /\ b # 0 => st.snapshot # None /\ F[b].id = Base(st)
  BY Shape
<1>2. /\ st.entries \in Seq(Entries) /\ b <= st.commit /\ st.commit <= b + m /\ st.commit \in Nat
      /\ st.term \in Nat /\ Base(st) \in LogIds
      /\ st.snapshot \in Snapshots \cup {None}
  BY Measures, Fields6 DEF CP
<1>3. /\ \A x \in Nat : x \in b + 1..b + m =>
           /\ Get(st, x) = st.entries[x - b] /\ IdAt(st, x) = Get(st, x).id
      /\ \A x \in Nat : x \notin b + 1..b + m => Get(st, x) = None
      /\ \A x \in Nat : x \notin b..b + m => IdAt(st, x) = None
      /\ IdAt(st, b) = Base(st)
  BY Retained
<1>4. b = 0 => Base(st) = Genesis
  <2>1. b = 0 => st.snapshot = None
    BY <1>1
  <2> QED BY <2>1 DEF Base
<1>5. LastId(st) = LogLast(F)
  <2>1. CASE m = 0
    <3>1. st.entries = <<>>
      BY <1>2, <2>1
    <3>2. CASE b = 0
      BY <1>1, <1>4, <2>1, <3>1, <3>2 DEF LastId, LogLast
    <3>3. CASE b # 0
      <4>1. F # <<>> /\ Len(F) = b
        BY <1>1, <2>1, <3>3
      <4> QED BY <1>1, <3>1, <3>3, <4>1 DEF LastId, LogLast
    <3> QED BY <3>2, <3>3
  <2>2. CASE m # 0
    <3>1. st.entries # <<>> /\ F # <<>> /\ F[b + m] = st.entries[m]
      <4>1. m \in 1..m
        BY <1>1, <2>2
      <4>2. F[b + m] = st.entries[m]
        BY ONLY <1>1, <4>1
      <4>3. st.entries # <<>>
        BY <2>2
      <4>4. Len(F) # 0
        BY ONLY <1>1, <2>2
      <4>5. F # <<>>
        BY ONLY <4>4
      <4> QED BY ONLY <4>2, <4>3, <4>5
    <3> QED BY <1>1, <3>1 DEF LastId, LogLast
  <2> QED BY <2>1, <2>2
<1>6. ASSUME NEW x \in Nat, b < x, x <= Len(F) PROVE Get(st, x) = F[x] /\ IdAt(st, x) = F[x].id
  <2> DEFINE k == x - b
  <2>1. k \in 1..m /\ x = b + k /\ x \in b + 1..b + m
    BY <1>1, <1>6
  <2>2. Get(st, x) = st.entries[k] /\ IdAt(st, x) = Get(st, x).id
    BY <1>3, <2>1
  <2> HIDE DEF k
  <2>3. F[b + k] = st.entries[k]
    BY <1>1, <2>1
  <2> QED BY <2>1, <2>2, <2>3
<1>7. ASSUME NEW x \in Nat, b <= x, x <= Len(F) PROVE AppliedThrough(st, x) = SubSeq(F, 1, x)
  <2> DEFINE k == x - b
             app == IF st.snapshot = None THEN <<>> ELSE st.snapshot.app
             s == SubSeq(st.entries, 1, k)
             P == app \o s
             Q == SubSeq(F, 1, x)
  <2>1. k \in 0..m /\ x = b + k
    BY <1>1, <1>7
  <2>2. AppliedThrough(st, x) = P
    BY DEF AppliedThrough
  <2> HIDE DEF k
  <2>3. app \in Seq(Entries) /\ Len(app) = b /\ \A j \in 1..b : app[j] = F[j]
    <3>1. CASE st.snapshot = None
      BY <1>1, <3>1
    <3>2. CASE st.snapshot # None
      BY <1>1, <1>2, <3>2 DEF Whole, Snapshots, Base
    <3> QED BY <3>1, <3>2
  <2>4. s \in Seq(Entries) /\ Len(s) = k /\ \A j \in 1..k : s[j] = st.entries[j]
    BY <1>2, <2>1
  <2> HIDE DEF app, s
  <2>5. /\ P \in Seq(Entries) /\ Len(P) = b + k
        /\ \A j \in 1..b : P[j] = app[j]
        /\ \A j \in 1..k : P[b + j] = s[j]
    <3>1. /\ P \in Seq(Entries) /\ Len(P) = Len(app) + Len(s)
          /\ \A j \in 1..Len(app) : P[j] = app[j]
          /\ \A j \in 1..Len(s) : P[Len(app) + j] = s[j]
      BY <2>3, <2>4, Concat
    <3> QED BY <2>3, <2>4, <3>1
  <2>6. Q \in Seq(Entries) /\ Len(Q) = x /\ \A j \in 1..x : Q[j] = F[j]
    BY <1>1, <1>7
  <2> HIDE DEF P, Q
  <2>7. ASSUME NEW j \in 1..x PROVE P[j] = Q[j]
    <3>1. CASE j <= b
      BY <1>1, <2>3, <2>5, <2>6, <3>1
    <3>2. CASE ~(j <= b)
      <4> DEFINE h == j - b
      <4>1. h \in 1..k /\ j = b + h /\ h \in 1..m
        BY <1>1, <2>1, <3>2
      <4> HIDE DEF h
      <4>2. P[b + h] = s[h] /\ s[h] = st.entries[h] /\ F[b + h] = st.entries[h]
        BY <1>1, <2>4, <2>5, <4>1
      <4> QED BY <2>6, <4>1, <4>2
    <3> QED BY <3>1, <3>2
  <2>8. P = Q
    BY <2>1, <2>5, <2>6, <2>7
  <2> QED BY <2>2, <2>8 DEF Q
<1>8. ASSUME NEW x \in Nat, x > Len(F) \/ x < b PROVE IdAt(st, x) = None /\ (x > Len(F) => Get(st, x) = None)
  <2>1. x \notin b..b + m /\ (x > Len(F) => x \notin b + 1..b + m)
    BY <1>1, <1>8
  <2> QED BY <1>3, <2>1
<1>9. ASSUME NEW x \in Nat, b <= x, x <= Len(F), x # 0 PROVE IdAt(st, x) = F[x].id
  <2>1. CASE x = b
    BY <1>1, <1>3, <1>9, <2>1
  <2>2. CASE b < x
    BY <1>6, <1>9, <2>2
  <2> QED BY <1>1, <1>9, <2>1, <2>2
<1> HIDE DEF F, b, m
<1>10. b <= st.commit /\ st.commit <= Len(F) /\ st.commit \in Nat /\ st.term \in Nat
  BY <1>1, <1>2
<1>11. b = 0 => IdAt(st, 0) = Genesis
  BY <1>3, <1>4
<1>12. /\ LastId(st) = LogLast(F)
       /\ b <= st.commit /\ st.commit <= Len(F) /\ st.commit \in Nat /\ st.term \in Nat
       /\ \A x \in Nat : b < x /\ x <= Len(F) => Get(st, x) = F[x] /\ IdAt(st, x) = F[x].id
       /\ \A x \in Nat : b <= x /\ x <= Len(F) => AppliedThrough(st, x) = SubSeq(F, 1, x)
       /\ \A x \in Nat : x > Len(F) => Get(st, x) = None
       /\ \A x \in Nat : x > Len(F) \/ x < b => IdAt(st, x) = None
       /\ \A x \in Nat : b <= x /\ x <= Len(F) /\ x # 0 => IdAt(st, x) = F[x].id
       /\ b = 0 => IdAt(st, 0) = Genesis
  BY <1>5, <1>6, <1>7, <1>8, <1>9, <1>10, <1>11
<1> QED BY <1>12 DEF F, b

(* Holding an identity, in terms of the whole log.                         *)
LEMMA Holding ==
  ASSUME NEW st, CP(st), Whole(st), NEW id \in LogIds
  PROVE  LET F == FullLog(st)
             k == id.index
         IN  /\ k \in Nat
             /\ Holds(st, id) => Base(st).index <= k /\ k <= Len(F) /\ (k # 0 => F[k].id = id) /\ (k = 0 => id = Genesis)
             /\ ~Holds(st, id) /\ Base(st).index <= k /\ k <= Len(F) /\ k # 0 => F[k].id # id
<1> DEFINE F == FullLog(st)
           b == Base(st).index
           k == id.index
<1>1. F \in Seq(Entries) /\ b \in Nat /\ Len(F) \in Nat
  BY Shape
<1>2. k \in Nat /\ id # None
  BY U64Assumption, NothingAssumption DEF LogIds
<1>3. /\ k > Len(F) \/ k < b => IdAt(st, k) = None
      /\ b <= k /\ k <= Len(F) /\ k # 0 => IdAt(st, k) = F[k].id
      /\ b = 0 => IdAt(st, 0) = Genesis
  BY <1>2, Reading
<1>4. Holds(st, id) <=> IdAt(st, k) = id
  BY DEF Holds
<1> HIDE DEF F, b, k
<1>5. Holds(st, id) => b <= k /\ k <= Len(F)
  BY <1>1, <1>2, <1>3, <1>4
<1>6. Holds(st, id) => (k # 0 => F[k].id = id) /\ (k = 0 => id = Genesis)
  BY <1>1, <1>2, <1>3, <1>4, <1>5
<1>7. ~Holds(st, id) /\ b <= k /\ k <= Len(F) /\ k # 0 => F[k].id # id
  BY <1>3, <1>4
<1> QED BY <1>2, <1>5, <1>6, <1>7 DEF F, b, k

-----------------------------------------------------------------------------
(* How the methods of State change the whole log.                          *)

(* Nothing but the hard state or the capacity.                             *)
LEMMA LogStays ==
  ASSUME NEW st, NEW r, r.snapshot = st.snapshot, r.entries = st.entries
  PROVE  /\ FullLog(r) = FullLog(st) /\ LastId(r) = LastId(st) /\ Base(r) = Base(st)
         /\ Whole(st) => Whole(r)
<1>1. Base(r) = Base(st)
  BY DEF Base
<1>2. LastId(r) = LastId(st)
  BY <1>1 DEF LastId
<1>3. FullLog(r) = FullLog(st)
  BY <1>1, <1>2 DEF FullLog, AppliedThrough
<1>4. Whole(st) => Whole(r)
  BY DEF Whole
<1> QED BY <1>1, <1>2, <1>3, <1>4

(* A suffix is replaced.                                                   *)
LEMMA LogSuffixed ==
  ASSUME NEW st, CP(st), Whole(st), NEW k \in 0..Len(st.entries), st.commit <= Base(st).index + k,
         NEW batch \in Seq(Entries), k + Len(batch) <= st.cap, Follows1(st, k, batch)
  PROVE  LET r == Suffixed(st, k, batch)
             F == FullLog(st)
             G == FullLog(r)
             p == Base(st).index + k
         IN  /\ CP(r) /\ Whole(r) /\ r.term = st.term /\ r.commit = st.commit /\ r.vote = st.vote
             /\ G \in Seq(Entries) /\ p \in Nat /\ p <= Len(F) /\ Len(G) = p + Len(batch)
             /\ \A j \in 1..p : G[j] = F[j]
             /\ \A j \in 1..Len(batch) : G[p + j] = batch[j]
<1>0. PICK r : r = Suffixed(st, k, batch)
  OBVIOUS
<1> DEFINE F == FullLog(st)
           G == FullLog(r)
           b == Base(st).index
           p == b + k
           m == Len(st.entries)
<1>1. /\ CP(r) /\ r.term = st.term /\ r.vote = st.vote /\ r.commit = st.commit
      /\ r.snapshot = st.snapshot /\ Base(r) = Base(st) /\ Len(r.entries) = k + Len(batch)
      /\ \A j \in 1..k : r.entries[j] = st.entries[j]
      /\ \A j \in 1..Len(batch) : r.entries[k + j] = batch[j]
  BY <1>0, Extended
<1>2. Whole(r)
  BY <1>1 DEF Whole
<1>3. /\ F \in Seq(Entries) /\ b \in Nat /\ m \in Nat /\ Len(F) = b + m
      /\ \A j \in 1..m : F[b + j] = st.entries[j]
      /\ st.snapshot = None => b = 0
      /\ st.snapshot # None => \A j \in 1..b : F[j] = st.snapshot.app[j]
  BY Shape
<1>4. /\ G \in Seq(Entries) /\ Len(G) = b + (k + Len(batch))
      /\ \A j \in 1..k + Len(batch) : G[b + j] = r.entries[j]
      /\ st.snapshot # None => \A j \in 1..b : G[j] = st.snapshot.app[j]
  BY <1>1, <1>2, Shape
<1>5. k \in Nat /\ k <= m /\ Len(batch) \in Nat
  BY <1>3
<1> HIDE DEF F, G, b, m
<1>6. ASSUME NEW j \in 1..p PROVE G[j] = F[j]
  <2>1. CASE j <= b
    <3>1. st.snapshot # None /\ j \in 1..b
      BY <1>3, <1>5, <2>1
    <3> QED BY <1>3, <1>4, <3>1
  <2>2. CASE ~(j <= b)
    <3> DEFINE h == j - b
    <3>1. h \in 1..k /\ h \in 1..m /\ h \in 1..k + Len(batch) /\ j = b + h
      BY <1>3, <1>5, <2>2
    <3> HIDE DEF h
    <3>2. G[b + h] = r.entries[h] /\ r.entries[h] = st.entries[h] /\ F[b + h] = st.entries[h]
      BY <1>1, <1>3, <1>4, <3>1
    <3> QED BY <3>1, <3>2
  <2> QED BY <2>1, <2>2
<1>7. ASSUME NEW j \in 1..Len(batch) PROVE G[p + j] = batch[j]
  <2>1. k + j \in 1..k + Len(batch) /\ p + j = b + (k + j)
    BY <1>3, <1>5
  <2> HIDE DEF p
  <2>2. G[b + (k + j)] = r.entries[k + j] /\ r.entries[k + j] = batch[j]
    BY <1>1, <1>4, <2>1
  <2> QED BY <2>1, <2>2
<1>8. p \in Nat /\ p <= Len(F) /\ Len(G) = p + Len(batch)
  BY <1>3, <1>4, <1>5
<1> QED BY <1>0, <1>1, <1>2, <1>4, <1>6, <1>7, <1>8 DEF F, G, b

(* A snapshot replaces what is before its boundary, and what is after it   *)
(* unless the log has the boundary.                                        *)
LEMMA LogInstalled ==
  ASSUME NEW st, CP(st), Whole(st), NEW sn, Fits(st, sn),
         Len(sn.app) = sn.last.index, sn.app[sn.last.index].id = sn.last
  PROVE  LET r == Install(st, sn)
             F == FullLog(st)
             G == FullLog(r)
             k == sn.last.index
         IN  /\ CP(r) /\ Whole(r) /\ r.term = st.term /\ r.commit = Max2(st.commit, k) /\ r.vote = st.vote
             /\ G \in Seq(Entries) /\ k \in 1..Len(G)
             /\ \A j \in 1..k : G[j] = sn.app[j]
             /\ Holds(st, sn.last) => Len(G) = Len(F) /\ \A j \in 1..Len(F) : j > k => G[j] = F[j]
             /\ ~Holds(st, sn.last) => Len(G) = k
<1>0. PICK r : r = Install(st, sn)
  OBVIOUS
<1> DEFINE F == FullLog(st)
           G == FullLog(r)
           k == sn.last.index
           b == Base(st).index
<1>1. /\ CP(r) /\ r.term = st.term /\ r.vote = st.vote /\ r.commit = Max2(st.commit, k)
      /\ r.snapshot = sn /\ Base(r) = sn.last
      /\ Holds(st, sn.last) => /\ LastId(r).index = LastId(st).index /\ k <= LastId(st).index
                               /\ \A x \in Nat : x > k => Get(r, x) = Get(st, x)
      /\ ~Holds(st, sn.last) => LastId(r) = sn.last
  BY <1>0, Installed DEF Fits
<1>2. sn # None /\ sn \in Snapshots /\ k > b
  BY NothingAssumption DEF Fits
<1>3. Whole(r)
  BY <1>1 DEF Whole
<1>4. F \in Seq(Entries) /\ b \in Nat /\ Len(F) \in Nat /\ LastId(st).index = Len(F)
  BY Shape
<1>5. /\ G \in Seq(Entries) /\ k \in Nat /\ Len(G) \in Nat /\ LastId(r).index = Len(G) /\ k <= Len(G)
      /\ \A j \in 1..k : G[j] = sn.app[j]
  BY <1>1, <1>2, <1>3, Shape
<1>6. ASSUME Holds(st, sn.last) PROVE Len(G) = Len(F) /\ \A j \in 1..Len(F) : j > k => G[j] = F[j]
  <2>1. Len(G) = Len(F)
    BY <1>1, <1>4, <1>5, <1>6
  <2>2. ASSUME NEW j \in 1..Len(F), j > k PROVE G[j] = F[j]
    <3>1. j \in Nat /\ b < j /\ j <= Len(F) /\ j <= Len(G) /\ j > k
      BY <1>2, <1>4, <1>5, <2>1, <2>2
    <3>2. Get(st, j) = F[j]
      BY <3>1, Reading
    <3>3. Get(r, j) = G[j]
      BY <1>1, <1>3, <3>1, Reading
    <3> QED BY <1>1, <1>6, <3>1, <3>2, <3>3
  <2> QED BY <2>1, <2>2
<1>7. ~Holds(st, sn.last) => Len(G) = k
  BY <1>1, <1>5
<1>8. k \in 1..Len(G)
  BY <1>2, <1>4, <1>5
<1> QED BY <1>0, <1>1, <1>3, <1>5, <1>6, <1>7, <1>8 DEF F, G, k
=============================================================================
