------------------------------ MODULE LogState ------------------------------
(***************************************************************************)
(* jarl/src/state.rs and the transaction view of jarl/src/ready.rs: the    *)
(* bounded checkpoint of one node (hard state, snapshot, retained log) and *)
(* the incremental write that a host makes durable.                        *)
(***************************************************************************)
EXTENDS Common

CONSTANT U64Max    \* largest u64: the value at which checked_add fails

ASSUME U64Assumption == U64Max \in Nat \ {0}

SaturatingSucc(x) == Min2(x + 1, U64Max)

Genesis == [index |-> 0, term |-> 0]                  \* LogId::default()
LogId(index, term) == [index |-> index, term |-> term]

(* Mutant: every candidate's log is good enough.                           *)
AnyLog(last, ours) == TRUE

(* (last.term, last.index) >= (ours.term, ours.index): Rust's tuple order. *)
UpToDate(last, ours) == \/ last.term > ours.term
                        \/ last.term = ours.term /\ last.index >= ours.index

(* State::new.  The hard state is the fields term, vote and commit.        *)
NewState(cap) == [term |-> 0, vote |-> None, commit |-> 0,
                  snapshot |-> None, entries |-> <<>>, cap |-> cap]

Base(st) == IF st.snapshot = None THEN Genesis ELSE st.snapshot.last

LastId(st) == IF st.entries = <<>> THEN Base(st) ELSE st.entries[Len(st.entries)].id

(* get: entries are found by their offset from the snapshot boundary.      *)
Get(st, index) ==
  LET offset == index - Base(st).index
  IN  IF offset \in 1..Len(st.entries) THEN st.entries[offset] ELSE None

IdAt(st, index) ==
  IF index = Base(st).index THEN Base(st)
  ELSE IF Get(st, index) = None THEN None ELSE Get(st, index).id

IsFull(st) == Len(st.entries) = st.cap

(* push; every caller has checked the capacity first.                      *)
Push(st, entry) == [st EXCEPT !.entries = Append(@, entry)]

(* truncate: pop while the last index is at or above from.                 *)
Truncate(st, from) ==
  LET stays == {k \in 0..Len(st.entries) : k = 0 \/ st.entries[k].id.index < from}
      keep  == CHOOSE k \in stays : \A j \in stays : j <= k
  IN  [st EXCEPT !.entries = SubSeq(@, 1, keep)]

(* Mutant: the commit index stays behind the boundary.                     *)
InstallOnly(st, snapshot) ==
  LET remove == snapshot.last.index - Base(st).index
  IN  [st EXCEPT !.entries = IF IdAt(st, snapshot.last.index) = snapshot.last
                             THEN SubSeq(@, remove + 1, Len(@)) ELSE <<>>,
                 !.snapshot = snapshot]

(* install: keep the suffix behind a matching boundary, else drop the log. *)
Install(st, snapshot) ==
  LET remove == snapshot.last.index - Base(st).index
  IN  [st EXCEPT
        !.entries  = IF IdAt(st, snapshot.last.index) = snapshot.last
                     THEN SubSeq(@, remove + 1, Len(@)) ELSE <<>>,
        !.commit   = Max2(@, snapshot.last.index),
        !.snapshot = snapshot]

(* restore: the checkpoints it accepts.                                    *)
Restorable(st) ==
  LET previous(k) == IF k = 1 THEN Base(st) ELSE st.entries[k - 1].id
  IN  /\ st.snapshot # None => Base(st).index # 0 /\ Base(st).term # 0
      /\ Base(st).term <= st.term
      /\ st.term = 0 => st.vote = None
      /\ \A k \in 1..Len(st.entries) :
           LET id == st.entries[k].id
           IN  /\ id.index = previous(k).index + 1
               /\ id.index <= U64Max
               /\ id.term # 0
               /\ id.term >= previous(k).term
               /\ id.term <= st.term
      /\ Len(st.entries) <= st.cap
      /\ st.commit >= Base(st).index
      /\ st.commit <= LastId(st).index

(* write: what changed since the last acknowledged save.  from is the      *)
(* start of the replaced suffix, or None.                                  *)
Write(st, from, snapshotChanged) ==
  LET offset == Min2(Max2(from - Base(st).index - 1, 0), Len(st.entries))
  IN  [term |-> st.term, vote |-> st.vote, commit |-> st.commit,
       snapshot |-> IF snapshotChanged THEN st.snapshot ELSE None,
       truncateFrom |-> from,
       entries |-> IF from = None THEN <<>>
                   ELSE SubSeq(st.entries, offset + 1, Len(st.entries))]

(* grow: a larger buffer, everything else moved.                           *)
Grow(st, cap) == [st EXCEPT !.cap = cap]

(* The host's side of a transaction, in the order ready.rs prescribes and  *)
(* the example journals follow: replace the snapshot and discard through   *)
(* its boundary, truncate, append, replace the hard state.                 *)
ApplyWrite(disk, w) ==
  LET snapshot == IF w.snapshot = None THEN disk.snapshot ELSE w.snapshot
      base     == IF snapshot = None THEN 0 ELSE snapshot.last.index
      stays(e) == e.id.index > base /\ (w.truncateFrom # None => e.id.index < w.truncateFrom)
      kept[k \in 0..Len(disk.entries)] ==
        IF k = 0 THEN <<>>
        ELSE IF stays(disk.entries[k]) THEN Append(kept[k - 1], disk.entries[k])
        ELSE kept[k - 1]
  IN  [term |-> w.term, vote |-> w.vote, commit |-> w.commit, snapshot |-> snapshot,
       entries |-> kept[Len(disk.entries)] \o w.entries, cap |-> disk.cap]
=============================================================================
