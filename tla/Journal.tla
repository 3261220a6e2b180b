------------------------------ MODULE Journal ------------------------------
(***************************************************************************)
(* The example journals of jarl/examples/support and the storage worker of *)
(* jarl/examples/async_storage.rs under host::persist_async: a node whose  *)
(* writes become checksummed frames at the end of a file, through a thread *)
(* that outlives the future waiting for it.                                *)
(*                                                                         *)
(* The file is a sequence of units, one per word of a payload.  A length   *)
(* and a checksum take two units each, so that either can be torn.         *)
(***************************************************************************)
EXTENDS LogState
LOCAL INSTANCE SequencesExt

CONSTANTS
  Cap,       \* CAP: entries a log retains
  MaxTerm,   \* bound: terms the node reaches
  Data,      \* bound: commands
  Scenarios  \* what each scenario starts from, and its bounds: bytes, the file on
             \* the medium; maxIndex, the indices the node reaches; maxFile, the
             \* length beyond which the host submits nothing; rotten, the fields
             \* of a frame the medium may spoil while the file is closed

ASSUME JournalAssumption == /\ {Cap, MaxTerm} \subseteq Nat \ {0} /\ Data \subseteq Nat
                            /\ \A s \in DOMAIN Scenarios :
                                 /\ {Scenarios[s].maxIndex, Scenarios[s].maxFile} \subseteq Nat \ {0}
                                 /\ Scenarios[s].rotten \subseteq {"len", "body", "sum"}

VARIABLES
  scenario, \* the scenario of this behaviour, never changed
  file,    \* the contents the operating system shows
  spoilt,  \* whether the medium has spoilt a unit
  synced,  \* units of it known to survive a crash
  jr,      \* the open Journal: whether it holds the file, state and failed
  queue,   \* the channel to the storage worker: at most one job
  job,     \* the job the worker is at, with its stage, or None
  comp,    \* the Completion of the live future: result and registered waker
  call,    \* the future: None, "polling" or "parked"
  token,   \* the park token of the host's thread
  linked,  \* whether the host holds the sender of the worker
  up,      \* whether the host runs
  node,    \* its checkpoint with the pending write; kept as history when down
  acked    \* history: the checkpoint last acknowledged or recovered

vars == <<scenario, file, spoilt, synced, jr, queue, job, comp, call, token, linked, up, node, acked>>
Bounds == Scenarios[scenario]
disk == <<file, spoilt, synced>>
worker == <<jr, queue, job>>
future == <<comp, call, token>>
host == <<linked, up, node, acked>>

-----------------------------------------------------------------------------
(* Frames: the words of a transaction between a length and a checksum.     *)

Words(field, values) == [k \in DOMAIN values |-> [field |-> field, value |-> values[k]]]
Header == Words("header", <<0, 0>>)

Flag(x) == IF x = None THEN <<0>> ELSE <<1>>
NoVote == U64Max

(* encode: the hard state, then each optional part behind a flag, then the *)
(* entries behind their count.  A barrier's value is written as 0.         *)
Encode(w) ==
  LET vote     == IF w.vote = None THEN NoVote ELSE w.vote
      snapshot == IF w.snapshot = None THEN <<>>
                  ELSE <<w.snapshot.last.index, w.snapshot.last.term, w.snapshot.value>>
      from     == IF w.truncateFrom = None THEN <<>> ELSE <<w.truncateFrom>>
      entry(e) == <<e.id.index, e.id.term>> \o Flag(e.value) \o
                  <<IF e.value = None THEN 0 ELSE e.value>>
  IN  <<w.term, vote, w.commit>> \o Flag(w.snapshot) \o snapshot
        \o Flag(w.truncateFrom) \o from \o <<Len(w.entries)>>
        \o FlattenSeq([k \in DOMAIN w.entries |-> entry(w.entries[k])])

(* The reading half of apply: the words in the same order, every flag,     *)
(* the vote and the count checked, nothing left over.                      *)
Decode(words) ==
  LET truncate == 5 + 3 * words[4]
      count    == truncate + 1 + words[truncate]
      entry(k) == LET o == count + 4 * (k - 1)
                  IN  [id |-> LogId(words[o + 1], words[o + 2]),
                       value |-> IF words[o + 3] = 1 THEN words[o + 4] ELSE None]
      valid == /\ Len(words) >= 5 /\ words[4] \in {0, 1}
               /\ words[2] \in 0..2 \cup {NoVote}
               /\ Len(words) > truncate /\ words[truncate] \in {0, 1}
               /\ Len(words) >= count /\ words[count] <= Cap
               /\ Len(words) = count + 4 * words[count]
               /\ \A k \in 1..words[count] : words[count + 4 * k - 1] \in {0, 1}
  IN  IF ~valid THEN None
      ELSE [term |-> words[1], vote |-> IF words[2] = NoVote THEN None ELSE words[2],
            commit |-> words[3],
            snapshot |-> IF words[4] = 0 THEN None
                         ELSE [last |-> LogId(words[5], words[6]), value |-> words[7]],
            truncateFrom |-> IF words[truncate] = 0 THEN None ELSE words[truncate + 1],
            entries |-> [k \in 1..words[count] |-> entry(k)]]

(* apply: the checkpoint a payload leads to, None when it is refused.      *)
Apply(saved, words) ==
  LET w    == Decode(words)
      next == ApplyWrite(saved, w)
  IN  IF w = None \/ ~Restorable(next) THEN None ELSE next

MaxFrame == 10 + 4 * Cap   \* words of a frame with every optional part

(* A length and a checksum take two units each, so that both can be torn.  *)
(* The checksum stands for the words it was computed from: no collisions.  *)
Frame(words) ==
  Words("len", <<Len(words), Len(words)>>) \o Words("body", words) \o Words("sum", <<words, words>>)

(* Fault: the checksum is not compared.                                    *)
AnySum(payload, stored) == TRUE

SumMatches(payload, stored) == stored = payload

(* One turn of open's loop: fewer units than a length, or than the length  *)
(* announces, are a torn tail.                                             *)
ReadFrame(bytes, at) ==
  LET rest    == Len(bytes) - at.offset
      len     == bytes[at.offset + 1].value
      last    == at.offset + 2 + len + 2
      payload == [k \in 1..len |-> bytes[at.offset + 2 + k].value]
      next    == Apply(at.state, payload)
      whole   == bytes[last].field = "sum" /\ \A k \in 1..len : bytes[at.offset + 2 + k].field = "body"
  IN  IF rest < 2 THEN [at EXCEPT !.status = "end"]
      ELSE IF len = 0 \/ len > MaxFrame THEN [at EXCEPT !.status = "invalid"]
      ELSE IF last > Len(bytes) THEN [at EXCEPT !.status = "end"]
      ELSE IF whole /\ SumMatches(payload, bytes[last].value) /\ next # None
           THEN [at EXCEPT !.offset = last, !.state = next]
           ELSE [at EXCEPT !.status = "invalid"]

(* What open makes of a file: the checkpoint, the end of the last whole    *)
(* frame, or "invalid".  The smallest frame takes ten units.               *)
Recover(bytes) ==
  LET start == [offset |-> Len(Header), state |-> NewState(Cap),
                status |-> IF IsPrefix(Header, bytes) THEN "more" ELSE "invalid"]
      turns == Len(bytes) \div 10 + 1
      after[k \in 0..turns] ==
        IF k = 0 THEN start
        ELSE LET at == after[k - 1]
             IN  IF at.status = "more" THEN ReadFrame(bytes, at) ELSE at
  IN  after[turns]

-----------------------------------------------------------------------------
(* The node, as far as its writes go: each operation changes the           *)
(* checkpoint and says since when the log and whether the snapshot differ. *)

Idle(st) == [st |-> st, dirty |-> FALSE, logFrom |-> None, snapChanged |-> FALSE]
PendingWrite(n) == Write(n.st, n.logFrom, n.snapChanged)

Entries(from, to, term, value) ==
  [k \in 1..(to - from + 1) |-> [id |-> LogId(from + k - 1, term), value |-> value]]

(* A greater term, met in a message or campaigned for.                     *)
NewTerm(st) ==
  {[Idle([st EXCEPT !.term = @ + 1, !.vote = v]) EXCEPT !.dirty = TRUE] :
     v \in IF st.term = MaxTerm THEN {} ELSE {0, None}}

(* An append in the current term from an index above the commit index,     *)
(* replacing only entries of earlier terms.                                *)
Appended(st) ==
  {[st |-> [Truncate(st, r[1]) EXCEPT !.entries = @ \o Entries(r[1], r[2], st.term, r[3])],
    dirty |-> TRUE, logFrom |-> r[1], snapChanged |-> FALSE] :
     r \in {x \in (1..Bounds.maxIndex) \X (1..Bounds.maxIndex) \X (Data \cup {None}) :
              /\ st.term > 0 /\ x[1] <= x[2]
              /\ x[1] \in st.commit + 1 .. LastId(st).index + 1
              /\ x[2] - Base(st).index <= Cap
              /\ Get(st, x[1]) # None => Get(st, x[1]).id.term < st.term}}

CommittedTo(st) ==
  {[Idle([st EXCEPT !.commit = c]) EXCEPT !.dirty = TRUE] :
     c \in st.commit + 1 .. LastId(st).index}

(* compact; a leader without an entry of its term that now has room adds   *)
(* its barrier to the same write.                                          *)
Compacted(st) ==
  LET cut(c) == Install(st, [last |-> IdAt(st, c), value |-> c])
      last   == LastId(st).index
  IN  {[Idle(cut(c)) EXCEPT !.dirty = TRUE, !.snapChanged = TRUE] :
         c \in Base(st).index + 1 .. st.commit} \cup
      {[st |-> Push(cut(c), [id |-> LogId(last + 1, st.term), value |-> None]),
        dirty |-> TRUE, logFrom |-> last + 1, snapChanged |-> TRUE] :
         c \in IF LastId(st).term = st.term \/ last = Bounds.maxIndex THEN {}
               ELSE Base(st).index + 1 .. st.commit}

(* A leader's snapshot from beyond the end of the log.                     *)
Installed(st) ==
  {[st |-> Install(st, [last |-> LogId(c, st.term), value |-> c]),
    dirty |-> TRUE, logFrom |-> c + 1, snapChanged |-> TRUE] :
     c \in IF st.term = 0 THEN {} ELSE LastId(st).index + 1 .. Bounds.maxIndex}

(* A file on the medium, nobody running.                                   *)
Init ==
  /\ scenario \in DOMAIN Scenarios
  /\ file = Bounds.bytes /\ spoilt = FALSE /\ synced = Len(file)
  /\ jr = [open |-> FALSE, state |-> NewState(Cap), failed |-> FALSE]
  /\ queue = <<>> /\ job = None
  /\ comp = [result |-> None, waker |-> FALSE] /\ call = None /\ token = FALSE
  /\ linked = FALSE /\ up = FALSE
  /\ acked = Recover(file).state /\ node = Idle(acked)

(* One operation; a node with a pending write admits none.                 *)
Operate ==
  /\ up /\ ~node.dirty
  /\ node' \in NewTerm(node.st) \cup Appended(node.st) \cup CommittedTo(node.st)
                 \cup Compacted(node.st) \cup Installed(node.st)
  /\ UNCHANGED <<scenario, disk, worker, future, linked, up, acked>>

(* open of an empty file writes the header first.                          *)
Create ==
  /\ ~jr.open /\ file = <<>>
  /\ file' = Header
  /\ UNCHANGED <<scenario, spoilt, synced, worker, future, host>>

(* open: only when nobody holds the lock.  The torn tail is cut off and    *)
(* the file synced; a new host restores its node from the checkpoint, one  *)
(* that only reopens its storage keeps its node and the pending write.     *)
Open ==
  LET found == Recover(file)
  IN  /\ ~jr.open /\ file # <<>> /\ found.status # "invalid"
      /\ file' = SubSeq(file, 1, found.offset)
      /\ synced' = found.offset
      /\ jr' = [open |-> TRUE, state |-> found.state, failed |-> FALSE]
      /\ linked' = TRUE /\ up' = TRUE
      /\ node' = IF up THEN node ELSE Idle(found.state)
      /\ acked' = IF up THEN acked ELSE found.state
      /\ UNCHANGED <<scenario, spoilt, queue, job, future>>

(* Fault: the channel has no bound.                                        *)
SubmitMore ==
  /\ up /\ linked /\ node.dirty /\ call = None
  /\ Len(queue) < 3 /\ Len(file) <= Bounds.maxFile
  /\ queue' = Append(queue, [words |-> Encode(PendingWrite(node)), live |-> TRUE])
  /\ call' = "polling"
  /\ comp' = [result |-> None, waker |-> FALSE]
  /\ UNCHANGED <<scenario, disk, jr, job, token, host>>

(* The worker's save: encode and try_send, refused when the channel holds  *)
(* a job already.                                                          *)
Submit ==
  /\ up /\ linked /\ node.dirty /\ call = None
  /\ queue = <<>> /\ Len(file) <= Bounds.maxFile
  /\ queue' = <<[words |-> Encode(PendingWrite(node)), live |-> TRUE]>>
  /\ call' = "polling"
  /\ comp' = [result |-> None, waker |-> FALSE]
  /\ UNCHANGED <<scenario, disk, jr, job, token, host>>

(* poll and, once there is a result, the rest of persist_async: only a     *)
(* success acknowledges the write.                                         *)
Poll ==
  /\ call = "polling"
  /\ IF comp.result = None
     THEN comp' = [comp EXCEPT !.waker = TRUE] /\ call' = "parked" /\ UNCHANGED <<node, acked>>
     ELSE /\ call' = None /\ comp' = [result |-> None, waker |-> FALSE]
          /\ node' = IF comp.result = "ok" THEN Idle(node.st) ELSE node
          /\ acked' = IF comp.result = "ok" THEN node.st ELSE acked
  /\ UNCHANGED <<scenario, disk, worker, token, linked, up>>

(* park returns for a token, or for no reason.                             *)
Unpark ==
  /\ call = "parked" /\ token
  /\ call' = "polling" /\ token' = FALSE
  /\ UNCHANGED <<scenario, disk, worker, comp, host>>

Spurious ==
  /\ call = "parked"
  /\ call' = "polling"
  /\ UNCHANGED <<scenario, disk, worker, comp, token, host>>

Orphan(j) == IF j = None THEN None ELSE [j EXCEPT !.live = FALSE]

(* The future is dropped: the write stays pending in the node, and its job *)
(* goes on in the background.                                              *)
Cancel ==
  /\ call # None
  /\ call' = None /\ comp' = [result |-> None, waker |-> FALSE]
  /\ job' = Orphan(job)
  /\ queue' = [k \in DOMAIN queue |-> Orphan(queue[k])]
  /\ UNCHANGED <<scenario, disk, jr, token, host>>

(* close drops the sender; join is the wait for Exit.                      *)
Close ==
  /\ linked /\ call = None
  /\ linked' = FALSE
  /\ UNCHANGED <<scenario, disk, worker, future, up, node, acked>>

-----------------------------------------------------------------------------
(* The worker thread.                                                      *)

(* Fault: a failed append is forgotten.                                    *)
StillUsable ==
  /\ job = None /\ queue # <<>>
  /\ LET state == Apply(jr.state, Head(queue).words)
         good  == state # None
     IN  /\ job' = [words |-> Head(queue).words, live |-> Head(queue).live, state |-> state,
                    stage |-> IF good THEN "write" ELSE "done", result |-> "err"]
         /\ UNCHANGED jr
  /\ queue' = Tail(queue)
  /\ UNCHANGED <<scenario, disk, future, host>>

(* recv and the checks of save: failed is set before the file is touched.  *)
Take ==
  /\ job = None /\ queue # <<>>
  /\ LET state == Apply(jr.state, Head(queue).words)
         good  == ~jr.failed /\ state # None
     IN  /\ job' = [words |-> Head(queue).words, live |-> Head(queue).live, state |-> state,
                    stage |-> IF good THEN "write" ELSE "done", result |-> "err"]
         /\ jr' = [jr EXCEPT !.failed = @ \/ good]
  /\ queue' = Tail(queue)
  /\ UNCHANGED <<scenario, disk, future, host>>

WriteAll ==
  /\ job # None /\ job.stage = "write"
  /\ file' = file \o Frame(job.words)
  /\ job' = [job EXCEPT !.stage = "sync"]
  /\ UNCHANGED <<scenario, spoilt, synced, jr, queue, future, host>>

WriteFails ==
  /\ job # None /\ job.stage = "write"
  /\ \E k \in 0..Len(Frame(job.words)) - 1 : file' = file \o SubSeq(Frame(job.words), 1, k)
  /\ job' = [job EXCEPT !.stage = "done"]
  /\ UNCHANGED <<scenario, spoilt, synced, jr, queue, future, host>>

(* Fault: success is reported before the data is on the medium.            *)
NoSync ==
  /\ job # None /\ job.stage = "sync"
  /\ jr' = [jr EXCEPT !.state = job.state, !.failed = FALSE]
  /\ job' = [job EXCEPT !.stage = "done", !.result = "ok"]
  /\ UNCHANGED <<scenario, disk, queue, future, host>>

Sync ==
  /\ job # None /\ job.stage = "sync"
  /\ synced' = Len(file)
  /\ jr' = [jr EXCEPT !.state = job.state, !.failed = FALSE]
  /\ job' = [job EXCEPT !.stage = "done", !.result = "ok"]
  /\ UNCHANGED <<scenario, file, spoilt, queue, future, host>>

SyncFails ==
  /\ job # None /\ job.stage = "sync"
  /\ job' = [job EXCEPT !.stage = "done"]
  /\ UNCHANGED <<scenario, disk, jr, queue, future, host>>

(* Fault: the result is left for the next poll, which nobody causes.       *)
WakeLost ==
  /\ job # None /\ job.stage = "done"
  /\ job' = None
  /\ comp' = IF job.live THEN [result |-> job.result, waker |-> FALSE] ELSE comp
  /\ token' = token
  /\ UNCHANGED <<scenario, disk, jr, queue, call, host>>

(* The result and the waker change hands under the completion's lock.      *)
Finish ==
  /\ job # None /\ job.stage = "done"
  /\ job' = None
  /\ comp' = IF job.live THEN [result |-> job.result, waker |-> FALSE] ELSE comp
  /\ token' = (token \/ (job.live /\ comp.waker))
  /\ UNCHANGED <<scenario, disk, jr, queue, call, host>>

(* recv fails once the sender is gone and the channel empty; the thread    *)
(* ends and its journal with the lock.                                     *)
Exit ==
  /\ jr.open /\ ~linked /\ queue = <<>> /\ job = None
  /\ jr' = [jr EXCEPT !.open = FALSE]
  /\ UNCHANGED <<scenario, disk, queue, job, future, host>>

-----------------------------------------------------------------------------
(* The machine fails: of what is not synced any prefix remains.            *)
Images == {SubSeq(file, 1, k) : k \in synced..Len(file)}

Crash ==
  /\ jr.open \/ file # <<>>
  /\ \E bytes \in Images : file' = bytes /\ synced' = Len(bytes)
  /\ jr' = [jr EXCEPT !.open = FALSE] /\ queue' = <<>> /\ job' = None
  /\ comp' = [result |-> None, waker |-> FALSE] /\ call' = None /\ token' = FALSE
  /\ linked' = FALSE /\ up' = FALSE
  /\ UNCHANGED <<scenario, spoilt, node, acked>>

(* The medium spoils a unit of a closed file.                              *)
Spoil(unit, len) ==
  CASE unit.field = "len" -> [unit EXCEPT !.value = len]
    [] unit.field = "body" -> [unit EXCEPT !.value = @ + 1]
    [] OTHER -> [unit EXCEPT !.value = <<>>]

Rot ==
  /\ ~jr.open /\ ~up /\ ~spoilt /\ spoilt' = TRUE
  /\ \E k \in DOMAIN file, len \in 1..MaxFrame :
       /\ file[k].field \in Bounds.rotten /\ Spoil(file[k], len) # file[k]
       /\ file' = [file EXCEPT ![k] = Spoil(@, len)]
  /\ UNCHANGED <<scenario, synced, worker, future, host>>

Work == Take \/ WriteAll \/ WriteFails \/ Sync \/ SyncFails \/ Finish
Next == \/ Operate \/ Create \/ Open \/ Submit \/ Poll \/ Unpark \/ Spurious \/ Cancel \/ Close
        \/ Work \/ Exit \/ Crash \/ Rot

Spec == Init /\ [][Next]_vars

(* The system schedules both threads: the worker goes on with its job and  *)
(* the host's executor polls what was woken.                               *)
FairSpec == Spec /\ WF_vars(Work) /\ WF_vars(Poll) /\ WF_vars(Unpark)

-----------------------------------------------------------------------------
(* Properties.                                                             *)

(* Every part of the state keeps its type; the channel holds one job.      *)
TypeOK ==
  /\ synced \in 0..Len(file) /\ Len(queue) <= 1
  /\ call \in {None, "polling", "parked"} /\ {token, linked, up, jr.open, jr.failed} \subseteq BOOLEAN

(* Whatever prefix of the unsynced tail a crash leaves, once the header is *)
(* whole open succeeds and finds the checkpoint last acknowledged, or that *)
(* with exactly the one write that was under way: torn frames are cut off, *)
(* no failed write is followed by another, no cancelled write lands behind *)
(* a later one (open, save, Worker::save).                                 *)
OldOrNew ==
  \A bytes \in Images :
    Len(bytes) >= Len(Header) /\ ~spoilt
      => LET found == Recover(bytes)
         IN  found.status = "end" /\ found.state \in {acked, node.st}

(* The checkpoint a journal keeps in memory, against which it validates    *)
(* the next frame, is the one a reader of its file would rebuild.          *)
MirrorsFile ==
  jr.open /\ ~jr.failed => Recover(file).state = jr.state

(* A journal is recoverable at every moment: a crash leaves old or new,    *)
(* and what is appended next fits what is in the file (open, save).        *)
Recoverable == TypeOK /\ OldOrNew /\ MirrorsFile

(* No host starts from a file that lost an acknowledged write: damage to a *)
(* payload or a checksum is refused ("rejects corruption").  Damage to a   *)
(* length is not: open takes the frame for a torn tail (journal.rs:165),   *)
(* and a medium that spoils lengths violates this property.                *)
NothingLost == [][~jr.open /\ jr'.open => jr'.state \in {acked, node.st}]_vars

(* A host that waits for a save is answered: the waker registered by poll  *)
(* and the result set by the worker cannot miss one another.               *)
SaveAnswered == (call # None) ~> (call = None)
=============================================================================
