----------------------------- MODULE MCJournal -----------------------------
(* Instances of Journal for TLC.                                           *)
EXTENDS Journal
LOCAL INSTANCE SequencesExt

(* A journal of four writes: term 1 with a vote, a full log in it, the     *)
(* first entry committed, term 2.                                          *)
Hard(term, vote, commit) ==
  [term |-> term, vote |-> vote, commit |-> commit, snapshot |-> None,
   truncateFrom |-> None, entries |-> <<>>]
Writes == <<Hard(1, 0, 0),
            [Hard(1, 0, 0) EXCEPT !.truncateFrom = 1, !.entries = Entries(1, 2, 1, None)],
            Hard(1, 0, 1),
            Hard(2, None, 1)>>
LivedIn == Header \o FlattenSeq([k \in DOMAIN Writes |-> Frame(Encode(Writes[k]))])

(* A journal that has lived for a while, with two more writes; a new one,  *)
(* with two writes, whose medium spoils a unit while it is closed.         *)
Journals ==
  [lived_in |-> [bytes |-> LivedIn, maxIndex |-> 3, maxFile |-> 61, rotten |-> {}],
   rotten   |-> [bytes |-> <<>>, maxIndex |-> 1, maxFile |-> 12, rotten |-> {"body", "sum"}]]

(* The same new journal on a medium that spoils a length instead.          *)
SpoiltLengths == [length |-> [Journals.rotten EXCEPT !.rotten = {"len"}]]
=============================================================================
