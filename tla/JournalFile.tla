---------------------------- MODULE JournalFile -----------------------------
(***************************************************************************)
(* The JSONL file of a journal: what EventJournal.export writes and what   *)
(* EventJournal.load makes of a file, line by line                         *)
(* (backend/limitx/replay/journal.py).  What an entry and a checksum are is *)
(* the caller's.                                                           *)
(***************************************************************************)
EXTENDS Naturals, Sequences, SequencesExt

Header == [record |-> "header"]
Entry(n, entry) == [record |-> "entry", command_sequence |-> n, entry |-> entry]
Footer(checksums) == [record |-> "footer", checksums |-> checksums]
Torn == [record |-> "torn"]   \* a line that is not JSON

(* export.                                                                 *)
Exported(entries, checksums) ==
  <<Header>> \o [n \in DOMAIN entries |-> Entry(n, entries[n])] \o <<Footer(checksums)>>

-----------------------------------------------------------------------------
(* load: what is known after each line.                                    *)

Unread == [opened |-> FALSE, valid |-> TRUE, entries |-> << >>, checksums |-> {}]

Invalid(journal) == [journal EXCEPT !.valid = FALSE]

LoadHeader(journal) ==
  IF journal.opened THEN Invalid(journal) ELSE [journal EXCEPT !.opened = TRUE]

LoadEntry(journal, line) ==
  IF journal.opened /\ line.command_sequence = Len(journal.entries) + 1
  THEN [journal EXCEPT !.entries = Append(@, line.entry)]
  ELSE Invalid(journal)

(* Mutant: the checksums of the footer are not kept.                       *)
SkipFooter(journal, line) == IF journal.opened THEN journal ELSE Invalid(journal)

LoadFooter(journal, line) ==
  IF journal.opened THEN [journal EXCEPT !.checksums = line.checksums] ELSE Invalid(journal)

LoadLine(journal, line) ==
  CASE ~journal.valid -> journal
    [] journal.valid /\ line.record = "header" -> LoadHeader(journal)
    [] journal.valid /\ line.record = "entry" -> LoadEntry(journal, line)
    [] journal.valid /\ line.record = "footer" -> LoadFooter(journal, line)
    [] OTHER -> Invalid(journal)

Load(file) ==
  LET journal == FoldLeft(LoadLine, Unread, file)
  IN [journal EXCEPT !.valid = @ /\ journal.opened]

-----------------------------------------------------------------------------
(* What can become of a file: a write that was cut short, a line that is
   missing, there twice, or in the other order with its neighbour.         *)

Cut(file) == {SubSeq(file, 1, n) : n \in 0 .. Len(file)}

TornOff(file) == {Append(part, Torn) : part \in Cut(file) \ {file}}

Missing(file) == {RemoveAt(file, i) : i \in DOMAIN file}

Repeated(file) == {InsertAt(file, i, file[i]) : i \in DOMAIN file}

Swapped(file) ==
  {[file EXCEPT ![i] = file[i + 1], ![i + 1] = file[i]] : i \in 1 .. Len(file) - 1}

Damaged(file) ==
  Cut(file) \cup TornOff(file) \cup Missing(file) \cup Repeated(file) \cup Swapped(file)
=============================================================================
