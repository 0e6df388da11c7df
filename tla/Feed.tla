-------------------------------- MODULE Feed --------------------------------
(***************************************************************************)
(* The messages of backend/limitx/market_data/projector.py and how they    *)
(* get into a subscriber's queue.                                          *)
(*                                                                         *)
(* A depth - everything a book shows - is named by its edition, a number   *)
(* that grows with every command that updates the book and never returns,  *)
(* not even when the sequence starts again at a reset.                     *)
(***************************************************************************)
EXTENDS Naturals, Sequences, FiniteSetsExt, SequencesExt

CONSTANT Capacity    \* subscriber_capacity

ASSUME CapacityAssumption == Capacity \in Nat \ {0}

Trade == [type : {"trade"}, sequence : Nat]

Delta == [type : {"book_delta"}, sequence : Nat, previous_sequence : Nat, depth : Nat]

Snapshot == [type : {"book_snapshot"}, sequence : Nat, depth : Nat]

Message == Trade \cup Delta \cup Snapshot

(* The kinds of the events of one command: trades, book updates, and those
   that only take a number.                                                *)
EventKind == {"trade", "book_delta", "other"}

Updates(kinds) == {k \in DOMAIN kinds : kinds[k] = "book_delta"}

(* What project() has done so far: the number it has come to, the projector's
   last_depth_sequence, the depth of the book, and the messages.           *)
ProjectEvent(p, kind) ==
  LET number == p.sequence + 1
      trade == [type |-> "trade", sequence |-> number]
      delta == [type |-> "book_delta", sequence |-> number,
                previous_sequence |-> p.last, depth |-> p.depth]
  IN [sequence |-> number,
      last |-> IF kind = "book_delta" THEN number ELSE p.last,
      depth |-> p.depth,
      messages |-> CASE kind = "trade" -> Append(p.messages, trade)
                     [] kind = "book_delta" -> Append(p.messages, delta)
                     [] kind = "other" -> p.messages]

(* project(): it runs after the command, so a delta shows the book as the
   command left it.                                                        *)
Project(kinds, number, last, edition) ==
  FoldLeft(ProjectEvent,
           [sequence |-> number, last |-> last, depth |-> edition, messages |-> << >>],
           kinds)

(* Mutant: a message that finds the queue full is lost.                    *)
Shed(queue, message, snapshot) ==
  IF Len(queue) >= Capacity THEN queue ELSE Append(queue, message)

(* Mutant: the queue is found full one message too late.                   *)
OfferedLate(queue, message, snapshot) ==
  IF Len(queue) > Capacity THEN <<snapshot>> ELSE Append(queue, message)

(* publish() for one subscriber.                                           *)
Offered(queue, message, snapshot) ==
  IF Len(queue) >= Capacity THEN <<snapshot>> ELSE Append(queue, message)

Published(queue, messages, snapshot) ==
  FoldLeft(LAMBDA q, m : Offered(q, m, snapshot), queue, messages)
=============================================================================
