------------------------------- MODULE Levels -------------------------------
(***************************************************************************)
(* What a price level promises the book: a queue, and the quantity and the *)
(* number of orders in it.  backend/limitx/engine/price_level.py keeps the *)
(* queue as a doubly linked list; module PriceLevel shows that the list is *)
(* this queue.                                                             *)
(***************************************************************************)
EXTENDS Integers, Sequences, SequencesExt

EmptyLevel == [fifo |-> << >>, total |-> 0, count |-> 0]

(* Mutant: a newcomer goes to the front.                                   *)
EnqueueFront(level, id, quantity) ==
  [fifo |-> <<id>> \o level.fifo, total |-> level.total + quantity,
   count |-> level.count + 1]

Enqueue(level, id, quantity) ==
  [fifo |-> Append(level.fifo, id), total |-> level.total + quantity,
   count |-> level.count + 1]

(* Mutant: the cached quantity is not reduced.                             *)
DequeueKeepingTotal(level, i, quantity) ==
  [fifo |-> RemoveAt(level.fifo, i), total |-> level.total,
   count |-> level.count - 1]

Dequeue(level, i, quantity) ==
  [fifo |-> RemoveAt(level.fifo, i), total |-> level.total - quantity,
   count |-> level.count - 1]
=============================================================================
