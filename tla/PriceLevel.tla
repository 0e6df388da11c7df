----------------------------- MODULE PriceLevel -----------------------------
(***************************************************************************)
(* backend/limitx/engine/price_level.py and linked_orders.py: the levels   *)
(* of a book as doubly linked lists of nodes.  An action is a call of the  *)
(* class with what its caller in order_book.py does to the order in the    *)
(* same step.  A call the class refuses (ValueError) changes nothing and   *)
(* is no action; its guard is the condition of the refusal.                *)
(*                                                                         *)
(* A node that was removed has no links and no level, like a new one, so   *)
(* it may stand for the new node the book makes each time an order rests.  *)
(***************************************************************************)
EXTENDS Levels, FiniteSetsExt

CONSTANTS
  Nodes,        \* the order nodes
  PriceLevels,  \* the levels
  Quantities,   \* the remaining quantities of the orders
  NoNode,       \* None as a link
  NoLevel       \* None as the level of a node

ASSUME NodesAssumption == IsFiniteSet(Nodes) /\ NoNode \notin Nodes
ASSUME PriceLevelsAssumption == NoLevel \notin PriceLevels
ASSUME QuantitiesAssumption == Quantities \subseteq Nat \ {0}

VARIABLES
  head, tail,        \* of each level
  order_count, total_quantity,
  next, previous,    \* of each node
  level,             \* the level a node belongs to
  remaining          \* what is left of its order

links == <<head, tail, order_count, next, previous, level>>
levelVars == <<links, total_quantity, remaining>>

-----------------------------------------------------------------------------
AppendNode(l, n, q) ==
  /\ level[n] = NoLevel
  /\ level' = [level EXCEPT ![n] = l]
  /\ previous' = [previous EXCEPT ![n] = tail[l]]
  /\ next' = [m \in Nodes |-> IF m = n THEN NoNode
                              ELSE IF m = tail[l] THEN n ELSE next[m]]
  /\ head' = [head EXCEPT ![l] = IF tail[l] = NoNode THEN n ELSE @]
  /\ tail' = [tail EXCEPT ![l] = n]
  /\ order_count' = [order_count EXCEPT ![l] = @ + 1]
  /\ remaining' = [remaining EXCEPT ![n] = q]
  /\ total_quantity' = [total_quantity EXCEPT ![l] = @ + q]

(* Mutant: a level whose last node goes keeps it as its tail.              *)
TailKept(l, n) == tail[l]

TailWithout(l, n) == IF next[n] = NoNode THEN previous[n] ELSE tail[l]

(* Mutant: the node behind the one that goes still points to it.           *)
PreviousKept(n) == [previous EXCEPT ![n] = NoNode]

PreviousWithout(n) ==
  [m \in Nodes |-> IF m = n THEN NoNode
                   ELSE IF m = next[n] THEN previous[n] ELSE previous[m]]

(* Mutant: the node before the one that goes becomes the last.             *)
NextCut(n) ==
  [m \in Nodes |-> IF m = n \/ m = previous[n] THEN NoNode ELSE next[m]]

NextWithout(n) ==
  [m \in Nodes |-> IF m = n THEN NoNode
                   ELSE IF m = previous[n] THEN next[n] ELSE next[m]]

RemoveNode(l, n) ==
  /\ level[n] = l
  /\ head' = [head EXCEPT ![l] = IF previous[n] = NoNode THEN next[n] ELSE @]
  /\ tail' = [tail EXCEPT ![l] = TailWithout(l, n)]
  /\ next' = NextWithout(n)
  /\ previous' = PreviousWithout(n)
  /\ level' = [level EXCEPT ![n] = NoLevel]
  /\ order_count' = [order_count EXCEPT ![l] = @ - 1]
  /\ total_quantity' = [total_quantity EXCEPT ![l] = @ - remaining[n]]
  /\ UNCHANGED remaining

(* Mutant: the level takes the new quantity for the difference.            *)
QuantityAdded(q, old) == q

Difference(q, old) == q - old

(* Mutant: consume does not look at what is left of the order.             *)
ConsumableOnLevel(l, n, q) == level[n] = l

Consumable(l, n, q) == level[n] = l /\ q <= remaining[n]

(* consume, and the trade takes the quantity from the maker's order.       *)
Consume(l, n, q) ==
  /\ Consumable(l, n, q)
  /\ total_quantity' = [total_quantity EXCEPT ![l] = @ - q]
  /\ remaining' = [remaining EXCEPT ![n] = @ - q]
  /\ UNCHANGED links

(* modify without loss of priority.                                        *)
Resize(l, n, q) ==
  /\ level[n] = l
  /\ total_quantity' = [total_quantity EXCEPT ![l] = @ + Difference(q, remaining[n])]
  /\ remaining' = [remaining EXCEPT ![n] = q]
  /\ UNCHANGED links

LevelInit ==
  /\ head = [l \in PriceLevels |-> NoNode]
  /\ tail = [l \in PriceLevels |-> NoNode]
  /\ order_count = [l \in PriceLevels |-> 0]
  /\ total_quantity = [l \in PriceLevels |-> 0]
  /\ next = [n \in Nodes |-> NoNode]
  /\ previous = [n \in Nodes |-> NoNode]
  /\ level = [n \in Nodes |-> NoLevel]
  /\ remaining = [n \in Nodes |-> 0]

LevelNext ==
  \E l \in PriceLevels, n \in Nodes :
    \/ RemoveNode(l, n)
    \/ \E q \in Quantities : AppendNode(l, n, q) \/ Consume(l, n, q) \/ Resize(l, n, q)

LevelSpec == LevelInit /\ [][LevelNext]_levelVars

-----------------------------------------------------------------------------
(* What must hold.                                                         *)

(* The nodes of a level in the order __iter__ yields them.  One step more
   than there are nodes is taken, which is too many unless the list loops. *)
Walk(l) ==
  LET nth[k \in 1 .. Cardinality(Nodes) + 1] ==
        IF k = 1 THEN head[l]
        ELSE IF nth[k - 1] = NoNode THEN NoNode ELSE next[nth[k - 1]]
      met == {k \in 1 .. Cardinality(Nodes) + 1 : nth[k] # NoNode}
  IN [k \in 1 .. Cardinality(met) |-> nth[k]]

AsLevel(l) == [fifo |-> Walk(l), total |-> total_quantity[l], count |-> order_count[l]]

LevelTypeOK ==
  /\ head \in [PriceLevels -> Nodes \cup {NoNode}]
  /\ tail \in [PriceLevels -> Nodes \cup {NoNode}]
  /\ order_count \in [PriceLevels -> Int]
  /\ total_quantity \in [PriceLevels -> Int]
  /\ next \in [Nodes -> Nodes \cup {NoNode}]
  /\ previous \in [Nodes -> Nodes \cup {NoNode}]
  /\ level \in [Nodes -> PriceLevels \cup {NoLevel}]
  /\ remaining \in [Nodes -> Nat]

(* Links are reciprocal and stay inside a level, a detached node has none,
   and a level knows it is empty by its count exactly when it has neither
   head nor tail: the matcher takes the head of every level in the index.  *)
LinksReciprocal ==
  /\ \A n \in Nodes :
       /\ next[n] # NoNode => previous[next[n]] = n /\ level[next[n]] = level[n]
       /\ previous[n] # NoNode => next[previous[n]] = n /\ level[previous[n]] = level[n]
       /\ level[n] = NoLevel => next[n] = NoNode /\ previous[n] = NoNode
       /\ level[n] # NoLevel =>
            /\ next[n] = NoNode <=> n = tail[level[n]]
            /\ previous[n] = NoNode <=> n = head[level[n]]
  /\ \A l \in PriceLevels :
       /\ head[l] = NoNode <=> order_count[l] = 0
       /\ tail[l] = NoNode <=> order_count[l] = 0
       /\ head[l] # NoNode => level[head[l]] = l /\ level[tail[l]] = l

(* The aggregates of a level are those of the orders a walk meets, and the
   walk meets every node of the level.                                     *)
AggregatesExact ==
  \A l \in PriceLevels :
    /\ ToSet(Walk(l)) = {n \in Nodes : level[n] = l}
    /\ order_count[l] = Len(Walk(l))
    /\ total_quantity[l] = MapThenSumSet(LAMBDA n : remaining[n], ToSet(Walk(l)))

(* The queue the book sees: joining at the back, leaving from any place with
   the others in order, or another quantity.                               *)
LevelStep(l) ==
  \/ AsLevel(l)' = AsLevel(l)
  \/ \E n \in Nodes : AsLevel(l)' = Enqueue(AsLevel(l), n, remaining'[n])
  \/ \E i \in DOMAIN Walk(l) :
       AsLevel(l)' = Dequeue(AsLevel(l), i, remaining[Walk(l)[i]])
  \/ /\ \E n \in Nodes : level[n] = l /\ remaining'[n] # remaining[n]
     /\ AsLevel(l)' = [AsLevel(l) EXCEPT !.total = total_quantity'[l]]

(* Every call does to each list what module Levels says of the queue, and to
   no more than one.                                                       *)
ImplementsLevels ==
  [][\E l \in PriceLevels :
       LevelStep(l) /\ \A k \in PriceLevels \ {l} : AsLevel(k)' = AsLevel(k)]_levelVars
=============================================================================
