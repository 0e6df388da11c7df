-------------------------- MODULE OrderBookProofs ---------------------------
(***************************************************************************)
(* The invariants of OrderBook, for every set of ids, accounts, prices and *)
(* requests and under both self-trade policies; and, from its inductive    *)
(* invariant, what trades, finished orders and quantities satisfy.         *)
(***************************************************************************)
EXTENDS OrderBook, DataLemmas

(* What the operators of OrderBook do, for the proofs about it: changing an
   order, and moving an order into or out of the book, stated of arbitrary
   books so that a step can be taken in halves.                            *)

(* What the record operators do to an order, field by field.  A submission
   makes an order with everything still to do.                             *)
LEMMA NewOrderFacts ==
  ASSUME NEW r \in Request, NEW status \in OrderStatus, NEW n \in Nat
  PROVE  /\ NewOrder(r, status, n) \in Order
         /\ NewOrder(r, status, n) # NoOrder
         /\ NewOrder(r, status, n).side = r.side
         /\ NewOrder(r, status, n).type = r.type
         /\ NewOrder(r, status, n).tif = r.tif
         /\ NewOrder(r, status, n).price = r.price
         /\ NewOrder(r, status, n).account = r.account
         /\ NewOrder(r, status, n).quantity = r.quantity
         /\ NewOrder(r, status, n).remaining = r.quantity
         /\ NewOrder(r, status, n).filled = 0
         /\ NewOrder(r, status, n).status = status
         /\ NewOrder(r, status, n).priority = n
<1>1. NewOrder(r, status, n) \in Order
  BY DEF NewOrder, Request, Order
<1> QED
  BY <1>1, SentinelsAssumption DEF NewOrder

(* A fill moves quantity from remaining to filled and sets the status; the
   maker and taker updates of _execute_accepted do it for both sides.      *)
LEMMA FilledFacts ==
  ASSUME NEW o \in Order, NEW q \in Nat, q <= o.remaining
  PROVE  /\ Filled(o, q) \in Order
         /\ Filled(o, q) # NoOrder
         /\ Filled(o, q).side = o.side
         /\ Filled(o, q).type = o.type
         /\ Filled(o, q).tif = o.tif
         /\ Filled(o, q).price = o.price
         /\ Filled(o, q).account = o.account
         /\ Filled(o, q).quantity = o.quantity
         /\ Filled(o, q).remaining = o.remaining - q
         /\ Filled(o, q).filled = o.filled + q
         /\ Filled(o, q).status = IF o.remaining = q THEN "FILLED" ELSE "PARTIALLY_FILLED"
         /\ Filled(o, q).priority = o.priority
<1>0. o.remaining - q \in Nat /\ o.filled + q \in Nat
  BY DEF Order
<1>1. Filled(o, q) \in Order
  BY <1>0 DEF Filled, Order, OrderStatus
<1> QED
  BY <1>1, SentinelsAssumption DEF Filled, Order

(* A cancellation changes the status of an order and nothing else.         *)
LEMMA WithStatusFacts ==
  ASSUME NEW o \in Order, NEW status \in OrderStatus
  PROVE  /\ [o EXCEPT !.status = status] \in Order
         /\ [o EXCEPT !.status = status] # NoOrder
         /\ [o EXCEPT !.status = status].side = o.side
         /\ [o EXCEPT !.status = status].type = o.type
         /\ [o EXCEPT !.status = status].tif = o.tif
         /\ [o EXCEPT !.status = status].price = o.price
         /\ [o EXCEPT !.status = status].account = o.account
         /\ [o EXCEPT !.status = status].quantity = o.quantity
         /\ [o EXCEPT !.status = status].remaining = o.remaining
         /\ [o EXCEPT !.status = status].filled = o.filled
         /\ [o EXCEPT !.status = status].status = status
         /\ [o EXCEPT !.status = status].priority = o.priority
<1>1. [o EXCEPT !.status = status] \in Order
  BY DEF Order
<1> QED
  BY <1>1, SentinelsAssumption DEF Order

(* A modification to more than is filled leaves something to do and keeps
   the rest of the order.                                                  *)
LEMMA ResizedFacts ==
  ASSUME NEW o \in Order, NEW q \in Nat, q > o.filled
  PROVE  /\ Resized(o, q) \in Order
         /\ Resized(o, q) # NoOrder
         /\ Resized(o, q).side = o.side
         /\ Resized(o, q).type = o.type
         /\ Resized(o, q).tif = o.tif
         /\ Resized(o, q).price = o.price
         /\ Resized(o, q).account = o.account
         /\ Resized(o, q).quantity = q
         /\ Resized(o, q).remaining = q - o.filled
         /\ Resized(o, q).filled = o.filled
         /\ Resized(o, q).status = o.status
         /\ Resized(o, q).priority = o.priority
<1>0. q - o.filled \in Nat
  BY DEF Order
<1>1. Resized(o, q) \in Order
  BY <1>0 DEF Resized, Order
<1> QED
  BY <1>1, SentinelsAssumption DEF Resized, Order

(* A modification that loses priority also takes a new price, a new
   priority and an open status.                                            *)
LEMMA RequeuedFacts ==
  ASSUME NEW o \in Order, NEW q \in Nat, q > o.filled,
         NEW p \in Prices \cup {NoPrice}, NEW n \in Nat
  PROVE  /\ Requeued(o, q, p, n) \in Order
         /\ Requeued(o, q, p, n) # NoOrder
         /\ Requeued(o, q, p, n).side = o.side
         /\ Requeued(o, q, p, n).type = o.type
         /\ Requeued(o, q, p, n).tif = o.tif
         /\ Requeued(o, q, p, n).price = p
         /\ Requeued(o, q, p, n).account = o.account
         /\ Requeued(o, q, p, n).quantity = q
         /\ Requeued(o, q, p, n).remaining = q - o.filled
         /\ Requeued(o, q, p, n).filled = o.filled
         /\ Requeued(o, q, p, n).status \in {"ACCEPTED", "PARTIALLY_FILLED"}
         /\ Requeued(o, q, p, n).priority = n
<1> DEFINE status == IF o.filled > 0 THEN "PARTIALLY_FILLED" ELSE "ACCEPTED"
<1>1. /\ Resized(o, q) \in Order
      /\ Resized(o, q).side = o.side
      /\ Resized(o, q).type = o.type
      /\ Resized(o, q).tif = o.tif
      /\ Resized(o, q).account = o.account
      /\ Resized(o, q).quantity = q
      /\ Resized(o, q).remaining = q - o.filled
      /\ Resized(o, q).filled = o.filled
  BY ResizedFacts
<1>2. status \in {"ACCEPTED", "PARTIALLY_FILLED"}
  OBVIOUS
<1>3. Requeued(o, q, p, n) =
        [Resized(o, q) EXCEPT !.price = p, !.priority = n, !.status = status]
  BY DEF Requeued
<1> HIDE DEF status
<1>4. Requeued(o, q, p, n) \in Order
  BY <1>1, <1>2, <1>3 DEF Order, OrderStatus
<1>5. Requeued(o, q, p, n).price = p /\ Requeued(o, q, p, n).priority = n
      /\ Requeued(o, q, p, n).status = status
  BY <1>1, <1>3 DEF Order
<1> QED
  BY <1>1, <1>2, <1>3, <1>4, <1>5, SentinelsAssumption DEF Order

-----------------------------------------------------------------------------
(* The shape of the book, as a predicate of the four values it relates, so
   that a step can be taken in two halves: first the levels change, then the
   orders.                                                                 *)
Level == [fifo : Seq(OrderIds), total : Int, count : Int]

Books == [Side -> [Prices -> Level]]

Orders == [OrderIds -> Order \cup {NoOrder}]

Queued(bk, lv, ord) ==
  \A s \in Side, p \in Prices : \A i \in DOMAIN bk[s][p].fifo :
    /\ bk[s][p].fifo[i] \in lv
    /\ ord[bk[s][p].fifo[i]].side = s
    /\ ord[bk[s][p].fifo[i]].price = p

Held(bk, lv, ord) ==
  \A id \in lv :
    /\ ord[id] # NoOrder
    /\ ord[id].price \in Prices
    /\ \E i \in DOMAIN bk[ord[id].side][ord[id].price].fifo :
         bk[ord[id].side][ord[id].price].fifo[i] = id

Indexed(bk, ix) ==
  \A s \in Side, p \in Prices :
    /\ p \in ix[s] <=> bk[s][p].fifo # << >>
    /\ bk[s][p].count = Len(bk[s][p].fifo)

Ranked(bk, ord) ==
  \A s \in Side, p \in Prices : \A i, j \in DOMAIN bk[s][p].fifo :
    i < j => ord[bk[s][p].fifo[i]].priority < ord[bk[s][p].fifo[j]].priority

Placed(bk, ix, lv, ord) ==
  Queued(bk, lv, ord) /\ Held(bk, lv, ord) /\ Indexed(bk, ix) /\ Ranked(bk, ord)

(* The consistency of the book, as a predicate of the four values.         *)
LEMMA BookConsistentIsPlaced ==
  BookConsistent <=> Placed(book, index, live_orders, orders)
  BY DEF BookConsistent, QueuedOrdersAreLive, LiveOrdersAreQueued, LevelsAreIndexed,
         FifoByPriority, Fifo, LevelOf, Known, Placed, Queued, Held, Indexed, Ranked

(* Orders may change as long as those in the book keep side, price and
   priority.                                                               *)
LEMMA SamePlaces ==
  ASSUME NEW bk \in Books, NEW ix, NEW lv \in SUBSET OrderIds,
         NEW ord \in Orders, NEW ord2 \in Orders,
         Placed(bk, ix, lv, ord),
         \A x \in lv : /\ ord2[x] # NoOrder
                       /\ ord2[x].side = ord[x].side
                       /\ ord2[x].price = ord[x].price
                       /\ ord2[x].priority = ord[x].priority
  PROVE  Placed(bk, ix, lv, ord2)
<1>1. Queued(bk, lv, ord2)
  BY DEF Placed, Queued
<1>2. Held(bk, lv, ord2)
  BY DEF Placed, Held
<1>3. Ranked(bk, ord2)
  BY DEF Placed, Queued, Ranked
<1> QED
  BY <1>1, <1>2, <1>3 DEF Placed

(* A level's cached quantity may change.                                   *)
LEMMA SameQueues ==
  ASSUME NEW bk \in Books, NEW bk2 \in Books, NEW ix, NEW lv \in SUBSET OrderIds,
         NEW ord \in Orders, Placed(bk, ix, lv, ord),
         \A s \in Side, p \in Prices : /\ bk2[s][p].fifo = bk[s][p].fifo
                                      /\ bk2[s][p].count = bk[s][p].count
  PROVE  Placed(bk2, ix, lv, ord)
<1>1. Queued(bk2, lv, ord)
  BY DEF Placed, Queued
<1>2. \A id \in lv : ord[id].side \in Side /\ ord[id].price \in Prices
  BY DEF Placed, Held, Orders, Order
<1>3. Held(bk2, lv, ord)
  BY <1>2 DEF Placed, Held
<1>4. Indexed(bk2, ix)
  BY DEF Placed, Indexed
<1>5. Ranked(bk2, ord)
  BY DEF Placed, Ranked
<1> QED
  BY <1>1, <1>3, <1>4, <1>5 DEF Placed

(* No level but the one of side s0 and price p0 changes.                   *)
SameElsewhere(bk, bk2, ix, ix2, s0, p0) ==
  \A s \in Side, p \in Prices :
    s # s0 \/ p # p0 => bk2[s][p] = bk[s][p] /\ (p \in ix2[s] <=> p \in ix[s])

(* An order may leave the book from any place of its level.                *)
LEMMA UnlinkPlaced ==
  ASSUME NEW bk \in Books, NEW bk2 \in Books,
         NEW ix \in [Side -> SUBSET Prices], NEW ix2 \in [Side -> SUBSET Prices],
         NEW lv \in SUBSET OrderIds, NEW ord \in Orders,
         Placed(bk, ix, lv, ord),
         NEW s0 \in Side, NEW p0 \in Prices, NEW i0 \in DOMAIN bk[s0][p0].fifo,
         bk2[s0][p0].fifo = RemoveAt(bk[s0][p0].fifo, i0),
         bk2[s0][p0].count = bk[s0][p0].count - 1,
         SameElsewhere(bk, bk2, ix, ix2, s0, p0),
         p0 \in ix2[s0] <=> p0 \in ix[s0] /\ bk2[s0][p0].count # 0
  PROVE  Placed(bk2, ix2, lv \ {bk[s0][p0].fifo[i0]}, ord)
<1> USE DEF SameElsewhere
<1> DEFINE f  == bk[s0][p0].fifo
           g  == bk2[s0][p0].fifo
           id == f[i0]
<1>1. f \in Seq(OrderIds) /\ g \in Seq(OrderIds) /\ Len(f) \in Nat /\ i0 \in 1 .. Len(f)
      /\ DOMAIN f = 1 .. Len(f) /\ DOMAIN g = 1 .. Len(g)
  BY DEF Books, Level
<1>2. Len(g) = Len(f) - 1
      /\ \A j \in 1 .. Len(f) - 1 : g[j] = IF j < i0 THEN f[j] ELSE f[j + 1]
  <2>1. g = RemoveAt(f, i0)
    OBVIOUS
  <2> HIDE DEF f, g
  <2>2. i0 \in DOMAIN f
    BY <1>1
  <2> QED
    BY <1>1, <2>1, <2>2, RemoveAtFacts
<1>3. id \in lv /\ ord[id].side = s0 /\ ord[id].price = p0
  BY DEF Placed, Queued
<1>4. \A j \in DOMAIN f : ord[f[j]].priority \in Nat
  <2> TAKE j \in DOMAIN f
  <2>1. f[j] \in lv
    BY DEF Placed, Queued
  <2>2. ord[f[j]] \in Order
    BY <2>1 DEF Placed, Held, Orders
  <2> QED
    BY <2>2 DEF Order
<1>5. \A j \in DOMAIN f : j # i0 => f[j] # id
  <2> SUFFICES ASSUME NEW j \in DOMAIN f, j # i0, f[j] = id
               PROVE  FALSE
    OBVIOUS
  <2>1. j < i0 \/ i0 < j
    BY <1>1
  <2>2. ord[f[j]].priority < ord[f[i0]].priority \/ ord[f[i0]].priority < ord[f[j]].priority
    BY <2>1 DEF Placed, Ranked
  <2> QED
    BY <1>4, <2>2
<1>6. \A j \in DOMAIN g : \E k \in DOMAIN f : k # i0 /\ g[j] = f[k]
  <2> TAKE j \in DOMAIN g
  <2>1. CASE j < i0
    BY <1>1, <1>2, <2>1
  <2>2. CASE ~(j < i0)
    <3>1. j \in 1 .. Len(f) - 1 /\ j + 1 \in DOMAIN f /\ j + 1 # i0
      BY <1>1, <1>2, <2>2
    <3>2. g[j] = f[j + 1]
      BY <1>2, <2>2, <3>1
    <3> QED
      BY <3>1, <3>2
  <2> QED
    BY <2>1, <2>2
<1> HIDE DEF f, g, id
<1>7. Queued(bk2, lv \ {id}, ord)
  <2> SUFFICES ASSUME NEW s \in Side, NEW p \in Prices, NEW j \in DOMAIN bk2[s][p].fifo
               PROVE  /\ bk2[s][p].fifo[j] \in lv \ {id}
                      /\ ord[bk2[s][p].fifo[j]].side = s
                      /\ ord[bk2[s][p].fifo[j]].price = p
    BY DEF Queued
  <2>1. CASE s = s0 /\ p = p0
    <3>1. PICK k \in DOMAIN f : k # i0 /\ g[j] = f[k]
      BY <1>6, <2>1 DEF g
    <3>2. f[k] \in lv /\ ord[f[k]].side = s0 /\ ord[f[k]].price = p0
      BY <3>1 DEF Placed, Queued, f
    <3> QED
      BY <1>5, <2>1, <3>1, <3>2 DEF g
  <2>2. CASE s # s0 \/ p # p0
    <3>1. bk2[s][p] = bk[s][p]
      BY <2>2
    <3>2. bk2[s][p].fifo[j] \in lv /\ ord[bk2[s][p].fifo[j]].side = s
          /\ ord[bk2[s][p].fifo[j]].price = p
      BY <3>1 DEF Placed, Queued
    <3> QED
      BY <1>3, <2>2, <3>2
  <2> QED
    BY <2>1, <2>2
<1>8. Held(bk2, lv \ {id}, ord)
  <2> SUFFICES ASSUME NEW x \in lv \ {id}
               PROVE  /\ ord[x] # NoOrder
                      /\ ord[x].price \in Prices
                      /\ \E j \in DOMAIN bk2[ord[x].side][ord[x].price].fifo :
                           bk2[ord[x].side][ord[x].price].fifo[j] = x
    BY DEF Held
  <2>1. ord[x] # NoOrder /\ ord[x].price \in Prices
        /\ \E j \in DOMAIN bk[ord[x].side][ord[x].price].fifo :
             bk[ord[x].side][ord[x].price].fifo[j] = x
    BY DEF Placed, Held
  <2>2. ord[x].side \in Side
    BY <2>1 DEF Orders, Order
  <2>3. CASE ord[x].side = s0 /\ ord[x].price = p0
    <3>1. PICK k \in DOMAIN f : f[k] = x
      BY <2>1, <2>3 DEF f
    <3>2. k # i0
      BY <3>1 DEF id
    <3>3. CASE k < i0
      <4>1. k \in 1 .. Len(f) - 1 /\ g[k] = f[k] /\ k \in DOMAIN g
        BY <1>1, <1>2, <3>1, <3>3
      <4> QED
        BY <2>1, <2>3, <3>1, <4>1 DEF g
    <3>4. CASE i0 < k
      <4>1. k - 1 \in 1 .. Len(f) - 1 /\ ~(k - 1 < i0) /\ (k - 1) + 1 = k
        BY <1>1, <3>1, <3>4
      <4>2. k - 1 \in DOMAIN g /\ g[k - 1] = f[k]
        BY <1>1, <1>2, <4>1
      <4> QED
        BY <2>1, <2>3, <3>1, <4>2 DEF g
    <3>5. k < i0 \/ i0 < k
      BY <1>1, <3>1, <3>2
    <3> QED
      BY <3>3, <3>4, <3>5
  <2>4. CASE ord[x].side # s0 \/ ord[x].price # p0
    <3>1. bk2[ord[x].side][ord[x].price] = bk[ord[x].side][ord[x].price]
      BY <2>1, <2>2, <2>4
    <3> QED
      BY <2>1, <3>1
  <2> QED
    BY <2>3, <2>4
<1>9. Indexed(bk2, ix2)
  <2> SUFFICES ASSUME NEW s \in Side, NEW p \in Prices
               PROVE  /\ p \in ix2[s] <=> bk2[s][p].fifo # << >>
                      /\ bk2[s][p].count = Len(bk2[s][p].fifo)
    BY DEF Indexed
  <2>1. /\ p \in ix[s] <=> bk[s][p].fifo # << >>
        /\ bk[s][p].count = Len(bk[s][p].fifo)
    BY DEF Placed, Indexed
  <2>2. CASE s = s0 /\ p = p0
    <3>1. bk2[s][p].count = Len(g)
      BY <1>1, <1>2, <2>1, <2>2 DEF f, g
    <3>2. g # << >> <=> Len(g) # 0
      BY <1>1
    <3>3. f # << >>
      BY <1>1
    <3> QED
      BY <2>1, <2>2, <3>1, <3>2, <3>3 DEF f, g
  <2>3. CASE s # s0 \/ p # p0
    BY <2>1, <2>3
  <2> QED
    BY <2>2, <2>3
<1>10. Ranked(bk2, ord)
  <2> SUFFICES ASSUME NEW s \in Side, NEW p \in Prices,
                      NEW j \in DOMAIN bk2[s][p].fifo, NEW k \in DOMAIN bk2[s][p].fifo,
                      j < k
               PROVE  ord[bk2[s][p].fifo[j]].priority < ord[bk2[s][p].fifo[k]].priority
    BY DEF Ranked
  <2>1. CASE s = s0 /\ p = p0
    <3> DEFINE j2 == IF j < i0 THEN j ELSE j + 1
               k2 == IF k < i0 THEN k ELSE k + 1
    <3>1. j \in 1 .. Len(f) - 1 /\ k \in 1 .. Len(f) - 1
      BY <1>1, <1>2, <2>1 DEF g
    <3>2. j2 \in DOMAIN f /\ k2 \in DOMAIN f /\ j2 < k2
      BY <1>1, <3>1
    <3>3. g[j] = f[j2] /\ g[k] = f[k2]
      BY <1>2, <3>1
    <3> HIDE DEF j2, k2
    <3>4. ord[f[j2]].priority < ord[f[k2]].priority
      BY <3>2 DEF Placed, Ranked, f
    <3> QED
      BY <2>1, <3>3, <3>4 DEF g
  <2>2. CASE s # s0 \/ p # p0
    <3>1. bk2[s][p] = bk[s][p]
      BY <2>2
    <3> QED
      BY <3>1 DEF Placed, Ranked
  <2> QED
    BY <2>1, <2>2
<1> QED
  BY <1>7, <1>8, <1>9, <1>10 DEF Placed, id, f

Joined(fifo, id) == Append(fifo, id)

(* An order younger than all others may join the back of its level.        *)
LEMMA RestPlaced ==
  ASSUME NEW bk \in Books, NEW bk2 \in Books,
         NEW ix \in [Side -> SUBSET Prices], NEW ix2 \in [Side -> SUBSET Prices],
         NEW lv \in SUBSET OrderIds, NEW ord \in Orders,
         Placed(bk, ix, lv, ord),
         NEW id \in OrderIds, NEW s0 \in Side, NEW p0 \in Prices,
         ord[id] # NoOrder, ord[id].side = s0, ord[id].price = p0,
         \A x \in lv : ord[x].priority < ord[id].priority,
         bk2[s0][p0].fifo = Joined(bk[s0][p0].fifo, id),
         bk2[s0][p0].count = bk[s0][p0].count + 1,
         SameElsewhere(bk, bk2, ix, ix2, s0, p0),
         p0 \in ix2[s0]
  PROVE  Placed(bk2, ix2, lv \cup {id}, ord)
<1> USE DEF SameElsewhere
<1> DEFINE f == bk[s0][p0].fifo
           g == bk2[s0][p0].fifo
<1>1. f \in Seq(OrderIds) /\ g \in Seq(OrderIds) /\ Len(f) \in Nat
      /\ DOMAIN f = 1 .. Len(f) /\ DOMAIN g = 1 .. Len(g) /\ g = Append(f, id)
  BY DEF Books, Level, Joined
<1> HIDE DEF f, g
<1>2. Len(g) = Len(f) + 1 /\ g[Len(f) + 1] = id /\ \A j \in 1 .. Len(f) : g[j] = f[j]
  BY <1>1
<1>3. Queued(bk2, lv \cup {id}, ord)
  <2> SUFFICES ASSUME NEW s \in Side, NEW p \in Prices, NEW j \in DOMAIN bk2[s][p].fifo
               PROVE  /\ bk2[s][p].fifo[j] \in lv \cup {id}
                      /\ ord[bk2[s][p].fifo[j]].side = s
                      /\ ord[bk2[s][p].fifo[j]].price = p
    BY DEF Queued
  <2>1. CASE s = s0 /\ p = p0
    <3>1. j \in 1 .. Len(f) \/ j = Len(f) + 1
      BY <1>1, <1>2, <2>1 DEF g
    <3>2. CASE j \in 1 .. Len(f)
      <4>1. f[j] \in lv /\ ord[f[j]].side = s0 /\ ord[f[j]].price = p0
        BY <1>1, <3>2 DEF Placed, Queued, f
      <4> QED
        BY <1>2, <2>1, <3>2, <4>1 DEF g
    <3>3. CASE j = Len(f) + 1
      BY <1>2, <2>1, <3>3 DEF g
    <3> QED
      BY <3>1, <3>2, <3>3
  <2>2. CASE s # s0 \/ p # p0
    <3>1. bk2[s][p] = bk[s][p]
      BY <2>2
    <3> QED
      BY <3>1 DEF Placed, Queued
  <2> QED
    BY <2>1, <2>2
<1>4. Held(bk2, lv \cup {id}, ord)
  <2> SUFFICES ASSUME NEW x \in lv \cup {id}
               PROVE  /\ ord[x] # NoOrder
                      /\ ord[x].price \in Prices
                      /\ \E j \in DOMAIN bk2[ord[x].side][ord[x].price].fifo :
                           bk2[ord[x].side][ord[x].price].fifo[j] = x
    BY DEF Held
  <2>1. CASE x = id
    <3>1. Len(f) + 1 \in DOMAIN g /\ g[Len(f) + 1] = x
      BY <1>1, <1>2, <2>1
    <3> QED
      BY <2>1, <3>1 DEF g
  <2>2. CASE x \in lv
    <3>1. ord[x] # NoOrder /\ ord[x].price \in Prices
      BY <2>2 DEF Placed, Held
    <3>2. PICK j \in DOMAIN bk[ord[x].side][ord[x].price].fifo :
            bk[ord[x].side][ord[x].price].fifo[j] = x
      BY <2>2 DEF Placed, Held
    <3>3. ord[x].side \in Side
      BY <3>1, <2>2 DEF Orders, Order
    <3>4. CASE ord[x].side = s0 /\ ord[x].price = p0
      <4>1. j \in DOMAIN g /\ g[j] = x
        BY <1>1, <1>2, <3>2, <3>4 DEF f
      <4> QED
        BY <3>1, <3>4, <4>1 DEF g
    <3>5. CASE ord[x].side # s0 \/ ord[x].price # p0
      <4>1. bk2[ord[x].side][ord[x].price] = bk[ord[x].side][ord[x].price]
        BY <3>1, <3>3, <3>5
      <4> QED
        BY <3>1, <3>2, <4>1
    <3> QED
      BY <3>4, <3>5
  <2> QED
    BY <2>1, <2>2
<1>5. Indexed(bk2, ix2)
  <2> SUFFICES ASSUME NEW s \in Side, NEW p \in Prices
               PROVE  /\ p \in ix2[s] <=> bk2[s][p].fifo # << >>
                      /\ bk2[s][p].count = Len(bk2[s][p].fifo)
    BY DEF Indexed
  <2>1. /\ p \in ix[s] <=> bk[s][p].fifo # << >>
        /\ bk[s][p].count = Len(bk[s][p].fifo)
    BY DEF Placed, Indexed
  <2>2. CASE s = s0 /\ p = p0
    <3>1. bk2[s][p].count = Len(g)
      BY <1>2, <2>1, <2>2 DEF f
    <3>2. g # << >>
      BY <1>1, <1>2
    <3> QED
      BY <2>2, <3>1, <3>2 DEF g
  <2>3. CASE s # s0 \/ p # p0
    BY <2>1, <2>3
  <2> QED
    BY <2>2, <2>3
<1>6. Ranked(bk2, ord)
  <2> SUFFICES ASSUME NEW s \in Side, NEW p \in Prices,
                      NEW j \in DOMAIN bk2[s][p].fifo, NEW k \in DOMAIN bk2[s][p].fifo,
                      j < k
               PROVE  ord[bk2[s][p].fifo[j]].priority < ord[bk2[s][p].fifo[k]].priority
    BY DEF Ranked
  <2>1. CASE s = s0 /\ p = p0
    <3>1. j \in 1 .. Len(f) /\ g[j] = f[j]
      BY <1>1, <1>2, <2>1 DEF g
    <3>2. CASE k \in 1 .. Len(f)
      <4>1. ord[f[j]].priority < ord[f[k]].priority
        BY <1>1, <3>1, <3>2 DEF Placed, Ranked, f
      <4> QED
        BY <1>2, <2>1, <3>1, <3>2, <4>1 DEF g
    <3>3. CASE k = Len(f) + 1
      <4>1. f[j] \in lv
        BY <1>1, <3>1 DEF Placed, Queued, f
      <4> QED
        BY <1>2, <2>1, <3>1, <3>3, <4>1 DEF g
    <3>4. k \in 1 .. Len(f) \/ k = Len(f) + 1
      BY <1>1, <1>2, <2>1 DEF g
    <3> QED
      BY <3>2, <3>3, <3>4
  <2>2. CASE s # s0 \/ p # p0
    <3>1. bk2[s][p] = bk[s][p]
      BY <2>2
    <3> QED
      BY <3>1 DEF Placed, Ranked
  <2> QED
    BY <2>1, <2>2
<1> QED
  BY <1>3, <1>4, <1>5, <1>6 DEF Placed

-----------------------------------------------------------------------------
(* What every order of the book satisfies, between any two steps.          *)
OrdersOK ==
  \A id \in OrderIds : Known(id) =>
    /\ orders[id].priority <= sequence
    /\ orders[id].filled + orders[id].remaining = orders[id].quantity
    /\ id \in live_orders =>
         /\ id # incoming
         /\ orders[id].remaining > 0
         /\ ~NeverRests(orders[id])
    /\ orders[id].status \notin Terminal <=>
         \/ id \in live_orders
         \/ id = incoming /\ orders[id].remaining > 0

(* What the order being executed satisfies: it is the youngest, it could
   rest if it had to, and if it is post-only nothing is there to take.     *)
IncomingOK ==
  incoming # None =>
    /\ Known(incoming)
    /\ \A id \in live_orders : orders[id].priority < orders[incoming].priority
    /\ orders[incoming].type = "LIMIT" => orders[incoming].price \in Prices
    /\ orders[incoming].tif = "POST_ONLY" => ~CrossesBook(orders[incoming])

IInv == TypeOK /\ BookConsistent /\ Uncrossed /\ OrdersOK /\ IncomingOK

-----------------------------------------------------------------------------
(* The type invariant in the vocabulary of the lemmas.                     *)
LEMMA Types ==
  ASSUME TypeOK
  PROVE  /\ orders \in Orders
         /\ book \in Books
         /\ \A id \in OrderIds : Known(id) => orders[id] \in Order
BY DEF TypeOK, Orders, Books, Level, Known

(* A resting order is recorded, has a book price, is not the one being
   executed and has quantity left.                                         *)
LEMMA LiveFacts ==
  ASSUME IInv, NEW id \in live_orders
  PROVE  /\ id \in OrderIds /\ Known(id)
         /\ orders[id] \in Order
         /\ orders[id].side \in Side
         /\ orders[id].price \in Prices
         /\ orders[id].account \in Accounts
         /\ id # incoming
         /\ orders[id].remaining > 0
<1>1. id \in OrderIds /\ Known(id) /\ orders[id].price \in Prices
  BY DEF IInv, TypeOK, BookConsistent, LiveOrdersAreQueued
<1>2. orders[id] \in Order
  BY <1>1, Types DEF IInv
<1>3. orders[id].side \in Side /\ orders[id].account \in Accounts
  BY <1>2 DEF Order
<1> QED
  BY <1>1, <1>2, <1>3 DEF IInv, OrdersOK

(* The order _execute_accepted works for is recorded and not resting.      *)
LEMMA IncomingFacts ==
  ASSUME IInv, incoming # None
  PROVE  /\ incoming \in OrderIds /\ incoming \notin live_orders /\ Known(incoming)
         /\ orders[incoming] \in Order
         /\ orders[incoming].side \in Side
         /\ Opposing \in Side
<1>1. incoming \in OrderIds /\ Known(incoming)
  BY DEF IInv, TypeOK, IncomingOK
<1>2. incoming \notin live_orders
  BY <1>1 DEF IInv, OrdersOK
<1>3. orders[incoming] \in Order
  BY <1>1, Types DEF IInv
<1>4. orders[incoming].side \in Side
  BY <1>3 DEF Order
<1> QED
  BY <1>1, <1>2, <1>3, <1>4 DEF Opposing, Opposite, Side

(* An order leaves the book.                                               *)
LEMMA UnlinkStep ==
  ASSUME IInv, NEW id \in live_orders,
         NEW i \in DOMAIN LevelOf(orders[id]).fifo, Unlink(id, i)
  PROVE  /\ book' \in Books
         /\ index' \in [Side -> SUBSET Prices]
         /\ \A s \in Side : index'[s] \subseteq index[s]
         /\ live_order_counts' \in [Accounts -> Nat]
         /\ live_orders' = live_orders \ {id}
         /\ Placed(book', index', live_orders', orders)
<1> DEFINE o == orders[id]
           level == Dequeue(LevelOf(o), i, o.remaining)
<1>1. /\ o \in Order /\ o.side \in Side /\ o.price \in Prices /\ o.account \in Accounts
      /\ id \in OrderIds
  BY LiveFacts
<1>2. book \in Books /\ orders \in Orders
  BY Types DEF IInv
<1>3. /\ LevelOf(o).fifo[i] = id
      /\ book' = [book EXCEPT ![o.side][o.price] = level]
      /\ index' = [index EXCEPT ![o.side] = IF level.count = 0 THEN @ \ {o.price} ELSE @]
      /\ live_orders' = live_orders \ {id}
      /\ live_order_counts' = Decremented(live_order_counts, o.account)
  BY DEF Unlink
<1>4. /\ LevelOf(o) = book[o.side][o.price]
      /\ LevelOf(o) \in Level
  BY <1>1, <1>2 DEF LevelOf, Books
<1>5. /\ level.fifo = RemoveAt(book[o.side][o.price].fifo, i)
      /\ level.count = book[o.side][o.price].count - 1
  BY <1>4 DEF Dequeue
<1>6. level \in Level
  <2>1. RemoveAt(LevelOf(o).fifo, i) \in Seq(OrderIds)
    BY <1>4, RemoveAtFacts DEF Level
  <2>2. LevelOf(o).total - o.remaining \in Int /\ LevelOf(o).count - 1 \in Int
    <3>1. LevelOf(o).total \in Int /\ LevelOf(o).count \in Int
      BY <1>4 DEF Level
    <3>2. o.remaining \in Int
      BY <1>1 DEF Order
    <3> QED
      BY <3>1, <3>2
  <2> QED
    BY <2>1, <2>2 DEF Level, Dequeue
<1> HIDE DEF level, o
<1>7. book' \in Books
  BY <1>1, <1>2, <1>3, <1>6 DEF Books
<1>8. index \in [Side -> SUBSET Prices] /\ index' \in [Side -> SUBSET Prices]
  BY <1>1, <1>3 DEF IInv, TypeOK
<1>9. live_order_counts' \in [Accounts -> Nat]
  BY <1>1, <1>3 DEF IInv, TypeOK, Decremented
<1>10. book'[o.side][o.price] = level
  BY <1>1, <1>2, <1>3 DEF Books
<1>11. SameElsewhere(book, book', index, index', o.side, o.price)
  BY <1>1, <1>2, <1>3, <1>8 DEF Books, SameElsewhere
<1>12. o.price \in index'[o.side] <=>
         o.price \in index[o.side] /\ book'[o.side][o.price].count # 0
  BY <1>1, <1>3, <1>8, <1>10
<1>13. i \in DOMAIN book[o.side][o.price].fifo /\ book[o.side][o.price].fifo[i] = id
  BY <1>3, <1>4 DEF o
<1>14. Placed(book, index, live_orders, orders)
  BY BookConsistentIsPlaced DEF IInv
<1>15. live_orders \in SUBSET OrderIds
  BY DEF IInv, TypeOK
<1>16. Placed(book', index', live_orders \ {book[o.side][o.price].fifo[i]}, orders)
  BY <1>1, <1>2, <1>5, <1>7, <1>8, <1>10, <1>11, <1>12, <1>13, <1>14, <1>15, UnlinkPlaced
<1>17. \A s \in Side : index'[s] \subseteq index[s]
  BY <1>1, <1>3, <1>8
<1> QED
  BY <1>3, <1>7, <1>8, <1>9, <1>13, <1>16, <1>17

(* The order being executed joins the book.                                *)
LEMMA RestStep ==
  ASSUME IInv, incoming # None, orders[incoming].price \in Prices, Rest(incoming)
  PROVE  /\ book' \in Books
         /\ index' \in [Side -> SUBSET Prices]
         /\ index' = [index EXCEPT ![orders[incoming].side] = @ \cup {orders[incoming].price}]
         /\ live_order_counts' \in [Accounts -> Nat]
         /\ live_orders' = live_orders \cup {incoming}
         /\ Placed(book', index', live_orders', orders)
<1> DEFINE o == orders[incoming]
           level == IF o.price \in index[o.side] THEN book[o.side][o.price] ELSE EmptyLevel
           longer == Enqueue(level, incoming, o.remaining)
<1>1. /\ o \in Order /\ o.side \in Side /\ o.price \in Prices /\ o.account \in Accounts
      /\ incoming \in OrderIds /\ o # NoOrder
  BY IncomingFacts DEF Order, Known
<1>2. book \in Books /\ orders \in Orders
  BY Types DEF IInv
<1>3. /\ book' = [book EXCEPT ![o.side][o.price] = longer]
      /\ index' = [index EXCEPT ![o.side] = @ \cup {o.price}]
      /\ live_orders' = live_orders \cup {incoming}
      /\ live_order_counts' = [live_order_counts EXCEPT ![o.account] = @ + 1]
  BY DEF Rest
<1>4. Placed(book, index, live_orders, orders)
  BY BookConsistentIsPlaced DEF IInv
<1>5. level.fifo = book[o.side][o.price].fifo /\ level.count = book[o.side][o.price].count
      /\ level \in Level
  <2>1. book[o.side][o.price] \in Level
    BY <1>1, <1>2 DEF Books
  <2>2. CASE o.price \in index[o.side]
    BY <2>1, <2>2
  <2>3. CASE o.price \notin index[o.side]
    <3>1. book[o.side][o.price].fifo = << >> /\ book[o.side][o.price].count = Len(<< >>)
      BY <1>1, <1>4, <2>3 DEF Placed, Indexed
    <3> QED
      BY <2>3, <3>1 DEF EmptyLevel, Level
  <2> QED
    BY <2>2, <2>3
<1> HIDE DEF level
<1>6. longer \in Level /\ longer.fifo = Append(book[o.side][o.price].fifo, incoming)
      /\ longer.count = book[o.side][o.price].count + 1
  <2>1. level.total + o.remaining \in Int /\ level.count + 1 \in Int
        /\ Append(level.fifo, incoming) \in Seq(OrderIds)
    BY <1>1, <1>5 DEF Level, Order
  <2> QED
    BY <1>5, <2>1 DEF Enqueue, Level
<1> HIDE DEF longer, o
<1>7. book' \in Books
  BY <1>1, <1>2, <1>3, <1>6 DEF Books
<1>8. index \in [Side -> SUBSET Prices] /\ index' \in [Side -> SUBSET Prices]
  BY <1>1, <1>3 DEF IInv, TypeOK
<1>9. live_order_counts' \in [Accounts -> Nat]
  BY <1>1, <1>3 DEF IInv, TypeOK
<1>10. book'[o.side][o.price] = longer
  BY <1>1, <1>2, <1>3 DEF Books
<1>11. SameElsewhere(book, book', index, index', o.side, o.price)
  BY <1>1, <1>2, <1>3, <1>8 DEF Books, SameElsewhere
<1>12. o.price \in index'[o.side]
  BY <1>1, <1>3, <1>8
<1>13. \A x \in live_orders : orders[x].priority < orders[incoming].priority
  BY DEF IInv, IncomingOK
<1>14. live_orders \in SUBSET OrderIds
  BY DEF IInv, TypeOK
<1>15. orders[incoming] = o
  BY DEF o
<1>16. /\ book'[o.side][o.price].fifo = Joined(book[o.side][o.price].fifo, incoming)
       /\ book'[o.side][o.price].count = book[o.side][o.price].count + 1
       /\ orders[incoming] # NoOrder
       /\ orders[incoming].side = o.side
       /\ orders[incoming].price = o.price
       /\ o.side \in Side /\ o.price \in Prices /\ incoming \in OrderIds
  BY <1>1, <1>6, <1>10, <1>15 DEF Joined
<1>17. Placed(book', index', live_orders \cup {incoming}, orders)
  BY <1>2, <1>4, <1>7, <1>8, <1>11, <1>12, <1>13, <1>14, <1>16, RestPlaced
<1> QED
  BY <1>3, <1>7, <1>8, <1>9, <1>15, <1>17

-----------------------------------------------------------------------------
(* BookConsistentIsPlaced for the state after a step.                      *)
LEMMA BookConsistentPrimed ==
  BookConsistent' <=> Placed(book', index', live_orders', orders')
  BY DEF BookConsistent, QueuedOrdersAreLive, LiveOrdersAreQueued, LevelsAreIndexed,
         FifoByPriority, Fifo, LevelOf, Known, Placed, Queued, Held, Indexed, Ranked

(* What the induction hypothesis says of the shape of the book.            *)
LEMMA PlacedNow ==
  ASSUME IInv
  PROVE  /\ Placed(book, index, live_orders, orders)
         /\ live_orders \in SUBSET OrderIds
         /\ index \in [Side -> SUBSET Prices]
         /\ sequence \in Nat
  BY BookConsistentIsPlaced DEF IInv, TypeOK

(* The type invariant of the next state, variable by variable.             *)
LEMMA TypesPrimed ==
  ASSUME orders' \in Orders, live_orders' \in SUBSET OrderIds,
         live_order_counts' \in [Accounts -> Nat], book' \in Books,
         index' \in [Side -> SUBSET Prices], sequence' \in Nat,
         trades' \in Seq([maker : OrderIds, taker : OrderIds, price : Prices,
                         quantity : Nat]),
         incoming' \in OrderIds \cup {None}
  PROVE  TypeOK'
  BY DEF TypeOK, Orders, Books, Level

(* Whether an order crosses depends on its side, type and price only.      *)
LEMMA CrossesBookSame ==
  ASSUME NEW a, NEW b, a.side = b.side, a.type = b.type, a.price = b.price
  PROVE  CrossesBook(a) <=> CrossesBook(b)
  BY DEF CrossesBook, Crosses

(* A step that leaves the book alone, and in the book's orders changes
   neither side, price nor priority, keeps it consistent and uncrossed.    *)
LEMMA UnchangedPlaces ==
  ASSUME IInv, orders' \in Orders, UNCHANGED <<book, index, live_orders>>,
         \A x \in live_orders : /\ orders'[x] # NoOrder
                                /\ orders'[x].side = orders[x].side
                                /\ orders'[x].price = orders[x].price
                                /\ orders'[x].priority = orders[x].priority
  PROVE  BookConsistent' /\ Uncrossed'
<1>1. Placed(book, index, live_orders, orders')
  BY PlacedNow, Types, SamePlaces DEF IInv
<1>2. Uncrossed'
  BY DEF IInv, Uncrossed
<1> QED
  BY <1>1, <1>2, BookConsistentPrimed

-----------------------------------------------------------------------------
(* One lemma per action.  The refusals only number an event.               *)
LEMMA RejectStep ==
  ASSUME IInv, sequence' = sequence + 1,
         UNCHANGED <<orders, live_orders, live_order_counts, book, index, trades,
                     incoming>>
  PROVE  IInv'
<1>1. TypeOK'
  BY DEF IInv, TypeOK
<1>2. BookConsistent' /\ Uncrossed'
  BY Types, LiveFacts, UnchangedPlaces DEF IInv, Known
<1>3. OrdersOK'
  <2> SUFFICES ASSUME NEW id \in OrderIds, Known(id)
               PROVE  orders[id].priority <= sequence'
    BY DEF IInv, OrdersOK, Known
  <2>1. orders[id].priority \in Nat /\ sequence \in Nat
    BY Types, PlacedNow DEF IInv, Order
  <2> QED
    BY <2>1 DEF IInv, OrdersOK
<1>4. IncomingOK'
  BY DEF IInv, IncomingOK, Known, CrossesBook
<1> QED
  BY <1>1, <1>2, <1>3, <1>4 DEF IInv

(* Accepting an order (submit, before the loop) keeps the invariant: the
   newcomer is the youngest, and a post-only one has nothing to take.      *)
LEMMA AcceptStep ==
  ASSUME IInv, NEW id \in OrderIds, NEW r \in Requests, Accept(id, r)
  PROVE  IInv'
<1> DEFINE new == NewOrder(r, "ACCEPTED", sequence + 1)
<1>1. /\ r \in Request /\ ~Known(id) /\ r.quantity > 0
      /\ r.type = "LIMIT" => r.price \in Prices
      /\ r.tif = "POST_ONLY" => ~CrossesBook(r)
  BY RequestsAssumption DEF Accept, Refused, Invalid, Request
<1>2. sequence \in Nat /\ incoming = None /\ incoming' = id /\ sequence' = sequence + 1
  BY PlacedNow DEF Accept, CanStart
<1>3. /\ new \in Order /\ new # NoOrder
      /\ new.side = r.side /\ new.type = r.type /\ new.tif = r.tif /\ new.price = r.price
      /\ new.quantity = r.quantity /\ new.remaining = r.quantity /\ new.filled = 0
      /\ new.status = "ACCEPTED" /\ new.priority = sequence + 1
  BY <1>1, <1>2, NewOrderFacts DEF OrderStatus
<1>4. orders \in Orders /\ orders' = [orders EXCEPT ![id] = new]
  BY Types DEF IInv, Accept
<1> HIDE DEF new
<1>5. orders' \in Orders /\ orders'[id] = new
      /\ \A x \in OrderIds : x # id => orders'[x] = orders[x]
  BY <1>3, <1>4 DEF Orders
<1>6. id \notin live_orders
  BY <1>1, LiveFacts
<1>7. UNCHANGED <<live_orders, live_order_counts, book, index, trades>>
  BY DEF Accept
<1>8. TypeOK'
  <2>1. book \in Books
    BY Types DEF IInv
  <2> QED
    BY <1>2, <1>5, <1>7, <2>1, TypesPrimed DEF IInv, TypeOK
<1>9. BookConsistent' /\ Uncrossed'
  <2>1. \A x \in live_orders : orders'[x] = orders[x] /\ orders[x] # NoOrder
    BY <1>5, <1>6, LiveFacts DEF Known
  <2> QED
    BY <1>5, <1>7, <2>1, UnchangedPlaces
<1>10. \A x \in OrderIds : Known(x) => orders[x].priority \in Nat /\ orders[x].priority <= sequence
  BY Types DEF IInv, OrdersOK, Order
<1>11. OrdersOK'
  <2> SUFFICES ASSUME NEW x \in OrderIds, Known(x)'
               PROVE  /\ orders'[x].priority <= sequence'
                      /\ orders'[x].filled + orders'[x].remaining = orders'[x].quantity
                      /\ x \in live_orders' =>
                           /\ x # incoming'
                           /\ orders'[x].remaining > 0
                           /\ ~NeverRests(orders'[x])
                      /\ orders'[x].status \notin Terminal <=>
                           \/ x \in live_orders'
                           \/ x = incoming' /\ orders'[x].remaining > 0
    BY DEF OrdersOK, NeverRests
  <2>1. CASE x = id
    <3>1. r.quantity \in Nat
      BY <1>1 DEF Request
    <3> QED
      BY <1>1, <1>2, <1>3, <1>5, <1>6, <1>7, <2>1, <3>1 DEF Terminal
  <2>2. CASE x # id
    <3>1. orders'[x] = orders[x] /\ Known(x) /\ x # incoming
      BY <1>2, <1>5, <2>2, SentinelsAssumption DEF Known
    <3> QED
      BY <1>2, <1>7, <1>10, <2>2, <3>1 DEF IInv, OrdersOK
  <2> QED
    BY <2>1, <2>2
<1>12. IncomingOK'
  <2>1. Known(id)' /\ orders'[incoming'] = new
    BY <1>2, <1>3, <1>5 DEF Known
  <2>2. \A x \in live_orders : orders'[x].priority < new.priority
    BY <1>2, <1>3, <1>5, <1>6, <1>10, LiveFacts
  <2>3. new.tif = "POST_ONLY" => ~CrossesBook(new)
    BY <1>1, <1>3, CrossesBookSame
  <2>4. CrossesBook(orders[incoming])' <=> CrossesBook(new)
    BY <1>7, <2>1 DEF CrossesBook
  <2> QED
    BY <1>1, <1>2, <1>3, <1>7, <2>1, <2>2, <2>3, <2>4 DEF IncomingOK
<1> QED
  BY <1>8, <1>9, <1>11, <1>12 DEF IInv

(* Recording a risk refusal (reject_by_risk) keeps the invariant.          *)
LEMMA RejectByRiskStep ==
  ASSUME IInv, NEW id \in OrderIds, NEW r \in RiskRequests, RejectByRisk(id, r)
  PROVE  IInv'
<1> DEFINE new == NewOrder(r, "REJECTED", 0)
<1>1. CASE Known(id)
  BY <1>1, RejectStep DEF RejectByRisk
<1>2. CASE ~Known(id)
  <2>1. /\ sequence \in Nat /\ incoming = None /\ sequence' = sequence + 1
        /\ UNCHANGED <<live_orders, live_order_counts, book, index, trades, incoming>>
    BY PlacedNow DEF RejectByRisk, CanStart
  <2>2. r \in Request /\ r.quantity \in Nat
    BY RequestsAssumption DEF Request
  <2>3. /\ new \in Order /\ new # NoOrder /\ new.status = "REJECTED" /\ new.priority = 0
        /\ new.quantity = r.quantity /\ new.remaining = r.quantity /\ new.filled = 0
    BY <2>2, NewOrderFacts DEF OrderStatus
  <2>4. orders \in Orders /\ orders' = [orders EXCEPT ![id] = new]
    BY <1>2, Types DEF IInv, RejectByRisk
  <2> HIDE DEF new
  <2>5. orders' \in Orders /\ orders'[id] = new
        /\ \A x \in OrderIds : x # id => orders'[x] = orders[x]
    BY <2>3, <2>4 DEF Orders
  <2>6. id \notin live_orders
    BY <1>2, LiveFacts
  <2>7. TypeOK'
    <3>1. book \in Books
      BY Types DEF IInv
    <3> QED
      BY <2>1, <2>5, <3>1, TypesPrimed DEF IInv, TypeOK
  <2>8. BookConsistent' /\ Uncrossed'
    <3>1. \A x \in live_orders : orders'[x] = orders[x] /\ orders[x] # NoOrder
      BY <2>5, <2>6, LiveFacts DEF Known
    <3> QED
      BY <2>1, <2>5, <3>1, UnchangedPlaces
  <2>9. OrdersOK'
    <3> SUFFICES ASSUME NEW x \in OrderIds, Known(x)'
                 PROVE  /\ orders'[x].priority <= sequence'
                        /\ orders'[x].filled + orders'[x].remaining = orders'[x].quantity
                        /\ x \in live_orders' =>
                             /\ x # incoming'
                             /\ orders'[x].remaining > 0
                             /\ ~NeverRests(orders'[x])
                        /\ orders'[x].status \notin Terminal <=>
                             \/ x \in live_orders'
                             \/ x = incoming' /\ orders'[x].remaining > 0
      BY DEF OrdersOK, NeverRests
    <3>1. CASE x = id
      BY <2>1, <2>2, <2>3, <2>5, <2>6, <3>1, SentinelsAssumption DEF Terminal
    <3>2. CASE x # id
      <4>1. orders'[x] = orders[x] /\ Known(x)
        BY <2>5, <3>2 DEF Known
      <4>2. orders[x].priority \in Nat
        BY <4>1, Types DEF IInv, Order
      <4> QED
        BY <2>1, <4>1, <4>2 DEF IInv, OrdersOK
    <3> QED
      BY <3>1, <3>2
  <2>10. IncomingOK'
    BY <2>1 DEF IncomingOK
  <2> QED
    BY <2>7, <2>8, <2>9, <2>10 DEF IInv
<1> QED
  BY <1>1, <1>2

(* PreventSelfTrade and CancelRemainder.                                   *)
LEMMA CancelIncomingStep ==
  ASSUME IInv, incoming # None,
         orders' = [orders EXCEPT ![incoming].status = "CANCELLED"],
         incoming' = None, sequence' = sequence + 2,
         UNCHANGED <<live_orders, live_order_counts, book, index, trades>>
  PROVE  IInv'
<1> DEFINE new == [orders[incoming] EXCEPT !.status = "CANCELLED"]
<1>1. incoming \in OrderIds /\ incoming \notin live_orders /\ orders[incoming] \in Order
      /\ Known(incoming)
  BY IncomingFacts
<1>2. /\ new \in Order /\ new # NoOrder /\ new.status = "CANCELLED"
      /\ new.priority = orders[incoming].priority
      /\ new.quantity = orders[incoming].quantity
      /\ new.remaining = orders[incoming].remaining
      /\ new.filled = orders[incoming].filled
  BY <1>1, WithStatusFacts DEF OrderStatus
<1>3. orders \in Orders /\ orders' = [orders EXCEPT ![incoming] = new]
  BY Types DEF IInv
<1> HIDE DEF new
<1>4. orders' \in Orders /\ orders'[incoming] = new
      /\ \A x \in OrderIds : x # incoming => orders'[x] = orders[x]
  BY <1>1, <1>2, <1>3 DEF Orders
<1>5. sequence \in Nat
  BY PlacedNow
<1>6. TypeOK'
  <2>1. book \in Books
    BY Types DEF IInv
  <2> QED
    BY <1>4, <1>5, <2>1, TypesPrimed DEF IInv, TypeOK
<1>7. BookConsistent' /\ Uncrossed'
  <2>1. \A x \in live_orders : orders'[x] = orders[x] /\ orders[x] # NoOrder
    BY <1>1, <1>4, LiveFacts DEF Known
  <2> QED
    BY <1>4, <2>1, UnchangedPlaces
<1>8. OrdersOK'
  <2> SUFFICES ASSUME NEW x \in OrderIds, Known(x)'
               PROVE  /\ orders'[x].priority <= sequence'
                      /\ orders'[x].filled + orders'[x].remaining = orders'[x].quantity
                      /\ x \in live_orders' =>
                           /\ x # incoming'
                           /\ orders'[x].remaining > 0
                           /\ ~NeverRests(orders'[x])
                      /\ orders'[x].status \notin Terminal <=>
                           \/ x \in live_orders'
                           \/ x = incoming' /\ orders'[x].remaining > 0
    BY DEF OrdersOK, NeverRests
  <2>1. CASE x = incoming
    <3>1. orders[x].priority \in Nat
      BY <1>1, <2>1 DEF Order
    <3> QED
      BY <1>1, <1>2, <1>4, <1>5, <2>1, <3>1, SentinelsAssumption DEF IInv, OrdersOK, Terminal
  <2>2. CASE x # incoming
    <3>1. orders'[x] = orders[x] /\ Known(x)
      BY <1>4, <2>2 DEF Known
    <3>2. orders[x].priority \in Nat
      BY <3>1, Types DEF IInv, Order
    <3> QED
      BY <1>5, <2>2, <3>1, <3>2, SentinelsAssumption DEF IInv, OrdersOK
  <2> QED
    BY <2>1, <2>2
<1>9. IncomingOK'
  BY DEF IncomingOK
<1> QED
  BY <1>6, <1>7, <1>8, <1>9 DEF IInv

(* Ending a command whose order is filled keeps the invariant.             *)
LEMMA CompleteFilledStep ==
  ASSUME IInv, CompleteFilled
  PROVE  IInv'
<1>1. sequence \in Nat /\ book \in Books /\ orders \in Orders
  BY PlacedNow, Types DEF IInv
<1>2. TypeOK'
  BY <1>1, TypesPrimed DEF IInv, TypeOK, CompleteFilled
<1>3. BookConsistent' /\ Uncrossed'
  BY <1>1, LiveFacts, UnchangedPlaces DEF Known, CompleteFilled
<1>4. OrdersOK'
  <2> SUFFICES ASSUME NEW x \in OrderIds, Known(x)
               PROVE  /\ orders[x].priority <= sequence'
                      /\ x \in live_orders => x # None
                      /\ orders[x].status \notin Terminal <=>
                           \/ x \in live_orders
                           \/ x = None /\ orders[x].remaining > 0
    BY DEF IInv, OrdersOK, NeverRests, Known, CompleteFilled
  <2>1. orders[x].priority \in Nat /\ orders[x].remaining \in Nat
    BY Types DEF IInv, Order
  <2> QED
    BY <1>1, <2>1, SentinelsAssumption DEF IInv, OrdersOK, CompleteFilled
<1>5. IncomingOK'
  BY DEF IncomingOK, CompleteFilled
<1> QED
  BY <1>2, <1>3, <1>4, <1>5 DEF IInv

(* Resting the remainder (_rest) keeps the invariant: the loop stopped
   because nothing crosses, so the book stays uncrossed.                   *)
LEMMA RestRemainderStep ==
  ASSUME IInv, RestRemainder
  PROVE  IInv'
<1> DEFINE o == orders[incoming]
<1>1. /\ incoming # None /\ o.remaining > 0 /\ ~CrossesBook(o) /\ ~NeverRests(o)
      /\ Rest(incoming)
      /\ incoming' = None /\ sequence' = sequence + 1 /\ UNCHANGED <<orders, trades>>
  BY DEF RestRemainder, Executing
<1>2. incoming \in OrderIds /\ incoming \notin live_orders /\ o \in Order /\ Known(incoming)
      /\ o.side \in Side
  BY <1>1, IncomingFacts
<1>3. o.type = "LIMIT" /\ o.price \in Prices
  BY <1>1, <1>2 DEF NeverRests, Order, OrderType, IInv, IncomingOK
<1>4. /\ book' \in Books
      /\ index' \in [Side -> SUBSET Prices]
      /\ index' = [index EXCEPT ![o.side] = @ \cup {o.price}]
      /\ live_order_counts' \in [Accounts -> Nat]
      /\ live_orders' = live_orders \cup {incoming}
      /\ Placed(book', index', live_orders', orders)
  BY <1>1, <1>3, RestStep
<1>5. sequence \in Nat /\ orders \in Orders
  BY PlacedNow, Types DEF IInv
<1>6. TypeOK'
  BY <1>1, <1>2, <1>4, <1>5, TypesPrimed DEF IInv, TypeOK
<1>7. BookConsistent'
  BY <1>1, <1>4, BookConsistentPrimed
<1>8. Uncrossed'
  <2> SUFFICES ASSUME NEW p \in index'["BUY"], NEW q \in index'["SELL"]
               PROVE  p < q
    BY DEF Uncrossed
  <2>1. index \in [Side -> SUBSET Prices]
    BY PlacedNow
  <2>2. /\ p \in index["BUY"] \/ (o.side = "BUY" /\ p = o.price)
        /\ q \in index["SELL"] \/ (o.side = "SELL" /\ q = o.price)
    BY <1>2, <1>4, <2>1 DEF Side
  <2>3. p \in Nat /\ q \in Nat /\ o.price \in Nat
    BY <1>2, <1>3, <2>1, <2>2, PricesAssumption DEF Side
  <2>4. CASE p \in index["BUY"] /\ q \in index["SELL"]
    BY <2>4 DEF IInv, Uncrossed
  <2>5. CASE o.side = "BUY" /\ p = o.price
    <3>1. q \in index["SELL"]
      BY <2>2, <2>5
    <3> QED
      BY <1>1, <2>3, <2>5, <3>1 DEF CrossesBook, Crosses, Opposite
  <2>6. CASE o.side = "SELL" /\ q = o.price
    <3>1. p \in index["BUY"]
      BY <2>2, <2>6
    <3> QED
      BY <1>1, <2>3, <2>6, <3>1 DEF CrossesBook, Crosses, Opposite
  <2> QED
    BY <2>2, <2>4, <2>5, <2>6
<1>9. OrdersOK'
  <2> SUFFICES ASSUME NEW x \in OrderIds, Known(x)
               PROVE  /\ orders[x].priority <= sequence'
                      /\ x \in live_orders' =>
                           /\ x # None
                           /\ orders[x].remaining > 0
                           /\ ~NeverRests(orders[x])
                      /\ orders[x].status \notin Terminal <=>
                           \/ x \in live_orders'
                           \/ x = None /\ orders[x].remaining > 0
    BY <1>1 DEF IInv, OrdersOK, NeverRests, Known
  <2>1. orders[x].priority \in Nat /\ x # None
    BY Types, SentinelsAssumption DEF IInv, Order
  <2> QED
    BY <1>1, <1>4, <1>5, <2>1 DEF IInv, OrdersOK
<1>10. IncomingOK'
  BY <1>1 DEF IncomingOK
<1> QED
  BY <1>6, <1>7, <1>8, <1>9, <1>10 DEF IInv

-----------------------------------------------------------------------------
(* The order at the head of the level the loop meets is a live order of the
   other side, and there is something to trade.                            *)
LEMMA MakerFacts ==
  ASSUME IInv, NEW p \in Prices, Meets(p)
  PROVE  /\ incoming # None
         /\ Maker(p) \in live_orders
         /\ Maker(p) # incoming
         /\ 1 \in DOMAIN book[Opposing][p].fifo
         /\ Maker(p) = book[Opposing][p].fifo[1]
         /\ orders[Maker(p)].side = Opposing
         /\ orders[Maker(p)].price = p
         /\ LevelOf(orders[Maker(p)]) = book[Opposing][p]
         /\ TradeQuantity(p) \in Nat
         /\ TradeQuantity(p) > 0
         /\ TradeQuantity(p) <= orders[Maker(p)].remaining
         /\ TradeQuantity(p) <= orders[incoming].remaining
<1>1. incoming # None /\ orders[incoming].remaining > 0 /\ p \in index[Opposing]
  BY DEF Meets, Executing, BestPrice
<1>2. /\ Opposing \in Side /\ incoming \notin live_orders /\ orders[incoming] \in Order
  BY <1>1, IncomingFacts
<1>3. book[Opposing][p].fifo \in Seq(OrderIds) /\ book[Opposing][p].fifo # << >>
  BY <1>1, <1>2 DEF IInv, TypeOK, BookConsistent, LevelsAreIndexed, Fifo
<1>4. 1 \in DOMAIN book[Opposing][p].fifo /\ Maker(p) = book[Opposing][p].fifo[1]
  BY <1>3 DEF Maker
<1>5. Maker(p) \in live_orders /\ orders[Maker(p)].side = Opposing /\ orders[Maker(p)].price = p
  BY <1>2, <1>4 DEF IInv, BookConsistent, QueuedOrdersAreLive, Fifo
<1>6. orders[Maker(p)] \in Order /\ orders[Maker(p)].remaining > 0
  BY <1>5, LiveFacts
<1>7. orders[Maker(p)].remaining \in Nat /\ orders[incoming].remaining \in Nat
  BY <1>2, <1>6 DEF Order
<1>8. /\ TradeQuantity(p) \in Nat /\ TradeQuantity(p) > 0
      /\ TradeQuantity(p) <= orders[Maker(p)].remaining
      /\ TradeQuantity(p) <= orders[incoming].remaining
  BY <1>1, <1>6, <1>7 DEF TradeQuantity, Smaller
<1> QED
  BY <1>1, <1>2, <1>4, <1>5, <1>8 DEF LevelOf

(* What a trade does to the orders, before the level is looked at.         *)
LEMMA ExecutesFacts ==
  ASSUME IInv, NEW p \in Prices, Executes(p)
  PROVE  /\ orders' \in Orders
         /\ orders'[Maker(p)] = Filled(orders[Maker(p)], TradeQuantity(p))
         /\ orders'[incoming] = Filled(orders[incoming], TradeQuantity(p))
         /\ \A x \in OrderIds : x # Maker(p) /\ x # incoming => orders'[x] = orders[x]
         /\ \A x \in OrderIds : Known(x)' <=> Known(x)
         /\ \A x \in OrderIds : Known(x) =>
              /\ orders'[x].side = orders[x].side
              /\ orders'[x].type = orders[x].type
              /\ orders'[x].tif = orders[x].tif
              /\ orders'[x].account = orders[x].account
              /\ orders'[x].price = orders[x].price
              /\ orders'[x].priority = orders[x].priority
              /\ orders'[x].quantity = orders[x].quantity
              /\ orders'[x].filled + orders'[x].remaining = orders[x].quantity
         /\ trades' \in Seq([maker : OrderIds, taker : OrderIds, price : Prices,
                             quantity : Nat])
         /\ sequence' \in Nat /\ sequence' = sequence + 3
         /\ incoming' = incoming
<1> DEFINE q == TradeQuantity(p)
           m == Maker(p)
<1>1. /\ incoming # None /\ m \in live_orders /\ m # incoming
      /\ q \in Nat /\ q <= orders[m].remaining /\ q <= orders[incoming].remaining
  BY MakerFacts DEF Executes
<1>2. /\ incoming \in OrderIds /\ Known(incoming) /\ orders[incoming] \in Order
      /\ m \in OrderIds /\ Known(m) /\ orders[m] \in Order
  BY <1>1, IncomingFacts, LiveFacts
<1>3. /\ orders' = [orders EXCEPT ![m] = Filled(@, q), ![incoming] = Filled(@, q)]
      /\ trades' = Append(trades, [maker |-> m, taker |-> incoming, price |-> p,
                                   quantity |-> q])
      /\ sequence' = sequence + 3 /\ incoming' = incoming
  BY DEF Executes
<1>4. orders \in Orders /\ sequence \in Nat
  BY Types, PlacedNow DEF IInv
<1> HIDE DEF q, m
<1>5. Filled(orders[m], q) \in Order /\ Filled(orders[incoming], q) \in Order
  BY <1>1, <1>2, FilledFacts
<1>6. orders' \in Orders
  BY <1>1, <1>2, <1>3, <1>4, <1>5 DEF Orders
<1>7. /\ orders'[m] = Filled(orders[m], q)
      /\ orders'[incoming] = Filled(orders[incoming], q)
      /\ \A x \in OrderIds : x # m /\ x # incoming => orders'[x] = orders[x]
  BY <1>1, <1>2, <1>3, <1>4 DEF Orders
<1>8. \A x \in OrderIds : Known(x)' <=> Known(x)
  BY <1>2, <1>5, <1>7, SentinelsAssumption DEF Known
<1>9. ASSUME NEW x \in OrderIds, Known(x)
      PROVE  /\ orders'[x].side = orders[x].side
             /\ orders'[x].type = orders[x].type
             /\ orders'[x].tif = orders[x].tif
             /\ orders'[x].account = orders[x].account
             /\ orders'[x].price = orders[x].price
             /\ orders'[x].priority = orders[x].priority
             /\ orders'[x].quantity = orders[x].quantity
             /\ orders'[x].filled + orders'[x].remaining = orders[x].quantity
  <2>1. orders[x].filled + orders[x].remaining = orders[x].quantity /\ orders[x] \in Order
    BY <1>9, Types DEF IInv, OrdersOK
  <2>2. CASE x = m \/ x = incoming
    <3>1. /\ orders'[x] = Filled(orders[x], q) /\ q <= orders[x].remaining
      BY <1>1, <1>7, <2>2
    <3>2. /\ orders'[x].side = orders[x].side
          /\ orders'[x].type = orders[x].type
          /\ orders'[x].tif = orders[x].tif
          /\ orders'[x].account = orders[x].account
          /\ orders'[x].price = orders[x].price
          /\ orders'[x].priority = orders[x].priority
          /\ orders'[x].quantity = orders[x].quantity
          /\ orders'[x].remaining = orders[x].remaining - q
          /\ orders'[x].filled = orders[x].filled + q
      BY <1>1, <2>1, <3>1, FilledFacts
    <3>3. orders[x].filled \in Nat /\ orders[x].remaining \in Nat
      BY <2>1 DEF Order
    <3> QED
      BY <1>1, <2>1, <3>2, <3>3
  <2>3. CASE x # m /\ x # incoming
    BY <1>7, <2>1, <2>3
  <2> QED
    BY <2>2, <2>3
<1>10. trades' \in Seq([maker : OrderIds, taker : OrderIds, price : Prices, quantity : Nat])
  <2>1. trades \in Seq([maker : OrderIds, taker : OrderIds, price : Prices, quantity : Nat])
    BY DEF IInv, TypeOK
  <2>2. [maker |-> m, taker |-> incoming, price |-> p, quantity |-> q]
          \in [maker : OrderIds, taker : OrderIds, price : Prices, quantity : Nat]
    BY <1>1, <1>2
  <2> QED
    BY <1>3, <2>1, <2>2
<1>11. sequence' \in Nat
  BY <1>3, <1>4
<1> QED
  BY <1>3, <1>6, <1>7, <1>8, <1>9, <1>10, <1>11 DEF q, m

(* Of the orders and the order in execution, a trade leaves what OrdersOK
   and IncomingOK ask, if the maker stays in the book exactly when some of
   it is left.                                                             *)
LEMMA TradeOrders ==
  ASSUME IInv, NEW p \in Prices, Executes(p),
         live_orders' = IF orders[Maker(p)].remaining = TradeQuantity(p)
                        THEN live_orders \ {Maker(p)} ELSE live_orders,
         index' \in [Side -> SUBSET Prices],
         \A s \in Side : index'[s] \subseteq index[s]
  PROVE  OrdersOK' /\ IncomingOK'
<1> DEFINE q == TradeQuantity(p)
           m == Maker(p)
<1>1. /\ incoming # None /\ m \in live_orders /\ m # incoming
      /\ q \in Nat /\ q > 0 /\ q <= orders[m].remaining /\ q <= orders[incoming].remaining
  BY MakerFacts DEF Executes
<1>2. /\ incoming \in OrderIds /\ Known(incoming) /\ orders[incoming] \in Order
      /\ m \in OrderIds /\ Known(m) /\ orders[m] \in Order
      /\ incoming \notin live_orders /\ Opposing \in Side
  BY <1>1, IncomingFacts, LiveFacts
<1>3. /\ orders' \in Orders
      /\ orders'[m] = Filled(orders[m], q)
      /\ orders'[incoming] = Filled(orders[incoming], q)
      /\ \A x \in OrderIds : x # m /\ x # incoming => orders'[x] = orders[x]
      /\ \A x \in OrderIds : Known(x)' <=> Known(x)
      /\ \A x \in OrderIds : Known(x) =>
           /\ orders'[x].side = orders[x].side
           /\ orders'[x].type = orders[x].type
           /\ orders'[x].tif = orders[x].tif
           /\ orders'[x].price = orders[x].price
           /\ orders'[x].priority = orders[x].priority
           /\ orders'[x].quantity = orders[x].quantity
           /\ orders'[x].filled + orders'[x].remaining = orders[x].quantity
      /\ sequence' = sequence + 3 /\ incoming' = incoming
  BY ExecutesFacts
<1>4. live_orders' = IF orders[m].remaining = q THEN live_orders \ {m} ELSE live_orders
  OBVIOUS
<1>5. sequence \in Nat
  BY PlacedNow
<1> HIDE DEF q, m
<1>6. OrdersOK'
  <2> SUFFICES ASSUME NEW x \in OrderIds, Known(x)
               PROVE  /\ orders'[x].priority <= sequence'
                      /\ orders'[x].filled + orders'[x].remaining = orders'[x].quantity
                      /\ x \in live_orders' =>
                           /\ x # incoming
                           /\ orders'[x].remaining > 0
                           /\ ~NeverRests(orders'[x])
                      /\ orders'[x].status \notin Terminal <=>
                           \/ x \in live_orders'
                           \/ x = incoming /\ orders'[x].remaining > 0
    BY <1>3 DEF OrdersOK, NeverRests
  <2>1. /\ orders[x] \in Order /\ orders[x].priority \in Nat /\ orders[x].remaining \in Nat
        /\ orders[x].priority <= sequence
        /\ x \in live_orders => /\ x # incoming
                                /\ orders[x].remaining > 0
                                /\ ~NeverRests(orders[x])
        /\ orders[x].status \notin Terminal <=>
             x \in live_orders \/ (x = incoming /\ orders[x].remaining > 0)
    BY Types DEF IInv, OrdersOK, Order
  <2>2. orders'[x].priority <= sequence'
        /\ orders'[x].filled + orders'[x].remaining = orders'[x].quantity
        /\ orders'[x].type = orders[x].type /\ orders'[x].tif = orders[x].tif
    BY <1>3, <1>5, <2>1
  <2>3. CASE x = m \/ x = incoming
    <3>1. q <= orders[x].remaining /\ orders'[x] = Filled(orders[x], q)
      BY <1>1, <1>3, <2>3
    <3>2. /\ orders'[x].remaining = orders[x].remaining - q
          /\ orders'[x].status = IF orders[x].remaining = q THEN "FILLED"
                                 ELSE "PARTIALLY_FILLED"
      BY <1>1, <2>1, <3>1, FilledFacts
    <3>3. orders'[x].status \notin Terminal <=> orders[x].remaining # q
      BY <3>2 DEF Terminal
    <3>4. orders'[x].remaining > 0 <=> orders[x].remaining # q
      BY <1>1, <2>1, <3>1, <3>2
    <3>5. CASE x = m
      BY <1>1, <1>4, <2>1, <2>2, <3>3, <3>4, <3>5 DEF NeverRests
    <3>6. CASE x = incoming
      BY <1>1, <1>2, <1>4, <2>1, <2>2, <3>3, <3>4, <3>6 DEF NeverRests
    <3> QED
      BY <2>3, <3>5, <3>6
  <2>4. CASE x # m /\ x # incoming
    BY <1>3, <1>4, <2>1, <2>2, <2>4 DEF NeverRests
  <2> QED
    BY <2>3, <2>4
<1>7. IncomingOK'
  <2>1. \A x \in live_orders' : orders'[x].priority < orders'[incoming].priority
    BY <1>2, <1>3, <1>4, LiveFacts, <1>1 DEF IInv, IncomingOK
  <2>2. orders'[incoming].type = "LIMIT" => orders'[incoming].price \in Prices
    BY <1>1, <1>2, <1>3 DEF IInv, IncomingOK
  <2>3. orders[incoming].tif # "POST_ONLY"
    BY <1>1, <1>2 DEF IInv, IncomingOK, Executes, Meets, BestPrice, CrossesBook, Opposing
  <2> QED
    BY <1>1, <1>2, <1>3, <2>1, <2>2, <2>3 DEF IncomingOK
<1> QED
  BY <1>6, <1>7

(* A trade that leaves the maker in the book keeps the invariant.          *)
LEMMA TradePartStep ==
  ASSUME IInv, NEW p \in Prices, TradePartOfMaker(p)
  PROVE  IInv'
<1> DEFINE q == TradeQuantity(p)
           s == Opposing
<1>1. /\ Executes(p) /\ orders[Maker(p)].remaining > q
      /\ book' = [book EXCEPT ![s][p].total = @ - q]
      /\ UNCHANGED <<live_orders, live_order_counts, index>>
  BY DEF TradePartOfMaker
<1>2. q \in Nat /\ s \in Side /\ incoming # None
  BY <1>1, MakerFacts, IncomingFacts DEF Executes
<1>3. /\ book \in Books /\ index \in [Side -> SUBSET Prices]
      /\ live_orders \in SUBSET OrderIds /\ orders \in Orders
      /\ Placed(book, index, live_orders, orders)
      /\ live_order_counts \in [Accounts -> Nat] /\ incoming \in OrderIds \cup {None}
  BY PlacedNow, Types DEF IInv, TypeOK
<1>4. orders[Maker(p)].remaining # q
  BY <1>1, <1>2, MakerFacts, LiveFacts DEF Executes, Order
<1>5. OrdersOK' /\ IncomingOK'
  BY <1>1, <1>3, <1>4, TradeOrders
<1>6. /\ orders' \in Orders /\ sequence' \in Nat /\ incoming' = incoming
      /\ trades' \in Seq([maker : OrderIds, taker : OrderIds, price : Prices,
                          quantity : Nat])
      /\ \A x \in OrderIds : Known(x) =>
           /\ orders'[x].side = orders[x].side
           /\ orders'[x].price = orders[x].price
           /\ orders'[x].priority = orders[x].priority
      /\ \A x \in OrderIds : Known(x)' <=> Known(x)
  BY <1>1, ExecutesFacts
<1> HIDE DEF q, s
<1>7. /\ book' \in Books
      /\ \A t \in Side, r \in Prices :
           book'[t][r].fifo = book[t][r].fifo /\ book'[t][r].count = book[t][r].count
  <2>1. book[s][p] \in Level /\ book[s][p].total - q \in Int
    BY <1>2, <1>3 DEF Books, Level
  <2>2. book' = [book EXCEPT ![s][p] = [book[s][p] EXCEPT !.total = book[s][p].total - q]]
    BY <1>1
  <2>3. [book[s][p] EXCEPT !.total = book[s][p].total - q] \in Level
    BY <2>1 DEF Level
  <2>4. book' \in Books
    BY <1>2, <1>3, <2>2, <2>3 DEF Books
  <2>5. \A t \in Side, r \in Prices :
          book'[t][r] = IF t = s /\ r = p
                        THEN [book[s][p] EXCEPT !.total = book[s][p].total - q]
                        ELSE book[t][r]
    BY <1>2, <1>3, <2>2 DEF Books
  <2> QED
    BY <2>1, <2>4, <2>5 DEF Level
<1>8. TypeOK'
  BY <1>1, <1>3, <1>6, <1>7, TypesPrimed
<1>9. Placed(book', index, live_orders, orders)
  BY <1>3, <1>7, SameQueues
<1>10. \A x \in live_orders : /\ orders'[x] # NoOrder
                             /\ orders'[x].side = orders[x].side
                             /\ orders'[x].price = orders[x].price
                             /\ orders'[x].priority = orders[x].priority
  BY <1>6, LiveFacts DEF Known
<1>11. Placed(book', index, live_orders, orders')
  BY <1>3, <1>6, <1>7, <1>9, <1>10, SamePlaces
<1>12. BookConsistent' /\ Uncrossed'
  BY <1>1, <1>11, BookConsistentPrimed DEF IInv, Uncrossed
<1> QED
  BY <1>5, <1>8, <1>12 DEF IInv

(* After an order left the book its levels are consistent with the new
   orders too, if those still in the book keep their place.                *)
LEMMA UnlinkedBook ==
  ASSUME IInv, NEW id \in live_orders,
         NEW i \in DOMAIN LevelOf(orders[id]).fifo, Unlink(id, i),
         orders' \in Orders,
         \A x \in live_orders \ {id} : /\ orders'[x] # NoOrder
                                      /\ orders'[x].side = orders[x].side
                                      /\ orders'[x].price = orders[x].price
                                      /\ orders'[x].priority = orders[x].priority
  PROVE  /\ BookConsistent' /\ Uncrossed'
         /\ book' \in Books
         /\ index' \in [Side -> SUBSET Prices]
         /\ \A s \in Side : index'[s] \subseteq index[s]
         /\ live_order_counts' \in [Accounts -> Nat]
         /\ live_orders' = live_orders \ {id}
         /\ live_orders' \in SUBSET OrderIds
<1>1. /\ book' \in Books
      /\ index' \in [Side -> SUBSET Prices]
      /\ \A s \in Side : index'[s] \subseteq index[s]
      /\ live_order_counts' \in [Accounts -> Nat]
      /\ live_orders' = live_orders \ {id}
      /\ Placed(book', index', live_orders', orders)
  BY UnlinkStep
<1>2. live_orders' \in SUBSET OrderIds /\ orders \in Orders
  BY <1>1, PlacedNow, Types DEF IInv
<1>3. Placed(book', index', live_orders', orders')
  BY <1>1, <1>2, SamePlaces
<1>4. Uncrossed'
  BY <1>1 DEF IInv, Uncrossed, Side
<1> QED
  BY <1>1, <1>2, <1>3, <1>4, BookConsistentPrimed

(* A trade that uses the maker up and unlinks it keeps the invariant.      *)
LEMMA TradeAllStep ==
  ASSUME IInv, NEW p \in Prices, TradeAllOfMaker(p)
  PROVE  IInv'
<1>1. /\ Executes(p) /\ orders[Maker(p)].remaining = TradeQuantity(p)
      /\ Unlink(Maker(p), 1)
  BY DEF TradeAllOfMaker
<1>2. Maker(p) \in live_orders /\ 1 \in DOMAIN LevelOf(orders[Maker(p)]).fifo
  BY <1>1, MakerFacts DEF Executes
<1>3. /\ orders' \in Orders /\ sequence' \in Nat /\ incoming' = incoming
      /\ trades' \in Seq([maker : OrderIds, taker : OrderIds, price : Prices,
                          quantity : Nat])
      /\ \A x \in OrderIds : Known(x) =>
           /\ orders'[x].side = orders[x].side
           /\ orders'[x].price = orders[x].price
           /\ orders'[x].priority = orders[x].priority
      /\ \A x \in OrderIds : Known(x)' <=> Known(x)
  BY <1>1, ExecutesFacts
<1>4. \A x \in live_orders \ {Maker(p)} :
        /\ orders'[x] # NoOrder
        /\ orders'[x].side = orders[x].side
        /\ orders'[x].price = orders[x].price
        /\ orders'[x].priority = orders[x].priority
  BY <1>3, LiveFacts DEF Known
<1>5. /\ BookConsistent' /\ Uncrossed'
      /\ book' \in Books
      /\ index' \in [Side -> SUBSET Prices]
      /\ \A s \in Side : index'[s] \subseteq index[s]
      /\ live_order_counts' \in [Accounts -> Nat]
      /\ live_orders' = live_orders \ {Maker(p)}
      /\ live_orders' \in SUBSET OrderIds
  BY <1>1, <1>2, <1>3, <1>4, UnlinkedBook
<1>6. OrdersOK' /\ IncomingOK'
  BY <1>1, <1>5, TradeOrders
<1>7. TypeOK'
  BY <1>3, <1>5, TypesPrimed DEF IInv, TypeOK
<1> QED
  BY <1>5, <1>6, <1>7 DEF IInv

-----------------------------------------------------------------------------
(* A cancellation keeps the invariant.                                     *)
LEMMA CancelStep ==
  ASSUME IInv, NEW id \in OrderIds, NEW who \in Accounts \cup {None}, Cancel(id, who)
  PROVE  IInv'
<1> DEFINE new == [orders[id] EXCEPT !.status = "CANCELLED"]
<1>1. /\ incoming = None /\ incoming' = None /\ id \in live_orders
      /\ orders' = [orders EXCEPT ![id] = new]
      /\ sequence' = sequence + 2 /\ UNCHANGED trades
  BY DEF Cancel, CanStart, MayTouch
<1>2. PICK i \in DOMAIN LevelOf(orders[id]).fifo : Unlink(id, i)
  BY DEF Cancel
<1>3. orders[id] \in Order /\ Known(id)
  BY <1>1, LiveFacts
<1>4. /\ new \in Order /\ new # NoOrder /\ new.status = "CANCELLED"
      /\ new.priority = orders[id].priority
      /\ new.quantity = orders[id].quantity
      /\ new.remaining = orders[id].remaining
      /\ new.filled = orders[id].filled
  BY <1>3, WithStatusFacts DEF OrderStatus
<1>5. orders \in Orders /\ sequence \in Nat
  BY Types, PlacedNow DEF IInv
<1> HIDE DEF new
<1>6. orders' \in Orders /\ orders'[id] = new
      /\ \A x \in OrderIds : x # id => orders'[x] = orders[x]
  BY <1>1, <1>4, <1>5 DEF Orders
<1>7. \A x \in live_orders \ {id} : /\ orders'[x] # NoOrder
                                   /\ orders'[x].side = orders[x].side
                                   /\ orders'[x].price = orders[x].price
                                   /\ orders'[x].priority = orders[x].priority
  BY <1>6, LiveFacts DEF Known
<1>8. /\ BookConsistent' /\ Uncrossed'
      /\ book' \in Books
      /\ index' \in [Side -> SUBSET Prices]
      /\ live_order_counts' \in [Accounts -> Nat]
      /\ live_orders' = live_orders \ {id}
      /\ live_orders' \in SUBSET OrderIds
  BY <1>1, <1>2, <1>6, <1>7, UnlinkedBook
<1>9. TypeOK'
  BY <1>1, <1>5, <1>6, <1>8, TypesPrimed DEF IInv, TypeOK
<1>10. OrdersOK'
  <2> SUFFICES ASSUME NEW x \in OrderIds, Known(x)'
               PROVE  /\ orders'[x].priority <= sequence'
                      /\ orders'[x].filled + orders'[x].remaining = orders'[x].quantity
                      /\ x \in live_orders' =>
                           /\ x # incoming'
                           /\ orders'[x].remaining > 0
                           /\ ~NeverRests(orders'[x])
                      /\ orders'[x].status \notin Terminal <=>
                           \/ x \in live_orders'
                           \/ x = incoming' /\ orders'[x].remaining > 0
    BY DEF OrdersOK, NeverRests
  <2>1. CASE x = id
    <3>1. orders[x].priority \in Nat /\ x # None
      BY <1>3, <2>1, SentinelsAssumption DEF Order
    <3> QED
      BY <1>1, <1>3, <1>4, <1>5, <1>6, <1>8, <2>1, <3>1 DEF IInv, OrdersOK, Terminal
  <2>2. CASE x # id
    <3>1. orders'[x] = orders[x] /\ Known(x) /\ x # None
      BY <1>6, <2>2, SentinelsAssumption DEF Known
    <3>2. orders[x].priority \in Nat
      BY <3>1, Types DEF IInv, Order
    <3> QED
      BY <1>1, <1>5, <1>8, <2>2, <3>1, <3>2 DEF IInv, OrdersOK
  <2> QED
    BY <2>1, <2>2
<1>11. IncomingOK'
  BY <1>1 DEF IncomingOK
<1> QED
  BY <1>8, <1>9, <1>10, <1>11 DEF IInv

(* A modification that keeps its place keeps the invariant.                *)
LEMMA ModifyInPlaceStep ==
  ASSUME IInv, NEW id \in OrderIds, NEW who \in Accounts \cup {None},
         NEW q \in ModifyQuantities, NEW p \in ModifyPrices,
         ModifyInPlace(id, who, q, p)
  PROVE  IInv'
<1> DEFINE o == orders[id]
           new == Resized(o, q)
           total == book[o.side][o.price].total + new.remaining - o.remaining
<1>1. /\ incoming = None /\ incoming' = None /\ id \in live_orders /\ q > o.filled
      /\ orders' = [orders EXCEPT ![id] = new]
      /\ book' = [book EXCEPT ![o.side][o.price].total = total]
      /\ sequence' = sequence + 2
      /\ UNCHANGED <<live_orders, live_order_counts, index, trades>>
  BY DEF ModifyInPlace, CanStart, Modifiable, MayTouch
<1>2. o \in Order /\ o # NoOrder /\ o.side \in Side /\ o.price \in Prices /\ q \in Nat
  BY <1>1, LiveFacts, ModifyAssumption DEF Known
<1>3. /\ new \in Order /\ new # NoOrder
      /\ new.side = o.side /\ new.price = o.price /\ new.priority = o.priority
      /\ new.type = o.type /\ new.tif = o.tif /\ new.status = o.status
      /\ new.quantity = q /\ new.remaining = q - o.filled /\ new.filled = o.filled
  BY <1>1, <1>2, ResizedFacts
<1>4. /\ orders \in Orders /\ sequence \in Nat /\ book \in Books
      /\ index \in [Side -> SUBSET Prices] /\ live_orders \in SUBSET OrderIds
      /\ live_order_counts \in [Accounts -> Nat]
      /\ Placed(book, index, live_orders, orders)
  BY Types, PlacedNow DEF IInv, TypeOK
<1> HIDE DEF new
<1>5. orders' \in Orders /\ orders'[id] = new
      /\ \A x \in OrderIds : x # id => orders'[x] = orders[x]
  BY <1>1, <1>3, <1>4 DEF Orders
<1>6. /\ book' \in Books
      /\ \A t \in Side, r \in Prices :
           book'[t][r].fifo = book[t][r].fifo /\ book'[t][r].count = book[t][r].count
  <2> DEFINE s == o.side
             c == o.price
             level == [book[s][c] EXCEPT !.total = total]
  <2>1. book[s][c] \in Level /\ total \in Int
    <3>1. book[s][c] \in Level
      BY <1>2, <1>4 DEF Books
    <3>2. /\ book[s][c].total \in Int
          /\ o.remaining \in Int /\ o.filled \in Int /\ q - o.filled \in Int
      BY <1>2, <3>1 DEF Level, Order
    <3> QED
      BY <1>3, <3>1, <3>2
  <2>2. book' = [book EXCEPT ![s][c] = level]
    BY <1>1
  <2> HIDE DEF total
  <2>3. level \in Level /\ level.fifo = book[s][c].fifo /\ level.count = book[s][c].count
    BY <2>1 DEF Level
  <2> HIDE DEF level
  <2>4. book' \in Books
    BY <1>2, <1>4, <2>2, <2>3 DEF Books
  <2>5. \A t \in Side, r \in Prices :
          book'[t][r] = IF t = s /\ r = c THEN level ELSE book[t][r]
    BY <1>2, <1>4, <2>2 DEF Books
  <2> QED
    BY <2>3, <2>4, <2>5
<1> HIDE DEF total
<1>7. TypeOK'
  <2>1. /\ live_orders' \in SUBSET OrderIds /\ live_order_counts' \in [Accounts -> Nat]
        /\ index' \in [Side -> SUBSET Prices] /\ sequence' \in Nat
    BY <1>1, <1>4
  <2>2. /\ trades' \in Seq([maker : OrderIds, taker : OrderIds, price : Prices,
                           quantity : Nat])
        /\ incoming' \in OrderIds \cup {None}
    BY <1>1 DEF IInv, TypeOK
  <2> QED
    BY <1>5, <1>6, <2>1, <2>2, TypesPrimed
<1>8. Placed(book', index, live_orders, orders)
  BY <1>4, <1>6, SameQueues
<1>9. \A x \in live_orders : /\ orders'[x] # NoOrder
                            /\ orders'[x].side = orders[x].side
                            /\ orders'[x].price = orders[x].price
                            /\ orders'[x].priority = orders[x].priority
  BY <1>3, <1>5, LiveFacts DEF Known
<1>10. Placed(book', index, live_orders, orders')
  BY <1>4, <1>5, <1>6, <1>8, <1>9, SamePlaces
<1>11. BookConsistent' /\ Uncrossed'
  BY <1>1, <1>10, BookConsistentPrimed DEF IInv, Uncrossed
<1>12. OrdersOK'
  <2> SUFFICES ASSUME NEW x \in OrderIds, Known(x)'
               PROVE  /\ orders'[x].priority <= sequence'
                      /\ orders'[x].filled + orders'[x].remaining = orders'[x].quantity
                      /\ x \in live_orders' =>
                           /\ x # incoming'
                           /\ orders'[x].remaining > 0
                           /\ ~NeverRests(orders'[x])
                      /\ orders'[x].status \notin Terminal <=>
                           \/ x \in live_orders'
                           \/ x = incoming' /\ orders'[x].remaining > 0
    BY DEF OrdersOK, NeverRests
  <2>1. CASE x = id
    <3>1. orders[x].priority \in Nat /\ x # None /\ o.filled \in Nat /\ Known(x)
      BY <1>2, <2>1, SentinelsAssumption DEF Order, Known
    <3>2. /\ orders[x].priority <= sequence /\ ~NeverRests(o)
          /\ o.status \notin Terminal
      BY <1>1, <2>1, <3>1 DEF IInv, OrdersOK
    <3> QED
      BY <1>1, <1>2, <1>3, <1>4, <1>5, <2>1, <3>1, <3>2 DEF NeverRests
  <2>2. CASE x # id
    <3>1. orders'[x] = orders[x] /\ Known(x) /\ x # None
      BY <1>5, <2>2, SentinelsAssumption DEF Known
    <3>2. orders[x].priority \in Nat
      BY <3>1, Types DEF IInv, Order
    <3> QED
      BY <1>1, <1>4, <2>2, <3>1, <3>2 DEF IInv, OrdersOK
  <2> QED
    BY <2>1, <2>2
<1>13. IncomingOK'
  BY <1>1 DEF IncomingOK
<1> QED
  BY <1>7, <1>11, <1>12, <1>13 DEF IInv

(* A modification that loses its place keeps the invariant: the order
   leaves the book and becomes the youngest before it is executed again.   *)
LEMMA ModifyAndRequeueStep ==
  ASSUME IInv, NEW id \in OrderIds, NEW who \in Accounts \cup {None},
         NEW q \in ModifyQuantities, NEW p \in ModifyPrices,
         ModifyAndRequeue(id, who, q, p)
  PROVE  IInv'
<1> DEFINE o == orders[id]
           new == Requeued(o, q, p, sequence + 1)
<1>1. /\ incoming = None /\ incoming' = id /\ id \in live_orders /\ q > o.filled
      /\ p # NoPrice
      /\ o.tif = "POST_ONLY" => ~CrossesBook([o EXCEPT !.price = p])
      /\ orders' = [orders EXCEPT ![id] = new]
      /\ sequence' = sequence + 1 /\ UNCHANGED trades
  BY DEF ModifyAndRequeue, CanStart, Modifiable, MayTouch
<1>2. PICK i \in DOMAIN LevelOf(o).fifo : Unlink(id, i)
  BY DEF ModifyAndRequeue
<1>3. /\ o \in Order /\ Known(id) /\ q \in Nat /\ p \in Prices
      /\ orders \in Orders /\ sequence \in Nat
  BY <1>1, LiveFacts, Types, PlacedNow, ModifyAssumption DEF IInv
<1>4. /\ new \in Order /\ new # NoOrder
      /\ new.side = o.side /\ new.type = o.type /\ new.tif = o.tif /\ new.price = p
      /\ new.quantity = q /\ new.remaining = q - o.filled /\ new.filled = o.filled
      /\ new.status \in {"ACCEPTED", "PARTIALLY_FILLED"} /\ new.priority = sequence + 1
  BY <1>1, <1>3, RequeuedFacts
<1> HIDE DEF new
<1>5. orders' \in Orders /\ orders'[id] = new
      /\ \A x \in OrderIds : x # id => orders'[x] = orders[x]
  BY <1>1, <1>3, <1>4 DEF Orders
<1>6. \A x \in live_orders \ {id} : /\ orders'[x] # NoOrder
                                   /\ orders'[x].side = orders[x].side
                                   /\ orders'[x].price = orders[x].price
                                   /\ orders'[x].priority = orders[x].priority
  BY <1>5, LiveFacts DEF Known
<1>7. /\ BookConsistent' /\ Uncrossed'
      /\ book' \in Books
      /\ index' \in [Side -> SUBSET Prices]
      /\ \A s \in Side : index'[s] \subseteq index[s]
      /\ live_order_counts' \in [Accounts -> Nat]
      /\ live_orders' = live_orders \ {id}
      /\ live_orders' \in SUBSET OrderIds
  BY <1>1, <1>2, <1>5, <1>6, UnlinkedBook
<1>8. TypeOK'
  BY <1>1, <1>3, <1>5, <1>7, TypesPrimed DEF IInv, TypeOK
<1>9. o.filled \in Nat /\ new.remaining > 0 /\ new.filled + new.remaining = new.quantity
  BY <1>1, <1>3, <1>4 DEF Order
<1>10. OrdersOK'
  <2> SUFFICES ASSUME NEW x \in OrderIds, Known(x)'
               PROVE  /\ orders'[x].priority <= sequence'
                      /\ orders'[x].filled + orders'[x].remaining = orders'[x].quantity
                      /\ x \in live_orders' =>
                           /\ x # incoming'
                           /\ orders'[x].remaining > 0
                           /\ ~NeverRests(orders'[x])
                      /\ orders'[x].status \notin Terminal <=>
                           \/ x \in live_orders'
                           \/ x = incoming' /\ orders'[x].remaining > 0
    BY DEF OrdersOK, NeverRests
  <2>1. CASE x = id
    BY <1>1, <1>3, <1>4, <1>5, <1>7, <1>9, <2>1 DEF Terminal
  <2>2. CASE x # id
    <3>1. orders'[x] = orders[x] /\ Known(x) /\ x # None
      BY <1>5, <2>2, SentinelsAssumption DEF Known
    <3>2. orders[x].priority \in Nat
      BY <3>1, Types DEF IInv, Order
    <3> QED
      BY <1>1, <1>3, <1>7, <2>2, <3>1, <3>2 DEF IInv, OrdersOK
  <2> QED
    BY <2>1, <2>2
<1>11. IncomingOK'
  <2>1. Known(id)' /\ orders'[incoming'] = new
    BY <1>1, <1>4, <1>5 DEF Known
  <2>2. \A x \in live_orders' : orders'[x].priority < new.priority
    <3> SUFFICES ASSUME NEW x \in live_orders, x # id
                 PROVE  orders[x].priority < sequence + 1
      BY <1>4, <1>5, <1>7, LiveFacts
    <3>1. orders[x].priority \in Nat /\ orders[x].priority <= sequence
      BY LiveFacts DEF IInv, OrdersOK, Order
    <3> QED
      BY <1>3, <3>1
  <2>3. ASSUME new.tif = "POST_ONLY" PROVE ~CrossesBook(orders[incoming])'
    <3> DEFINE probe == [o EXCEPT !.price = p]
    <3>1. probe.side = new.side /\ probe.type = new.type /\ probe.price = new.price
      BY <1>3, <1>4 DEF Order
    <3>2. ~CrossesBook(probe)
      BY <1>1, <1>4, <2>3
    <3> HIDE DEF probe
    <3>3. ~CrossesBook(new)
      BY <3>1, <3>2, CrossesBookSame
    <3>4. Opposite(new.side) \in Side
      BY DEF Opposite, Side
    <3> QED
      BY <1>7, <2>1, <3>3, <3>4 DEF CrossesBook
  <2> QED
    BY <1>1, <1>3, <1>4, <2>1, <2>2, <2>3 DEF IncomingOK
<1> QED
  BY <1>7, <1>8, <1>10, <1>11 DEF IInv

-----------------------------------------------------------------------------
(* The empty book satisfies the invariant.                                 *)
LEMMA InitInv == Init => IInv
<1> SUFFICES ASSUME Init PROVE IInv
  OBVIOUS
<1>1. TypeOK
  BY DEF Init, TypeOK, EmptyLevel, Side
<1>2. BookConsistent
  BY DEF Init, BookConsistent, QueuedOrdersAreLive, LiveOrdersAreQueued,
         LevelsAreIndexed, FifoByPriority, Fifo, EmptyLevel
<1>3. Uncrossed /\ OrdersOK /\ IncomingOK
  BY DEF Init, Uncrossed, OrdersOK, IncomingOK, Known, Side
<1> QED
  BY <1>1, <1>2, <1>3 DEF IInv

(* Every step of the book keeps the invariant.                             *)
LEMMA NextInv == IInv /\ [Next]_vars => IInv'
<1> SUFFICES ASSUME IInv, [Next]_vars PROVE IInv'
  OBVIOUS
<1>1. ASSUME NEW id \in OrderIds, NEW r \in Requests, Accept(id, r) PROVE IInv'
  BY <1>1, AcceptStep
<1>2. ASSUME NEW id \in OrderIds, NEW r \in Requests, RejectSubmit(id, r) PROVE IInv'
  BY <1>2, RejectStep DEF RejectSubmit
<1>3. ASSUME NEW id \in OrderIds, NEW r \in RiskRequests, RejectByRisk(id, r) PROVE IInv'
  BY <1>3, RejectByRiskStep
<1>4. ASSUME NEW id \in OrderIds, NEW who \in Accounts \cup {None}, Cancel(id, who)
      PROVE  IInv'
  BY <1>4, CancelStep
<1>5. ASSUME NEW id \in OrderIds, NEW who \in Accounts \cup {None}, RejectCancel(id, who)
      PROVE  IInv'
  BY <1>5, RejectStep DEF RejectCancel
<1>6. ASSUME NEW id \in OrderIds, NEW who \in Accounts \cup {None},
             NEW q \in ModifyQuantities, NEW p \in ModifyPrices,
             \/ ModifyInPlace(id, who, q, p)
             \/ ModifyAndRequeue(id, who, q, p)
             \/ RejectModify(id, who, q, p)
      PROVE  IInv'
  BY <1>6, ModifyInPlaceStep, ModifyAndRequeueStep, RejectStep DEF RejectModify
<1>7. CASE PreventSelfTrade
  <2>1. incoming # None
    BY <1>7 DEF PreventSelfTrade, Meets, Executing
  <2> QED
    BY <1>7, <2>1, CancelIncomingStep DEF PreventSelfTrade
<1>8. CASE Trade
  BY <1>8, TradePartStep, TradeAllStep DEF Trade
<1>9. CASE CompleteFilled
  BY <1>9, CompleteFilledStep
<1>10. CASE CancelRemainder
  BY <1>10, CancelIncomingStep DEF CancelRemainder, Executing
<1>11. CASE RestRemainder
  BY <1>11, RestRemainderStep
<1>12. CASE UNCHANGED vars
  <2>1. TypeOK'
    BY <1>12 DEF vars, IInv, TypeOK
  <2>2. BookConsistent'
    <3>1. QueuedOrdersAreLive' /\ LevelsAreIndexed'
      BY <1>12 DEF vars, IInv, BookConsistent, QueuedOrdersAreLive, LevelsAreIndexed, Fifo
    <3>2. LiveOrdersAreQueued'
      BY <1>12 DEF vars, IInv, BookConsistent, LiveOrdersAreQueued, LevelOf, Known
    <3>3. FifoByPriority'
      BY <1>12 DEF vars, IInv, BookConsistent, FifoByPriority, Fifo
    <3> QED
      BY <3>1, <3>2, <3>3 DEF BookConsistent
  <2>3. Uncrossed'
    BY <1>12 DEF vars, IInv, Uncrossed
  <2>4. OrdersOK' /\ IncomingOK'
    BY <1>12 DEF vars, IInv, OrdersOK, IncomingOK, Known, CrossesBook
  <2> QED
    BY <2>1, <2>2, <2>3, <2>4 DEF IInv
<1> QED
  BY <1>1, <1>2, <1>3, <1>4, <1>5, <1>6, <1>7, <1>8, <1>9, <1>10, <1>11, <1>12
  DEF Next, Command, Match

(* The inductive invariant of the book.                                    *)
THEOREM Invariant == Spec => []IInv
  BY InitInv, NextInv, PTL DEF Spec

(* Every variable keeps its type, whatever the clients send.               *)
THEOREM TypeCorrect == Spec => []TypeOK
<1>1. IInv => TypeOK
  BY DEF IInv
<1> QED
  BY <1>1, Invariant, PTL

(* The live map, the levels, the price index and the queue order agree after
   every step of every sweep (order_book.py, assert_invariants).           *)
THEOREM BookIsConsistent == Spec => []BookConsistent
<1>1. IInv => BookConsistent
  BY DEF IInv
<1> QED
  BY <1>1, Invariant, PTL

(* The resting book is never crossed (docs/invariants.md).                 *)
THEOREM BookIsUncrossed == Spec => []Uncrossed
<1>1. IInv => Uncrossed
  BY DEF IInv
<1> QED
  BY <1>1, Invariant, PTL

(* An order is in the book, in execution or done.                          *)
THEOREM OrdersAreKept == Spec => []NoOrderLost
<1>1. IInv => NoOrderLost
  BY DEF IInv, OrdersOK, NoOrderLost
<1> QED
  BY <1>1, Invariant, PTL

-----------------------------------------------------------------------------
(* What no step changes of an order that is recorded.                      *)
Kept(o, new) ==
  /\ new # NoOrder
  /\ new.side = o.side
  /\ new.type = o.type
  /\ new.tif = o.tif
  /\ new.account = o.account

(* A step that writes one entry of the orders leaves the others.           *)
LEMMA OneOrderChanges ==
  ASSUME IInv, NEW id \in OrderIds, NEW new, orders' = [orders EXCEPT ![id] = new]
  PROVE  /\ orders'[id] = new
         /\ \A x \in OrderIds : x # id => orders'[x] = orders[x]
BY Types DEF IInv, Orders

(* What a recorded order becomes, action by action: only a trade changes how
   much of it is filled.                                                   *)
LEMMA OrderKept ==
  ASSUME IInv, [Next]_vars, NEW id \in OrderIds, Known(id)
  PROVE  /\ Kept(orders[id], orders'[id])
         /\ Trade \/ orders'[id].filled = orders[id].filled
<1> DEFINE Untraded == Kept(orders[id], orders'[id]) /\ orders'[id].filled = orders[id].filled
<1>0. orders[id] \in Order /\ orders[id] # NoOrder
  BY Types DEF IInv, Known
<1>1. ASSUME UNCHANGED orders PROVE Untraded
  BY <1>0, <1>1 DEF Kept
<1>2. ASSUME NEW x \in OrderIds, NEW r \in Requests, Accept(x, r)
      PROVE  Untraded
  <2>1. x # id
    BY <1>2 DEF Accept, Refused, Invalid
  <2>2. orders' = [orders EXCEPT ![x] = NewOrder(r, "ACCEPTED", sequence + 1)]
    BY <1>2 DEF Accept
  <2>3. orders'[id] = orders[id]
    BY <2>1, <2>2, OneOrderChanges
  <2> QED
    BY <1>0, <2>3 DEF Kept
<1>3. ASSUME NEW x \in OrderIds, NEW r \in RiskRequests, RejectByRisk(x, r)
      PROVE  Untraded
  <2>1. CASE Known(x)
    BY <1>0, <1>3, <2>1 DEF RejectByRisk, Kept
  <2>2. CASE ~Known(x)
    <3>1. orders' = [orders EXCEPT ![x] = NewOrder(r, "REJECTED", 0)] /\ x # id
      BY <1>3, <2>2 DEF RejectByRisk
    <3>2. orders'[id] = orders[id]
      BY <3>1, OneOrderChanges
    <3> QED
      BY <1>0, <3>2 DEF Kept
  <2> QED
    BY <2>1, <2>2
<1>4. ASSUME NEW x \in OrderIds, orders' = [orders EXCEPT ![x].status = "CANCELLED"]
      PROVE  Untraded
  <2> DEFINE new == [orders[x] EXCEPT !.status = "CANCELLED"]
  <2>1. orders' = [orders EXCEPT ![x] = new]
    BY <1>4
  <2>2. orders'[x] = new /\ (x # id => orders'[id] = orders[id])
    BY <2>1, OneOrderChanges
  <2>3. CASE x # id
    BY <1>0, <2>2, <2>3 DEF Kept
  <2>4. CASE x = id
    <3>1. orders[x] \in Order
      BY <1>0, <2>4
    <3>2. /\ new # NoOrder
          /\ new.side = orders[x].side /\ new.type = orders[x].type
          /\ new.tif = orders[x].tif /\ new.account = orders[x].account
          /\ new.filled = orders[x].filled
      BY <3>1, WithStatusFacts DEF OrderStatus
    <3> HIDE DEF new
    <3> QED
      BY <2>2, <2>4, <3>2 DEF Kept
  <2> QED
    BY <2>3, <2>4
<1>5. ASSUME NEW x \in OrderIds, NEW who \in Accounts \cup {None},
             NEW q \in ModifyQuantities, NEW p \in ModifyPrices,
             ModifyInPlace(x, who, q, p)
      PROVE  Untraded
  <2>1. /\ orders' = [orders EXCEPT ![x] = Resized(orders[x], q)]
        /\ q > orders[x].filled /\ q \in Nat
    BY <1>5, ModifyAssumption DEF ModifyInPlace, Modifiable
  <2>2. orders'[x] = Resized(orders[x], q) /\ (x # id => orders'[id] = orders[id])
    BY <2>1, OneOrderChanges
  <2> QED
    BY <1>0, <2>1, <2>2, ResizedFacts DEF Kept
<1>6. ASSUME NEW x \in OrderIds, NEW who \in Accounts \cup {None},
             NEW q \in ModifyQuantities, NEW p \in ModifyPrices,
             ModifyAndRequeue(x, who, q, p)
      PROVE  Untraded
  <2>1. /\ orders' = [orders EXCEPT ![x] = Requeued(orders[x], q, p, sequence + 1)]
        /\ q > orders[x].filled /\ q \in Nat /\ p \in Prices \cup {NoPrice}
        /\ sequence + 1 \in Nat
    BY <1>6, PlacedNow, ModifyAssumption DEF ModifyAndRequeue, Modifiable
  <2>2. /\ orders'[x] = Requeued(orders[x], q, p, sequence + 1)
        /\ x # id => orders'[id] = orders[id]
    BY <2>1, OneOrderChanges
  <2>3. CASE x # id
    BY <1>0, <2>2, <2>3 DEF Kept
  <2>4. CASE x = id
    <3>1. orders[x] \in Order
      BY <1>0, <2>4
    <3> DEFINE n == sequence + 1
               o == orders[x]
    <3> HIDE DEF n, o
    <3>2. /\ Requeued(o, q, p, n) # NoOrder
          /\ Requeued(o, q, p, n).side = o.side /\ Requeued(o, q, p, n).type = o.type
          /\ Requeued(o, q, p, n).tif = o.tif /\ Requeued(o, q, p, n).account = o.account
          /\ Requeued(o, q, p, n).filled = o.filled
      BY <2>1, <3>1, RequeuedFacts DEF n, o
    <3> QED
      BY <2>2, <2>4, <3>2 DEF Kept, n, o
  <2> QED
    BY <2>3, <2>4
<1>7. ASSUME NEW p \in Prices, Executes(p)
      PROVE  Kept(orders[id], orders'[id])
  BY <1>7, ExecutesFacts DEF Kept, Known
<1>8. CASE PreventSelfTrade \/ CancelRemainder
  <2>1. incoming # None /\ orders' = [orders EXCEPT ![incoming].status = "CANCELLED"]
    BY <1>8 DEF PreventSelfTrade, CancelRemainder, Meets, Executing
  <2> QED
    BY <1>4, <2>1, IncomingFacts
<1> HIDE DEF Untraded
<1>9. Untraded => Kept(orders[id], orders'[id]) /\ orders'[id].filled = orders[id].filled
  BY DEF Untraded
<1>10. CASE Command
  <2>1. ASSUME NEW x \in OrderIds, NEW who,
               Cancel(x, who) \/ RejectCancel(x, who)
        PROVE  Untraded
    BY <1>1, <1>4, <2>1 DEF Cancel, RejectCancel
  <2>2. ASSUME NEW x, NEW r, RejectSubmit(x, r)
        PROVE  Untraded
    BY <1>1, <2>2 DEF RejectSubmit
  <2>3. ASSUME NEW x, NEW who, NEW q, NEW p, RejectModify(x, who, q, p)
        PROVE  Untraded
    BY <1>1, <2>3 DEF RejectModify
  <2>4. Untraded
    BY <1>2, <1>3, <1>5, <1>6, <1>10, <2>1, <2>2, <2>3 DEF Command
  <2> QED
    BY <1>9, <2>4
<1>11. CASE CompleteFilled \/ RestRemainder \/ UNCHANGED vars
  BY <1>9, <1>1, <1>11 DEF CompleteFilled, RestRemainder, vars
<1>12. CASE Trade
  BY <1>7, <1>12 DEF Trade, TradePartOfMaker, TradeAllOfMaker
<1> QED
  BY <1>8, <1>10, <1>11, <1>12 DEF Next, Match

(* What is done, and not being executed, stays out of the book.            *)
LEMMA DoneStaysDone ==
  ASSUME IInv, [Next]_vars,
         NEW id \in OrderIds, Known(id), id \notin live_orders, id # incoming
  PROVE  orders'[id] = orders[id] /\ id \notin live_orders'
<1>1. CASE UNCHANGED <<orders, live_orders>>
  BY <1>1
<1>2. ASSUME NEW x \in OrderIds, NEW new, orders' = [orders EXCEPT ![x] = new],
             x # id, live_orders' \subseteq live_orders
      PROVE  orders'[id] = orders[id] /\ id \notin live_orders'
  BY <1>2, OneOrderChanges
<1>3. ASSUME NEW x \in OrderIds, NEW r \in Requests, Accept(x, r)
      PROVE  orders'[id] = orders[id] /\ id \notin live_orders'
  BY <1>2, <1>3 DEF Accept, Refused, Invalid
<1>4. ASSUME NEW x \in OrderIds, NEW r \in RiskRequests, RejectByRisk(x, r)
      PROVE  orders'[id] = orders[id] /\ id \notin live_orders'
  BY <1>1, <1>2, <1>4 DEF RejectByRisk
<1>5. ASSUME NEW x \in OrderIds, NEW who \in Accounts \cup {None}, Cancel(x, who)
      PROVE  orders'[id] = orders[id] /\ id \notin live_orders'
  <2>1. /\ x \in live_orders /\ live_orders' = live_orders \ {x}
        /\ orders' = [orders EXCEPT ![x] = [orders[x] EXCEPT !.status = "CANCELLED"]]
    BY <1>5 DEF Cancel, MayTouch, Unlink
  <2> QED
    BY <1>2, <2>1
<1>6. ASSUME NEW x \in OrderIds, NEW who \in Accounts \cup {None},
             NEW q \in ModifyQuantities, NEW p \in ModifyPrices,
             ModifyInPlace(x, who, q, p)
      PROVE  orders'[id] = orders[id] /\ id \notin live_orders'
  BY <1>2, <1>6 DEF ModifyInPlace, Modifiable, MayTouch
<1>7. ASSUME NEW x \in OrderIds, NEW who \in Accounts \cup {None},
             NEW q \in ModifyQuantities, NEW p \in ModifyPrices,
             ModifyAndRequeue(x, who, q, p)
      PROVE  orders'[id] = orders[id] /\ id \notin live_orders'
  <2>1. /\ x \in live_orders /\ live_orders' = live_orders \ {x}
        /\ orders' = [orders EXCEPT ![x] = Requeued(orders[x], q, p, sequence + 1)]
    BY <1>7 DEF ModifyAndRequeue, Modifiable, MayTouch, Unlink
  <2> QED
    BY <1>2, <2>1
<1>8. CASE PreventSelfTrade \/ CancelRemainder
  <2>1. /\ incoming # None /\ live_orders' = live_orders
        /\ orders' = [orders EXCEPT ![incoming] = [orders[incoming] EXCEPT !.status = "CANCELLED"]]
    BY <1>8 DEF PreventSelfTrade, CancelRemainder, Meets, Executing
  <2> QED
    BY <1>2, <2>1, IncomingFacts
<1>9. ASSUME NEW p \in Prices, TradePartOfMaker(p) \/ TradeAllOfMaker(p)
      PROVE  orders'[id] = orders[id] /\ id \notin live_orders'
  <2>1. Executes(p) /\ live_orders' \subseteq live_orders
    BY <1>9 DEF TradePartOfMaker, TradeAllOfMaker, Unlink
  <2>2. Maker(p) \in live_orders
    BY <2>1, MakerFacts DEF Executes
  <2> QED
    BY <2>1, <2>2, ExecutesFacts
<1>10. CASE RestRemainder
  BY <1>10 DEF RestRemainder, Rest
<1> QED
  BY <1>1, <1>3, <1>4, <1>5, <1>6, <1>7, <1>8, <1>9, <1>10
  DEF Next, Command, Match, vars, RejectSubmit, RejectCancel, RejectModify, Trade,
      CompleteFilled

(* What a step adds to the trades.                                         *)
LEMMA TradesGrow ==
  ASSUME IInv, [Next]_vars
  PROVE  \/ trades' = trades
         \/ \E p \in Prices :
              /\ TradePartOfMaker(p) \/ TradeAllOfMaker(p)
              /\ trades' = Append(trades, [maker |-> Maker(p), taker |-> incoming,
                                           price |-> p, quantity |-> TradeQuantity(p)])
<1>1. CASE Trade
  BY <1>1 DEF Trade, TradePartOfMaker, TradeAllOfMaker, Executes
<1>2. CASE ~Trade
  <2>1. CASE Command
    <3>1. ASSUME NEW id \in OrderIds, NEW r,
                 Accept(id, r) \/ RejectSubmit(id, r) \/ RejectByRisk(id, r)
          PROVE  trades' = trades
      BY <3>1 DEF Accept, RejectSubmit, RejectByRisk
    <3>2. ASSUME NEW id \in OrderIds, NEW who, Cancel(id, who) \/ RejectCancel(id, who)
          PROVE  trades' = trades
      BY <3>2 DEF Cancel, RejectCancel
    <3>3. ASSUME NEW id \in OrderIds, NEW who, NEW q, NEW p,
                 \/ ModifyInPlace(id, who, q, p)
                 \/ ModifyAndRequeue(id, who, q, p)
                 \/ RejectModify(id, who, q, p)
          PROVE  trades' = trades
      BY <3>3 DEF ModifyInPlace, ModifyAndRequeue, RejectModify
    <3> QED
      BY <2>1, <3>1, <3>2, <3>3 DEF Command
  <2>2. CASE Match \/ UNCHANGED vars
    BY <1>2, <2>2 DEF Match, vars, PreventSelfTrade, CompleteFilled, CancelRemainder,
                      RestRemainder
  <2> QED
    BY <2>1, <2>2 DEF Next
<1> QED
  BY <1>1, <1>2

-----------------------------------------------------------------------------
(* The takers of the trades are recorded orders that are not post-only: the
   first half makes the second inductive, as a step says nothing of an
   unrecorded order.                                                       *)
TakersOK ==
  \A k \in DOMAIN trades :
    Known(trades[k].taker) /\ orders[trades[k].taker].tif # "POST_ONLY"

(* A post-only order has nothing to take when it is executed, so it is not
   the taker of the next trade.                                            *)
LEMMA TakersStep == IInv /\ TakersOK /\ [Next]_vars => TakersOK'
<1> SUFFICES ASSUME IInv, TakersOK, [Next]_vars, NEW k \in DOMAIN trades'
             PROVE  /\ orders'[trades'[k].taker] # NoOrder
                    /\ orders'[trades'[k].taker].tif # "POST_ONLY"
  BY DEF TakersOK, Known
<1> DEFINE Trade0 == [maker : OrderIds, taker : OrderIds, price : Prices, quantity : Nat]
<1>1. trades \in Seq(Trade0)
  BY DEF IInv, TypeOK
<1>2. ASSUME NEW id \in OrderIds, Known(id), orders[id].tif # "POST_ONLY"
      PROVE  orders'[id] # NoOrder /\ orders'[id].tif # "POST_ONLY"
  BY <1>2, OrderKept DEF Kept
<1>3. ASSUME k \in DOMAIN trades, trades'[k] = trades[k]
      PROVE  /\ orders'[trades'[k].taker] # NoOrder
             /\ orders'[trades'[k].taker].tif # "POST_ONLY"
  <2>1. trades[k] \in Trade0
    <3> HIDE DEF Trade0
    <3> QED
      BY <1>1, <1>3
  <2>2. trades[k].taker \in OrderIds
    BY <2>1
  <2> QED
    BY <1>2, <1>3, <2>2 DEF TakersOK
<1>4. CASE trades' = trades
  BY <1>3, <1>4
<1>5. ASSUME NEW p \in Prices, TradePartOfMaker(p) \/ TradeAllOfMaker(p),
             trades' = Append(trades, [maker |-> Maker(p), taker |-> incoming,
                                       price |-> p, quantity |-> TradeQuantity(p)])
      PROVE  /\ orders'[trades'[k].taker] # NoOrder
             /\ orders'[trades'[k].taker].tif # "POST_ONLY"
  <2> DEFINE t == [maker |-> Maker(p), taker |-> incoming, price |-> p,
                   quantity |-> TradeQuantity(p)]
  <2>1. incoming # None /\ p \in index[Opposing] /\ Crosses(orders[incoming], p)
    BY <1>5 DEF TradePartOfMaker, TradeAllOfMaker, Executes, Meets, Executing, BestPrice
  <2>2. incoming \in OrderIds /\ Known(incoming)
    BY <2>1, IncomingFacts
  <2>3. orders[incoming].tif # "POST_ONLY"
    BY <2>1 DEF IInv, IncomingOK, CrossesBook, Opposing
  <2>4. t.taker = incoming /\ trades' = Append(trades, t)
    BY <1>5
  <2> HIDE DEF t
  <2>5. CASE k = Len(trades) + 1
    <3>1. trades'[k] = t
      BY <1>1, <2>4, <2>5
    <3> QED
      BY <1>2, <2>2, <2>3, <2>4, <3>1
  <2>6. CASE k # Len(trades) + 1
    <3>1. k \in DOMAIN trades /\ trades'[k] = trades[k]
      BY <1>1, <2>4, <2>6
    <3> QED
      BY <1>3, <3>1
  <2> QED
    BY <2>5, <2>6
<1> QED
  BY <1>4, <1>5, TradesGrow

(* A post-only order never takes, whatever modifications move its price.   *)
THEOREM PostOnlyRests == Spec => []PostOnlyNeverTakes
<1>1. Init => TakersOK
  BY DEF Init, TakersOK
<1>2. TakersOK => PostOnlyNeverTakes
  BY DEF TakersOK, PostOnlyNeverTakes
<1> QED
  BY <1>1, <1>2, Invariant, TakersStep, PTL DEF Spec

(* An order that is done stays as it is: no late cancel, modification, fill
   or reuse of its id changes it or brings it back.                        *)
THEOREM DoneIsDone == Spec => TerminalIsFinal
<1>1. ASSUME IInv, [Next]_vars
      PROVE  \A id \in OrderIds :
               Known(id) /\ orders[id].status \in Terminal /\ id # incoming =>
                 orders'[id] = orders[id] /\ id \notin live_orders'
  BY <1>1, DoneStaysDone DEF IInv, OrdersOK
<1> QED
  BY <1>1, Invariant, PTL DEF Spec, TerminalIsFinal

-----------------------------------------------------------------------------
(* The head of the best level is the order that price-time priority puts
   first: every other order of the side is at a worse price, or behind it.  *)
LEMMA MakerIsFirst ==
  ASSUME IInv, NEW p \in Prices, Meets(p)
  PROVE  FirstInPriority(Maker(p))
<1> DEFINE m == Maker(p)
           fifo == book[Opposing][p].fifo
<1>1. /\ incoming # None /\ m \in live_orders
      /\ 1 \in DOMAIN fifo /\ m = fifo[1]
      /\ orders[m].side = Opposing /\ orders[m].price = p
      /\ BestPrice(Opposing, p)
  BY MakerFacts DEF Meets
<1>2. Opposing \in Side
  BY <1>1, IncomingFacts
<1>3. Placed(book, index, live_orders, orders)
  BY PlacedNow
<1> SUFFICES ASSUME NEW n \in live_orders \ {m}, orders[n].side = orders[m].side
             PROVE  \/ Better(orders[m].side, orders[m].price, orders[n].price)
                    \/ /\ orders[m].price = orders[n].price
                       /\ orders[m].priority < orders[n].priority
  BY DEF FirstInPriority
<1> DEFINE q == orders[n].price
<1>4. q \in Prices /\ \E i \in DOMAIN book[Opposing][q].fifo : book[Opposing][q].fifo[i] = n
  BY <1>1, <1>3 DEF Placed, Held
<1>5. PICK i \in DOMAIN book[Opposing][q].fifo : book[Opposing][q].fifo[i] = n
  BY <1>4
<1>6. book[Opposing][q].fifo \in Seq(OrderIds)
  BY <1>2, <1>4 DEF IInv, TypeOK
<1>7. q \in index[Opposing]
  <2>1. book[Opposing][q].fifo # << >>
    BY <1>5, <1>6
  <2> QED
    BY <1>2, <1>3, <1>4, <2>1 DEF Placed, Indexed
<1>8. CASE q # p
  BY <1>1, <1>7, <1>8 DEF BestPrice
<1>9. CASE q = p
  <2>1. i \in DOMAIN fifo /\ fifo[i] = n /\ i # 1 /\ fifo \in Seq(OrderIds)
    BY <1>1, <1>5, <1>6, <1>9
  <2> HIDE DEF fifo
  <2>2. 1 < i
    BY <2>1
  <2>3. orders[fifo[1]].priority < orders[fifo[i]].priority
    BY <1>1, <1>2, <1>3, <2>1, <2>2 DEF Placed, Ranked, fifo
  <2> QED
    BY <1>1, <1>9, <2>1, <2>3
<1> QED
  BY <1>8, <1>9

(* Every trade is with the order price-time priority puts first, at that
   order's price, within the taker's own limit, for a positive quantity that
   neither side exceeds.                                                   *)
THEOREM TradesByPriority == Spec => PriceTimePriority
<1> DEFINE Fair ==
      Len(trades') > Len(trades) =>
        LET t == trades'[Len(trades')]
        IN /\ Len(trades') = Len(trades) + 1
           /\ t.maker \in live_orders /\ FirstInPriority(t.maker)
           /\ t.price = orders[t.maker].price
           /\ orders[t.taker].side # orders[t.maker].side
           /\ Crosses(orders[t.taker], t.price)
           /\ t.quantity > 0
           /\ t.quantity <= orders[t.maker].remaining
           /\ t.quantity <= orders[t.taker].remaining
<1>1. ASSUME IInv, [Next]_vars
      PROVE  Fair
  <2>1. trades \in Seq([maker : OrderIds, taker : OrderIds, price : Prices, quantity : Nat])
        /\ Len(trades) \in Nat
    BY <1>1 DEF IInv, TypeOK
  <2>2. CASE trades' = trades
    BY <2>1, <2>2
  <2>3. ASSUME NEW p \in Prices, TradePartOfMaker(p) \/ TradeAllOfMaker(p),
               trades' = Append(trades, [maker |-> Maker(p), taker |-> incoming,
                                         price |-> p, quantity |-> TradeQuantity(p)])
        PROVE  Fair
    <3> DEFINE t == [maker |-> Maker(p), taker |-> incoming, price |-> p,
                     quantity |-> TradeQuantity(p)]
    <3>1. Meets(p)
      BY <2>3 DEF TradePartOfMaker, TradeAllOfMaker, Executes
    <3>2. /\ Maker(p) \in live_orders /\ FirstInPriority(Maker(p))
          /\ orders[Maker(p)].price = p /\ orders[Maker(p)].side = Opposing
          /\ orders[incoming].side \in Side
          /\ TradeQuantity(p) > 0
          /\ TradeQuantity(p) <= orders[Maker(p)].remaining
          /\ TradeQuantity(p) <= orders[incoming].remaining
      BY <1>1, <3>1, MakerFacts, MakerIsFirst, IncomingFacts
    <3>3. orders[incoming].side # Opposing
      BY <3>2 DEF Opposing, Opposite, Side
    <3>4. Crosses(orders[incoming], p)
      BY <3>1 DEF Meets
    <3>5. /\ t.maker = Maker(p) /\ t.taker = incoming /\ t.price = p
          /\ t.quantity = TradeQuantity(p)
      OBVIOUS
    <3> HIDE DEF t
    <3>6. Len(trades') = Len(trades) + 1 /\ trades'[Len(trades')] = t
      BY <2>1, <2>3 DEF t
    <3> QED
      BY <3>2, <3>3, <3>4, <3>5, <3>6
  <2> QED
    BY <1>1, <2>2, <2>3, TradesGrow
<1> QED
  BY <1>1, Invariant, PTL DEF Spec, PriceTimePriority

-----------------------------------------------------------------------------
(* The sums of QuantitiesAddUp, as functions of the values they are taken of: what a
   level holds, how many orders an account has, what an order has traded.  *)
Remaining(ord) == [id \in OrderIds |-> ord[id].remaining]

RestingAt(lv, ord, s, p) == {id \in lv : ord[id].side = s /\ ord[id].price = p}

LevelSum(lv, ord, s, p) == Total(Remaining(ord), RestingAt(lv, ord, s, p))

TotalsOK(bk, lv, ord) ==
  \A s \in Side, p \in Prices : bk[s][p].total = LevelSum(lv, ord, s, p)

CountsOK(counts, lv, ord) ==
  \A a \in Accounts : counts[a] = Cardinality({id \in lv : ord[id].account = a})

(* Resting orders are what a level sums up: a finite set of naturals.      *)
LEMMA RestingFacts ==
  ASSUME NEW lv \in SUBSET OrderIds, NEW ord \in Orders, \A x \in lv : ord[x] # NoOrder,
         NEW s \in Side, NEW p \in Prices
  PROVE  /\ IsFiniteSet(lv) /\ IsFiniteSet(RestingAt(lv, ord, s, p))
         /\ RestingAt(lv, ord, s, p) \in SUBSET OrderIds
         /\ \A x \in lv : ord[x].remaining \in Nat /\ Remaining(ord)[x] = ord[x].remaining
         /\ \A x \in RestingAt(lv, ord, s, p) : Remaining(ord)[x] \in Int
         /\ LevelSum(lv, ord, s, p) \in Int
<1>1. IsFiniteSet(lv) /\ IsFiniteSet(RestingAt(lv, ord, s, p))
  BY FiniteAssumption, FS_Subset DEF RestingAt
<1>2. \A x \in lv : ord[x].remaining \in Nat /\ Remaining(ord)[x] = ord[x].remaining
  BY DEF Remaining, Orders, Order
<1>3. \A x \in RestingAt(lv, ord, s, p) : Remaining(ord)[x] \in Int
  BY <1>2 DEF RestingAt
<1>4. LevelSum(lv, ord, s, p) \in Int
  BY <1>1, <1>3, TotalInt DEF LevelSum
<1> QED
  BY <1>1, <1>2, <1>3, <1>4 DEF RestingAt

(* A level's sum depends on the resting orders only.                       *)
LEMMA LevelSumSame ==
  ASSUME NEW lv \in SUBSET OrderIds, NEW ord \in Orders, NEW ord2 \in Orders,
         \A x \in lv : ord[x] # NoOrder,
         \A x \in lv : /\ ord2[x].side = ord[x].side
                       /\ ord2[x].price = ord[x].price
                       /\ ord2[x].remaining = ord[x].remaining,
         NEW s \in Side, NEW p \in Prices
  PROVE  LevelSum(lv, ord2, s, p) = LevelSum(lv, ord, s, p)
<1> DEFINE R == RestingAt(lv, ord, s, p)
<1>1. RestingAt(lv, ord2, s, p) = R
  BY DEF RestingAt
<1>2. IsFiniteSet(R) /\ \A x \in R : Remaining(ord)[x] \in Int
  BY RestingFacts
<1>3. \A x \in R : Remaining(ord2)[x] = Remaining(ord)[x]
  BY DEF RestingAt, Remaining
<1> HIDE DEF R
<1>4. Total(Remaining(ord2), R) = Total(Remaining(ord), R)
  BY <1>2, <1>3, TotalSame
<1> QED
  BY <1>1, <1>4 DEF LevelSum, R

(* An order that leaves takes its quantity off the sum of its level.       *)
LEMMA LevelSumWithout ==
  ASSUME NEW lv \in SUBSET OrderIds, NEW ord \in Orders, \A x \in lv : ord[x] # NoOrder,
         NEW id \in lv, NEW s \in Side, NEW p \in Prices
  PROVE  LevelSum(lv \ {id}, ord, s, p) =
           IF ord[id].side = s /\ ord[id].price = p
           THEN LevelSum(lv, ord, s, p) - ord[id].remaining
           ELSE LevelSum(lv, ord, s, p)
<1> DEFINE R == RestingAt(lv, ord, s, p)
<1>1. /\ IsFiniteSet(R) /\ \A x \in R : Remaining(ord)[x] \in Int
      /\ ord[id].remaining \in Nat /\ Remaining(ord)[id] = ord[id].remaining
  BY RestingFacts
<1>2. CASE ord[id].side = s /\ ord[id].price = p
  <2>1. id \in R /\ RestingAt(lv \ {id}, ord, s, p) = R \ {id}
    BY <1>2 DEF RestingAt
  <2>2. IsFiniteSet(R \ {id})
    BY <1>1, FS_RemoveElement
  <2> HIDE DEF R
  <2>3. Total(Remaining(ord), R) = Remaining(ord)[id] + Total(Remaining(ord), R \ {id})
    BY <1>1, <2>1, TotalRemove
  <2>4. Total(Remaining(ord), R \ {id}) \in Int
    BY <1>1, <2>2, TotalInt
  <2>5. LevelSum(lv \ {id}, ord, s, p) = Total(Remaining(ord), R \ {id})
    BY <2>1 DEF LevelSum
  <2>6. LevelSum(lv, ord, s, p) = Total(Remaining(ord), R)
    BY DEF LevelSum, R
  <2>7. LevelSum(lv \ {id}, ord, s, p) = LevelSum(lv, ord, s, p) - ord[id].remaining
    BY <1>1, <2>3, <2>4, <2>5, <2>6
  <2> QED
    BY <1>2, <2>7
<1>3. CASE ~(ord[id].side = s /\ ord[id].price = p)
  <2>1. RestingAt(lv \ {id}, ord, s, p) = RestingAt(lv, ord, s, p)
    BY <1>3 DEF RestingAt
  <2> QED
    BY <1>3, <2>1 DEF LevelSum
<1> QED
  BY <1>2, <1>3

(* An order that joins adds its quantity to the sum of its level.          *)
LEMMA LevelSumWith ==
  ASSUME NEW lv \in SUBSET OrderIds, NEW ord \in Orders, \A x \in lv : ord[x] # NoOrder,
         NEW id \in OrderIds, id \notin lv, ord[id] # NoOrder, NEW s \in Side, NEW p \in Prices
  PROVE  LevelSum(lv \cup {id}, ord, s, p) =
           IF ord[id].side = s /\ ord[id].price = p
           THEN LevelSum(lv, ord, s, p) + ord[id].remaining
           ELSE LevelSum(lv, ord, s, p)
<1> DEFINE lv2 == lv \cup {id}
<1>1. /\ lv2 \in SUBSET OrderIds /\ \A x \in lv2 : ord[x] # NoOrder
      /\ id \in lv2 /\ lv2 \ {id} = lv
  OBVIOUS
<1> HIDE DEF lv2
<1>2. LevelSum(lv2 \ {id}, ord, s, p) =
        IF ord[id].side = s /\ ord[id].price = p
        THEN LevelSum(lv2, ord, s, p) - ord[id].remaining
        ELSE LevelSum(lv2, ord, s, p)
  BY <1>1, LevelSumWithout
<1>3. LevelSum(lv2, ord, s, p) \in Int /\ ord[id].remaining \in Nat
  BY <1>1, RestingFacts
<1>4. LevelSum(lv2 \ {id}, ord, s, p) = LevelSum(lv, ord, s, p)
  BY <1>1
<1>5. LevelSum(lv2, ord, s, p) =
        IF ord[id].side = s /\ ord[id].price = p
        THEN LevelSum(lv, ord, s, p) + ord[id].remaining
        ELSE LevelSum(lv, ord, s, p)
  <2>1. CASE ord[id].side = s /\ ord[id].price = p
    BY <1>2, <1>3, <1>4, <2>1
  <2>2. CASE ~(ord[id].side = s /\ ord[id].price = p)
    BY <1>2, <1>4, <2>2
  <2> QED
    BY <2>1, <2>2
<1> QED
  BY <1>5 DEF lv2

(* A resting order that is resized moves the sum of its level with it.     *)
LEMMA LevelSumResized ==
  ASSUME NEW lv \in SUBSET OrderIds, NEW ord \in Orders, NEW ord2 \in Orders,
         \A x \in lv : ord[x] # NoOrder /\ ord2[x] # NoOrder,
         NEW id \in lv, \A x \in lv : x # id => ord2[x] = ord[x],
         ord2[id].side = ord[id].side, ord2[id].price = ord[id].price,
         NEW s \in Side, NEW p \in Prices
  PROVE  LevelSum(lv, ord2, s, p) =
           IF ord[id].side = s /\ ord[id].price = p
           THEN LevelSum(lv, ord, s, p) - ord[id].remaining + ord2[id].remaining
           ELSE LevelSum(lv, ord, s, p)
<1> DEFINE R == RestingAt(lv, ord, s, p)
<1>1. RestingAt(lv, ord2, s, p) = R
  BY DEF RestingAt
<1>2. /\ IsFiniteSet(R) /\ \A x \in R : Remaining(ord)[x] \in Int
      /\ \A x \in lv : Remaining(ord)[x] = ord[x].remaining
      /\ \A x \in lv : ord2[x].remaining \in Nat /\ Remaining(ord2)[x] = ord2[x].remaining
  BY RestingFacts
<1>3. \A x \in R : x \in lv
  BY DEF RestingAt
<1>4. CASE ord[id].side = s /\ ord[id].price = p
  <2>1. id \in R
    BY <1>4 DEF RestingAt
  <2>2. \A x \in R : x # id => Remaining(ord2)[x] = Remaining(ord)[x]
    BY <1>2, <1>3
  <2> HIDE DEF R
  <2>3. Total(Remaining(ord2), R) =
          Total(Remaining(ord), R) - Remaining(ord)[id] + Remaining(ord2)[id]
    BY <1>2, <2>1, <2>2, TotalChange
  <2> QED
    BY <1>1, <1>2, <1>4, <2>3 DEF LevelSum, R
<1>5. CASE ~(ord[id].side = s /\ ord[id].price = p)
  <2>1. \A x \in R : Remaining(ord2)[x] = Remaining(ord)[x]
    BY <1>2, <1>3, <1>5 DEF RestingAt
  <2> HIDE DEF R
  <2>2. Total(Remaining(ord2), R) = Total(Remaining(ord), R)
    BY <1>2, <2>1, TotalSame
  <2> QED
    BY <1>1, <1>5, <2>2 DEF LevelSum, R
<1> QED
  BY <1>4, <1>5

-----------------------------------------------------------------------------
(* The numbers the book caches are those of its orders.                    *)
NumbersOK ==
  /\ TotalsOK(book, live_orders, orders)
  /\ CountsOK(live_order_counts, live_orders, orders)

(* What the induction hypothesis says of the resting orders.               *)
LEMMA LiveNow ==
  ASSUME IInv
  PROVE  /\ live_orders \in SUBSET OrderIds /\ IsFiniteSet(live_orders)
         /\ orders \in Orders /\ book \in Books
         /\ live_order_counts \in [Accounts -> Nat]
         /\ \A x \in live_orders : orders[x] # NoOrder
<1>1. live_orders \in SUBSET OrderIds /\ live_order_counts \in [Accounts -> Nat]
  BY DEF IInv, TypeOK
<1>2. IsFiniteSet(live_orders)
  BY <1>1, FiniteAssumption, FS_Subset
<1>3. \A x \in live_orders : orders[x] # NoOrder
  BY LiveFacts DEF Known
<1> QED
  BY <1>1, <1>2, <1>3, Types DEF IInv

(* They stay right when the resting orders change in nothing they count.   *)
LEMMA SameNumbers ==
  ASSUME NEW bk, NEW counts, NEW lv \in SUBSET OrderIds,
         NEW ord \in Orders, NEW ord2 \in Orders,
         TotalsOK(bk, lv, ord), CountsOK(counts, lv, ord),
         \A x \in lv : /\ ord[x] # NoOrder
                       /\ ord2[x].side = ord[x].side
                       /\ ord2[x].price = ord[x].price
                       /\ ord2[x].account = ord[x].account
                       /\ ord2[x].remaining = ord[x].remaining
  PROVE  TotalsOK(bk, lv, ord2) /\ CountsOK(counts, lv, ord2)
<1>1. TotalsOK(bk, lv, ord2)
  BY LevelSumSame DEF TotalsOK
<1>2. CountsOK(counts, lv, ord2)
  <2> SUFFICES ASSUME NEW a \in Accounts
               PROVE  counts[a] = Cardinality({id \in lv : ord2[id].account = a})
    BY DEF CountsOK
  <2>1. {id \in lv : ord2[id].account = a} = {id \in lv : ord[id].account = a}
    OBVIOUS
  <2> QED
    BY <2>1 DEF CountsOK
<1> QED
  BY <1>1, <1>2

(* A resized order moves the total of its level by as much.                *)
LEMMA ResizedNumbers ==
  ASSUME IInv, NumbersOK, NEW id \in live_orders, orders' \in Orders,
         \A x \in live_orders : x # id => orders'[x] = orders[x],
         orders'[id] # NoOrder,
         orders'[id].side = orders[id].side,
         orders'[id].price = orders[id].price,
         orders'[id].account = orders[id].account,
         \A s \in Side, p \in Prices :
           book'[s][p].total =
             IF orders[id].side = s /\ orders[id].price = p
             THEN book[s][p].total - orders[id].remaining + orders'[id].remaining
             ELSE book[s][p].total,
         UNCHANGED <<live_orders, live_order_counts>>
  PROVE  NumbersOK'
<1> DEFINE lv == live_orders
           ord == orders
           ord2 == orders'
<1>1. /\ lv \in SUBSET OrderIds /\ ord \in Orders /\ ord2 \in Orders
      /\ \A x \in lv : ord[x] # NoOrder /\ ord2[x] # NoOrder
      /\ \A x \in lv : x # id => ord2[x] = ord[x]
      /\ id \in lv /\ ord2[id].side = ord[id].side /\ ord2[id].price = ord[id].price
  BY LiveNow
<1>2. TotalsOK(book', live_orders', orders')
  <2> SUFFICES ASSUME NEW s \in Side, NEW p \in Prices
               PROVE  book'[s][p].total = LevelSum(lv, ord2, s, p)
    BY DEF TotalsOK
  <2>1. book[s][p].total = LevelSum(lv, ord, s, p)
    BY DEF NumbersOK, TotalsOK
  <2> HIDE DEF lv, ord, ord2
  <2>2. LevelSum(lv, ord2, s, p) =
          IF ord[id].side = s /\ ord[id].price = p
          THEN LevelSum(lv, ord, s, p) - ord[id].remaining + ord2[id].remaining
          ELSE LevelSum(lv, ord, s, p)
    BY <1>1, LevelSumResized
  <2> QED
    BY <2>1, <2>2 DEF lv, ord, ord2
<1>3. CountsOK(live_order_counts', live_orders', orders')
  <2> SUFFICES ASSUME NEW a \in Accounts
               PROVE  live_order_counts[a] = Cardinality({x \in lv : ord2[x].account = a})
    BY DEF CountsOK
  <2>1. {x \in lv : ord2[x].account = a} = {x \in lv : ord[x].account = a}
    BY <1>1
  <2> QED
    BY <2>1 DEF NumbersOK, CountsOK
<1> QED
  BY <1>2, <1>3 DEF NumbersOK

(* An order that leaves takes its quantity off its level and one off the
   count of its account.                                                   *)
LEMMA UnlinkNumbers ==
  ASSUME IInv, NumbersOK, NEW id \in live_orders,
         NEW i \in DOMAIN LevelOf(orders[id]).fifo, Unlink(id, i)
  PROVE  /\ TotalsOK(book', live_orders', orders)
         /\ CountsOK(live_order_counts', live_orders', orders)
<1> DEFINE o == orders[id]
           level == Dequeue(LevelOf(o), i, o.remaining)
<1>1. /\ o.side \in Side /\ o.price \in Prices /\ o.account \in Accounts
  BY LiveFacts
<1>2. /\ live_orders \in SUBSET OrderIds /\ IsFiniteSet(live_orders)
      /\ orders \in Orders /\ book \in Books
      /\ live_order_counts \in [Accounts -> Nat]
      /\ \A x \in live_orders : orders[x] # NoOrder
  BY LiveNow
<1>3. /\ book' = [book EXCEPT ![o.side][o.price] = level]
      /\ live_orders' = live_orders \ {id}
      /\ live_order_counts' = Decremented(live_order_counts, o.account)
  BY DEF Unlink
<1>4. level.total = book[o.side][o.price].total - o.remaining
  BY DEF Dequeue, LevelOf
<1> HIDE DEF level
<1>5. \A s \in Side, p \in Prices :
        book'[s][p].total = IF o.side = s /\ o.price = p
                            THEN book[s][p].total - o.remaining
                            ELSE book[s][p].total
  <2> TAKE s \in Side, p \in Prices
  <2>1. book'[s][p] = IF s = o.side /\ p = o.price THEN level ELSE book[s][p]
    BY <1>1, <1>2, <1>3 DEF Books
  <2> QED
    BY <1>4, <2>1
<1>6. TotalsOK(book', live_orders \ {id}, orders)
  <2> SUFFICES ASSUME NEW s \in Side, NEW p \in Prices
               PROVE  book'[s][p].total = LevelSum(live_orders \ {id}, orders, s, p)
    BY DEF TotalsOK
  <2>1. book[s][p].total = LevelSum(live_orders, orders, s, p)
    BY DEF NumbersOK, TotalsOK
  <2>2. LevelSum(live_orders \ {id}, orders, s, p) =
          IF o.side = s /\ o.price = p
          THEN LevelSum(live_orders, orders, s, p) - o.remaining
          ELSE LevelSum(live_orders, orders, s, p)
    BY <1>2, LevelSumWithout
  <2> QED
    BY <1>5, <2>1, <2>2
<1>7. CountsOK(live_order_counts', live_orders \ {id}, orders)
  <2> SUFFICES ASSUME NEW a \in Accounts
               PROVE  live_order_counts'[a] =
                        Cardinality({x \in live_orders \ {id} : orders[x].account = a})
    BY DEF CountsOK
  <2> DEFINE A == {x \in live_orders : orders[x].account = a}
             B == {x \in live_orders \ {id} : orders[x].account = a}
  <2>1. IsFiniteSet(A) /\ Cardinality(A) = live_order_counts[a]
        /\ live_order_counts[a] \in Nat
    BY <1>2, FS_Subset DEF NumbersOK, CountsOK
  <2>2. live_order_counts'[a] =
          IF a = o.account THEN IF live_order_counts[a] > 1 THEN live_order_counts[a] - 1 ELSE 0
          ELSE live_order_counts[a]
    BY <1>1, <1>2, <1>3 DEF Decremented
  <2>3. CASE a = o.account
    <3>1. id \in A /\ B = A \ {id}
      BY <2>3
    <3> HIDE DEF A, B
    <3>2. Cardinality(B) = Cardinality(A) - 1 /\ Cardinality(B) \in Nat
      BY <2>1, <3>1, FS_RemoveElement, FS_CardinalityType
    <3> QED
      BY <2>1, <2>2, <2>3, <3>2 DEF B
  <2>4. CASE a # o.account
    <3>1. B = A
      BY <2>4
    <3> QED
      BY <2>1, <2>2, <2>4, <3>1
  <2> QED
    BY <2>3, <2>4
<1> QED
  BY <1>3, <1>6, <1>7

(* An order that joins adds to both; a level that is made anew held nothing. *)
LEMMA RestNumbers ==
  ASSUME IInv, NumbersOK, incoming # None, orders[incoming].price \in Prices, Rest(incoming)
  PROVE  /\ TotalsOK(book', live_orders', orders)
         /\ CountsOK(live_order_counts', live_orders', orders)
<1> DEFINE o == orders[incoming]
           level == IF o.price \in index[o.side] THEN book[o.side][o.price] ELSE EmptyLevel
           longer == Enqueue(level, incoming, o.remaining)
<1>1. /\ o \in Order /\ o.side \in Side /\ o.price \in Prices /\ o.account \in Accounts
      /\ incoming \in OrderIds /\ incoming \notin live_orders /\ o # NoOrder
  BY IncomingFacts DEF Order, Known
<1>2. /\ live_orders \in SUBSET OrderIds /\ IsFiniteSet(live_orders)
      /\ orders \in Orders /\ book \in Books
      /\ live_order_counts \in [Accounts -> Nat]
      /\ \A x \in live_orders : orders[x] # NoOrder
  BY LiveNow
<1>3. /\ book' = [book EXCEPT ![o.side][o.price] = longer]
      /\ live_orders' = live_orders \cup {incoming}
      /\ live_order_counts' = [live_order_counts EXCEPT ![o.account] = @ + 1]
  BY DEF Rest
<1>4. level.total = LevelSum(live_orders, orders, o.side, o.price)
  <2>1. CASE o.price \in index[o.side]
    BY <1>1, <2>1 DEF NumbersOK, TotalsOK
  <2>2. CASE o.price \notin index[o.side]
    <3>1. Placed(book, index, live_orders, orders)
      BY PlacedNow
    <3>2. book[o.side][o.price].fifo = << >>
      BY <1>1, <2>2, <3>1 DEF Placed, Indexed
    <3>3. RestingAt(live_orders, orders, o.side, o.price) = {}
      BY <3>1, <3>2 DEF Placed, Held, RestingAt
    <3> QED
      BY <2>2, <3>3, TotalEmpty DEF LevelSum, EmptyLevel
  <2> QED
    BY <2>1, <2>2
<1> HIDE DEF level
<1>5. longer.total = level.total + o.remaining
  BY DEF Enqueue
<1> HIDE DEF longer
<1>6. \A s \in Side, p \in Prices :
        book'[s][p] = IF s = o.side /\ p = o.price THEN longer ELSE book[s][p]
  BY <1>1, <1>2, <1>3 DEF Books
<1>7. TotalsOK(book', live_orders \cup {incoming}, orders)
  <2> SUFFICES ASSUME NEW s \in Side, NEW p \in Prices
               PROVE  book'[s][p].total = LevelSum(live_orders \cup {incoming}, orders, s, p)
    BY DEF TotalsOK
  <2>1. book[s][p].total = LevelSum(live_orders, orders, s, p)
    BY DEF NumbersOK, TotalsOK
  <2>2. LevelSum(live_orders \cup {incoming}, orders, s, p) =
          IF o.side = s /\ o.price = p
          THEN LevelSum(live_orders, orders, s, p) + o.remaining
          ELSE LevelSum(live_orders, orders, s, p)
    BY <1>1, <1>2, LevelSumWith
  <2> QED
    BY <1>4, <1>5, <1>6, <2>1, <2>2
<1>8. CountsOK(live_order_counts', live_orders \cup {incoming}, orders)
  <2> SUFFICES ASSUME NEW a \in Accounts
               PROVE  live_order_counts'[a] =
                        Cardinality({x \in live_orders \cup {incoming} : orders[x].account = a})
    BY DEF CountsOK
  <2> DEFINE A == {x \in live_orders : orders[x].account = a}
             B == {x \in live_orders \cup {incoming} : orders[x].account = a}
  <2>1. IsFiniteSet(A) /\ Cardinality(A) = live_order_counts[a]
    BY <1>2, FS_Subset DEF NumbersOK, CountsOK
  <2>2. live_order_counts'[a] =
          IF a = o.account THEN live_order_counts[a] + 1 ELSE live_order_counts[a]
    BY <1>1, <1>2, <1>3
  <2>3. CASE a = o.account
    <3>1. incoming \notin A /\ B = A \cup {incoming}
      BY <1>1, <2>3
    <3> HIDE DEF A, B
    <3>2. Cardinality(B) = Cardinality(A) + 1
      BY <2>1, <3>1, FS_AddElement
    <3> QED
      BY <2>1, <2>2, <2>3, <3>2 DEF B
  <2>4. CASE a # o.account
    <3>1. B = A
      BY <2>4
    <3> QED
      BY <2>1, <2>2, <2>4, <3>1
  <2> QED
    BY <2>3, <2>4
<1> QED
  BY <1>3, <1>7, <1>8

(* A step that leaves the book alone, and of its orders at most the status. *)
LEMMA StillNumbers ==
  ASSUME IInv, NumbersOK, UNCHANGED <<book, live_orders, live_order_counts>>,
         orders' \in Orders, \A x \in live_orders : orders'[x] = orders[x]
  PROVE  NumbersOK'
<1>1. /\ TotalsOK(book, live_orders, orders)
      /\ CountsOK(live_order_counts, live_orders, orders)
  BY DEF NumbersOK
<1> DEFINE ord == orders
           ord2 == orders'
<1>2. /\ live_orders \in SUBSET OrderIds /\ ord \in Orders /\ ord2 \in Orders
      /\ \A x \in live_orders : ord[x] # NoOrder /\ ord2[x] = ord[x]
  BY LiveNow
<1> HIDE DEF ord, ord2
<1>3. /\ TotalsOK(book, live_orders, ord2)
      /\ CountsOK(live_order_counts, live_orders, ord2)
  BY <1>1, <1>2, SameNumbers DEF ord
<1> QED
  BY <1>3 DEF NumbersOK, ord2

(* The numbers follow every step: a trade, a removal and a resize move the
   total of one level and at most one count, and nothing else moves any.    *)
LEMMA NumbersStep == IInv /\ NumbersOK /\ [Next]_vars => NumbersOK'
<1> SUFFICES ASSUME IInv, NumbersOK, [Next]_vars
             PROVE  NumbersOK'
  OBVIOUS
<1>0. orders' \in Orders /\ orders \in Orders /\ live_orders' \in SUBSET OrderIds
  BY NextInv, Types DEF IInv, TypeOK, Orders
<1>1. CASE UNCHANGED <<book, live_orders, live_order_counts, orders>>
  BY <1>0, <1>1, StillNumbers
<1>2. ASSUME NEW x \in OrderIds, NEW new, orders' = [orders EXCEPT ![x] = new],
             x \notin live_orders, UNCHANGED <<book, live_orders, live_order_counts>>
      PROVE  NumbersOK'
  BY <1>0, <1>2, OneOrderChanges, StillNumbers
<1>3. ASSUME NEW x \in OrderIds, NEW r \in Requests, Accept(x, r)
      PROVE  NumbersOK'
  BY <1>2, <1>3, LiveFacts DEF Accept, Refused, Invalid
<1>4. ASSUME NEW x \in OrderIds, NEW r \in RiskRequests, RejectByRisk(x, r)
      PROVE  NumbersOK'
  BY <1>1, <1>2, <1>4, LiveFacts DEF RejectByRisk
<1>5. ASSUME NEW x \in live_orders, NEW i \in DOMAIN LevelOf(orders[x]).fifo,
             Unlink(x, i), NEW new, orders' = [orders EXCEPT ![x] = new]
      PROVE  NumbersOK'
  <2>1. /\ TotalsOK(book', live_orders', orders)
        /\ CountsOK(live_order_counts', live_orders', orders)
    BY <1>5, UnlinkNumbers
  <2>2. x \in OrderIds /\ live_orders' = live_orders \ {x}
    BY <1>5, LiveFacts DEF Unlink
  <2>3. \A y \in live_orders' : orders[y] # NoOrder /\ orders'[y] = orders[y]
    BY <1>0, <1>5, <2>2, OneOrderChanges, LiveNow
  <2> DEFINE bk == book'
             lv == live_orders'
             counts == live_order_counts'
             ord == orders
             ord2 == orders'
  <2>4. /\ lv \in SUBSET OrderIds /\ ord \in Orders /\ ord2 \in Orders
        /\ TotalsOK(bk, lv, ord) /\ CountsOK(counts, lv, ord)
        /\ \A y \in lv : ord[y] # NoOrder /\ ord2[y] = ord[y]
    BY <1>0, <2>1, <2>3
  <2> HIDE DEF bk, lv, counts, ord, ord2
  <2>5. TotalsOK(bk, lv, ord2) /\ CountsOK(counts, lv, ord2)
    BY <2>4, SameNumbers
  <2> QED
    BY <2>5 DEF NumbersOK, bk, lv, counts, ord2
<1>6. ASSUME NEW x \in OrderIds, NEW who \in Accounts \cup {None}, Cancel(x, who)
      PROVE  NumbersOK'
  <2>1. PICK i \in DOMAIN LevelOf(orders[x]).fifo : Unlink(x, i)
    BY <1>6 DEF Cancel
  <2> QED
    BY <1>5, <1>6, <2>1 DEF Cancel, MayTouch
<1>7. ASSUME NEW x \in OrderIds, NEW who \in Accounts \cup {None},
             NEW q \in ModifyQuantities, NEW p \in ModifyPrices,
             ModifyAndRequeue(x, who, q, p)
      PROVE  NumbersOK'
  <2>1. PICK i \in DOMAIN LevelOf(orders[x]).fifo : Unlink(x, i)
    BY <1>7 DEF ModifyAndRequeue
  <2> QED
    BY <1>5, <1>7, <2>1 DEF ModifyAndRequeue, Modifiable, MayTouch
<1>8. ASSUME NEW x \in OrderIds, NEW who \in Accounts \cup {None},
             NEW q \in ModifyQuantities, NEW p \in ModifyPrices,
             ModifyInPlace(x, who, q, p)
      PROVE  NumbersOK'
  <2> DEFINE o == orders[x]
             new == Resized(o, q)
  <2>1. /\ x \in live_orders /\ q > o.filled /\ q \in Nat
        /\ orders' = [orders EXCEPT ![x] = new]
        /\ book' = [book EXCEPT ![o.side][o.price].total = @ + new.remaining - o.remaining]
        /\ UNCHANGED <<live_orders, live_order_counts>>
    BY <1>8, ModifyAssumption DEF ModifyInPlace, Modifiable, MayTouch
  <2>2. o \in Order /\ o.side \in Side /\ o.price \in Prices
    BY <2>1, LiveFacts
  <2>3. /\ new # NoOrder /\ new.side = o.side /\ new.price = o.price
        /\ new.account = o.account /\ new.remaining \in Nat /\ o.remaining \in Nat
    BY <2>1, <2>2, ResizedFacts DEF Order
  <2> HIDE DEF o, new
  <2>4. orders'[x] = new /\ \A y \in OrderIds : y # x => orders'[y] = orders[y]
    BY <2>1, OneOrderChanges
  <2>5. \A s \in Side, r \in Prices :
          book'[s][r].total = IF o.side = s /\ o.price = r
                              THEN book[s][r].total - o.remaining + new.remaining
                              ELSE book[s][r].total
    <3> TAKE s \in Side, r \in Prices
    <3>1. book \in Books /\ book[s][r] \in Level
      BY LiveNow DEF Books
    <3>2. book[s][r].total \in Int
      BY <3>1 DEF Level
    <3>3. CASE o.side = s /\ o.price = r
      <4>1. book'[s][r].total = book[s][r].total + new.remaining - o.remaining
        BY <2>1, <2>2, <3>1, <3>3 DEF Books, Level
      <4> QED
        BY <2>3, <3>2, <3>3, <4>1
    <3>4. CASE ~(o.side = s /\ o.price = r)
      BY <2>1, <2>2, <3>1, <3>4 DEF Books, Level
    <3> QED
      BY <3>3, <3>4
  <2>6. \A y \in live_orders : y # x => orders'[y] = orders[y]
    BY <2>4, LiveFacts
  <2>7. orders[x] = o
    BY DEF o
  <2>8. /\ orders'[x] # NoOrder /\ orders'[x].side = orders[x].side
        /\ orders'[x].price = orders[x].price /\ orders'[x].account = orders[x].account
    BY <2>3, <2>4, <2>7
  <2>9. \A s \in Side, r \in Prices :
          book'[s][r].total = IF orders[x].side = s /\ orders[x].price = r
                              THEN book[s][r].total - orders[x].remaining + orders'[x].remaining
                              ELSE book[s][r].total
    BY <2>4, <2>5, <2>7
  <2> QED
    BY <1>0, <2>1, <2>6, <2>8, <2>9, ResizedNumbers
<1>9. ASSUME NEW p \in Prices, TradePartOfMaker(p)
      PROVE  NumbersOK'
  <2> DEFINE m == Maker(p)
             q == TradeQuantity(p)
  <2>1. /\ Executes(p) /\ Meets(p)
        /\ book' = [book EXCEPT ![Opposing][p].total = @ - q]
        /\ UNCHANGED <<live_orders, live_order_counts>>
    BY <1>9 DEF TradePartOfMaker, Executes
  <2>2. /\ m \in live_orders /\ incoming # None
        /\ orders[m].side = Opposing /\ orders[m].price = p
        /\ q \in Nat /\ q <= orders[m].remaining
    BY <2>1, MakerFacts
  <2>3. incoming \notin live_orders /\ orders[m] \in Order /\ Opposing \in Side
    BY <2>2, LiveFacts, IncomingFacts
  <2>4. /\ orders'[m] = Filled(orders[m], q)
        /\ \A y \in live_orders : y # m => orders'[y] = orders[y]
    BY <2>1, <2>3, ExecutesFacts, LiveFacts
  <2>5. /\ orders'[m] # NoOrder /\ orders'[m].side = orders[m].side
        /\ orders'[m].price = orders[m].price /\ orders'[m].account = orders[m].account
        /\ orders'[m].remaining = orders[m].remaining - q
        /\ orders[m].remaining \in Nat
    BY <2>2, <2>3, <2>4, FilledFacts DEF Order
  <2> HIDE DEF m, q
  <2>6. \A s \in Side, r \in Prices :
          book'[s][r].total = IF orders[m].side = s /\ orders[m].price = r
                              THEN book[s][r].total - orders[m].remaining + orders'[m].remaining
                              ELSE book[s][r].total
    <3> TAKE s \in Side, r \in Prices
    <3>1. book \in Books /\ book[s][r] \in Level
      BY LiveNow DEF Books
    <3>2. book[s][r].total \in Int
      BY <3>1 DEF Level
    <3>3. CASE orders[m].side = s /\ orders[m].price = r
      <4>1. s = Opposing /\ r = p
        BY <2>2, <3>3
      <4>2. book'[s][r].total = book[s][r].total - q
        BY <2>1, <3>1, <4>1 DEF Books, Level
      <4> QED
        BY <2>2, <2>5, <3>2, <3>3, <4>2
    <3>4. CASE ~(orders[m].side = s /\ orders[m].price = r)
      <4>1. s # Opposing \/ r # p
        BY <2>2, <3>4
      <4>2. book'[s][r].total = book[s][r].total
        BY <2>1, <2>3, <3>1, <4>1 DEF Books, Level
      <4> QED
        BY <3>4, <4>2
    <3> QED
      BY <3>3, <3>4
  <2> QED
    BY <1>0, <2>1, <2>2, <2>4, <2>5, <2>6, ResizedNumbers
<1>10. ASSUME NEW p \in Prices, TradeAllOfMaker(p)
      PROVE  NumbersOK'
  <2> DEFINE m == Maker(p)
  <2>1. Executes(p) /\ Meets(p) /\ Unlink(m, 1)
    BY <1>10 DEF TradeAllOfMaker, Executes
  <2>2. /\ m \in live_orders /\ incoming # None
        /\ 1 \in DOMAIN LevelOf(orders[m]).fifo
    BY <2>1, MakerFacts
  <2>3. incoming \notin live_orders /\ live_orders' = live_orders \ {m}
    BY <2>1, <2>2, IncomingFacts DEF Unlink
  <2>4. \A y \in live_orders' : orders[y] # NoOrder /\ orders'[y] = orders[y]
    BY <2>1, <2>3, ExecutesFacts, LiveNow
  <2> HIDE DEF m
  <2>5. /\ TotalsOK(book', live_orders', orders)
        /\ CountsOK(live_order_counts', live_orders', orders)
    BY <2>1, <2>2, UnlinkNumbers
  <2> DEFINE bk == book'
             lv == live_orders'
             counts == live_order_counts'
             ord == orders
             ord2 == orders'
  <2>6. /\ lv \in SUBSET OrderIds /\ ord \in Orders /\ ord2 \in Orders
        /\ TotalsOK(bk, lv, ord) /\ CountsOK(counts, lv, ord)
        /\ \A y \in lv : ord[y] # NoOrder /\ ord2[y] = ord[y]
    BY <1>0, <2>4, <2>5
  <2> HIDE DEF bk, lv, counts, ord, ord2
  <2>7. TotalsOK(bk, lv, ord2) /\ CountsOK(counts, lv, ord2)
    BY <2>6, SameNumbers
  <2> QED
    BY <2>7 DEF NumbersOK, bk, lv, counts, ord2
<1>11. CASE PreventSelfTrade \/ CancelRemainder
  <2>1. /\ incoming # None /\ UNCHANGED <<book, live_orders, live_order_counts>>
        /\ orders' = [orders EXCEPT ![incoming] = [orders[incoming] EXCEPT !.status = "CANCELLED"]]
    BY <1>11 DEF PreventSelfTrade, CancelRemainder, Meets, Executing
  <2> QED
    BY <1>2, <2>1, IncomingFacts
<1>12. CASE RestRemainder
  <2>1. /\ incoming # None /\ Rest(incoming) /\ UNCHANGED orders
        /\ ~NeverRests(orders[incoming])
    BY <1>12 DEF RestRemainder, Executing
  <2>2. orders[incoming].type = "LIMIT"
    BY <2>1, IncomingFacts DEF NeverRests, Order, OrderType
  <2>3. orders[incoming].price \in Prices
    BY <2>1, <2>2 DEF IInv, IncomingOK
  <2> QED
    BY <2>1, <2>3, RestNumbers DEF NumbersOK
<1>13. CASE Command
  <2>1. ASSUME NEW x, NEW r, RejectSubmit(x, r)
        PROVE  NumbersOK'
    BY <1>1, <2>1 DEF RejectSubmit
  <2>2. ASSUME NEW x, NEW who, RejectCancel(x, who)
        PROVE  NumbersOK'
    BY <1>1, <2>2 DEF RejectCancel
  <2>3. ASSUME NEW x, NEW who, NEW q, NEW p, RejectModify(x, who, q, p)
        PROVE  NumbersOK'
    BY <1>1, <2>3 DEF RejectModify
  <2> QED
    BY <1>3, <1>4, <1>6, <1>7, <1>8, <1>13, <2>1, <2>2, <2>3 DEF Command
<1>14. CASE Trade
  BY <1>9, <1>10, <1>14 DEF Trade
<1>15. CASE CompleteFilled \/ UNCHANGED vars
  BY <1>1, <1>15 DEF CompleteFilled, vars
<1> QED
  BY <1>11, <1>12, <1>13, <1>14, <1>15 DEF Next, Match

-----------------------------------------------------------------------------
(* What an order has traded, according to a log of trades.                 *)
TradeRecord == [maker : OrderIds, taker : OrderIds, price : Prices, quantity : Nat]

TradeQuantities(log) == [k \in DOMAIN log |-> log[k].quantity]

TradesOf(log, id) == {k \in DOMAIN log : id \in {log[k].maker, log[k].taker}}

Traded(log, id) == Total(TradeQuantities(log), TradesOf(log, id))

(* The trades of an order are finitely many, of natural quantities.        *)
LEMMA TradesOfFacts ==
  ASSUME NEW log \in Seq(TradeRecord), NEW id
  PROVE  /\ IsFiniteSet(TradesOf(log, id))
         /\ \A k \in TradesOf(log, id) : TradeQuantities(log)[k] \in Int
         /\ Traded(log, id) \in Int
<1>1. DOMAIN log = 1 .. Len(log) /\ Len(log) \in Nat
  OBVIOUS
<1>2. IsFiniteSet(TradesOf(log, id))
  <2>1. IsFiniteSet(1 .. Len(log))
    BY <1>1, FS_Interval
  <2>2. TradesOf(log, id) \in SUBSET (1 .. Len(log))
    BY <1>1 DEF TradesOf
  <2> QED
    BY <2>1, <2>2, FS_Subset
<1>3. \A k \in DOMAIN log : log[k] \in TradeRecord
  OBVIOUS
<1>4. \A k \in TradesOf(log, id) : TradeQuantities(log)[k] \in Int
  BY <1>3 DEF TradesOf, TradeQuantities, TradeRecord
<1> QED
  BY <1>2, <1>4, TotalInt DEF Traded

(* One more trade adds to what its two orders have traded.                 *)
LEMMA TradedAppend ==
  ASSUME NEW log \in Seq(TradeRecord), NEW t \in TradeRecord, NEW id
  PROVE  Traded(Append(log, t), id) =
           IF id \in {t.maker, t.taker} THEN Traded(log, id) + t.quantity
           ELSE Traded(log, id)
<1> DEFINE n == Len(log) + 1
           more == Append(log, t)
           old == TradesOf(log, id)
<1>1. /\ more \in Seq(TradeRecord) /\ n \in Nat
      /\ DOMAIN log = 1 .. Len(log) /\ DOMAIN more = 1 .. n
      /\ n \notin DOMAIN log /\ n \in DOMAIN more
      /\ more[n] = t /\ \A k \in DOMAIN log : k \in DOMAIN more /\ more[k] = log[k]
      /\ \A k \in DOMAIN more : k # n => k \in DOMAIN log
  OBVIOUS
<1>2. /\ IsFiniteSet(old) /\ \A k \in old : TradeQuantities(log)[k] \in Int
      /\ Traded(log, id) \in Int
  BY TradesOfFacts
<1>3. t.quantity \in Int
  BY DEF TradeRecord
<1> HIDE DEF n, more
<1>4. \A k \in old : k \in DOMAIN log
  BY DEF TradesOf
<1>5. \A k \in old : TradeQuantities(more)[k] = TradeQuantities(log)[k]
  BY <1>1, <1>4 DEF TradeQuantities
<1>6. Total(TradeQuantities(more), old) = Traded(log, id)
  <2> HIDE DEF old
  <2>1. Total(TradeQuantities(more), old) = Total(TradeQuantities(log), old)
    BY <1>2, <1>5, TotalSame
  <2> QED
    BY <2>1 DEF Traded, old
<1>7. CASE id \in {t.maker, t.taker}
  <2>1. TradesOf(more, id) = old \cup {n} /\ n \notin old
    BY <1>1, <1>7 DEF TradesOf
  <2>2. TradeQuantities(more)[n] = t.quantity
    BY <1>1 DEF TradeQuantities
  <2> HIDE DEF old
  <2>3. \A k \in old : TradeQuantities(more)[k] \in Int
    BY <1>2, <1>5
  <2>4. Total(TradeQuantities(more), old \cup {n}) =
          TradeQuantities(more)[n] + Total(TradeQuantities(more), old)
    BY <1>2, <1>3, <2>1, <2>2, <2>3, TotalAdd
  <2>5. Traded(more, id) = Traded(log, id) + t.quantity
    BY <1>2, <1>3, <1>6, <2>1, <2>2, <2>4 DEF Traded
  <2> QED
    BY <1>7, <2>5 DEF more
<1>8. CASE id \notin {t.maker, t.taker}
  <2>1. TradesOf(more, id) = old
    BY <1>1, <1>8 DEF TradesOf
  <2>2. Traded(more, id) = Traded(log, id)
    BY <1>6, <2>1 DEF Traded
  <2> QED
    BY <1>8, <2>2 DEF more
<1> QED
  BY <1>7, <1>8

(* What is filled is what was traded, and only recorded orders trade.      *)
FilledOK ==
  /\ \A k \in DOMAIN trades : Known(trades[k].maker) /\ Known(trades[k].taker)
  /\ \A id \in OrderIds : Known(id) => orders[id].filled = Traded(trades, id)

(* An order is recorded with nothing filled, and not by a trade: refused by
   the risk gateway, or about to be executed.                              *)
LEMMA NewlyRecorded ==
  ASSUME IInv, [Next]_vars, NEW id \in OrderIds, ~Known(id), orders'[id] # NoOrder
  PROVE  /\ orders'[id].filled = 0 /\ trades' = trades
         /\ \/ orders'[id].status = "REJECTED"
            \/ incoming = None /\ incoming' = id /\ orders'[id].remaining > 0
<1> DEFINE Goal == /\ orders'[id].filled = 0 /\ trades' = trades
                   /\ \/ orders'[id].status = "REJECTED"
                      \/ incoming = None /\ incoming' = id /\ orders'[id].remaining > 0
<1>1. CASE UNCHANGED orders
  BY <1>1 DEF Known
<1>2. ASSUME NEW x \in OrderIds, NEW new, orders' = [orders EXCEPT ![x] = new]
      PROVE  x = id
  BY <1>2, OneOrderChanges DEF Known
<1>3. ASSUME NEW x \in OrderIds, NEW r \in Requests, Accept(x, r)
      PROVE  Goal
  <2>1. /\ x = id /\ trades' = trades /\ r.quantity > 0
        /\ incoming = None /\ incoming' = id
        /\ orders' = [orders EXCEPT ![x] = NewOrder(r, "ACCEPTED", sequence + 1)]
    <3>1. r.quantity \in Nat
      BY RequestsAssumption DEF Request
    <3>2. ~(r.quantity <= 0)
      BY <1>3 DEF Accept, Refused, Invalid
    <3>3. r.quantity > 0
      BY <3>1, <3>2
    <3>4. /\ trades' = trades /\ incoming = None /\ incoming' = x
          /\ orders' = [orders EXCEPT ![x] = NewOrder(r, "ACCEPTED", sequence + 1)]
      BY <1>3 DEF Accept, CanStart
    <3> QED
      BY <1>2, <3>3, <3>4
  <2>2. orders'[x] = NewOrder(r, "ACCEPTED", sequence + 1)
    BY <2>1, OneOrderChanges
  <2> QED
    BY <2>1, <2>2 DEF NewOrder
<1>4. ASSUME NEW x \in OrderIds, NEW r \in RiskRequests, RejectByRisk(x, r)
      PROVE  Goal
  <2>1. CASE Known(x)
    BY <1>1, <1>4, <2>1 DEF RejectByRisk
  <2>2. CASE ~Known(x)
    <3>1. x = id /\ trades' = trades /\ orders' = [orders EXCEPT ![x] = NewOrder(r, "REJECTED", 0)]
      BY <1>2, <1>4, <2>2 DEF RejectByRisk
    <3>2. orders'[x] = NewOrder(r, "REJECTED", 0)
      BY <3>1, OneOrderChanges
    <3> QED
      BY <3>1, <3>2 DEF NewOrder
  <2> QED
    BY <2>1, <2>2
<1>5. ASSUME NEW x \in live_orders, NEW new, orders' = [orders EXCEPT ![x] = new]
      PROVE  FALSE
  BY <1>2, <1>5, LiveFacts
<1>6. ASSUME NEW x \in OrderIds, NEW who \in Accounts \cup {None}, Cancel(x, who)
      PROVE  FALSE
  BY <1>5, <1>6 DEF Cancel, MayTouch
<1>7. ASSUME NEW x \in OrderIds, NEW who \in Accounts \cup {None},
             NEW q \in ModifyQuantities, NEW p \in ModifyPrices,
             ModifyInPlace(x, who, q, p) \/ ModifyAndRequeue(x, who, q, p)
      PROVE  FALSE
  BY <1>5, <1>7 DEF ModifyInPlace, ModifyAndRequeue, Modifiable, MayTouch
<1>8. CASE PreventSelfTrade \/ CancelRemainder
  <2>1. /\ incoming # None
        /\ orders' = [orders EXCEPT ![incoming] = [orders[incoming] EXCEPT !.status = "CANCELLED"]]
    BY <1>8 DEF PreventSelfTrade, CancelRemainder, Meets, Executing
  <2> QED
    BY <1>2, <2>1, IncomingFacts
<1>9. CASE Trade
  BY <1>9, ExecutesFacts DEF Trade, TradePartOfMaker, TradeAllOfMaker, Known
<1>10. CASE Command
  <2>1. ASSUME NEW x, NEW r, RejectSubmit(x, r)
        PROVE  Goal
    BY <1>1, <2>1 DEF RejectSubmit
  <2>2. ASSUME NEW x, NEW who, RejectCancel(x, who)
        PROVE  Goal
    BY <1>1, <2>2 DEF RejectCancel
  <2>3. ASSUME NEW x, NEW who, NEW q, NEW p, RejectModify(x, who, q, p)
        PROVE  Goal
    BY <1>1, <2>3 DEF RejectModify
  <2> QED
    BY <1>3, <1>4, <1>6, <1>7, <1>10, <2>1, <2>2, <2>3 DEF Command
<1>11. CASE CompleteFilled \/ RestRemainder \/ UNCHANGED vars
  BY <1>1, <1>11 DEF CompleteFilled, RestRemainder, vars
<1> QED
  BY <1>8, <1>9, <1>10, <1>11 DEF Next, Match

(* The fills of a trade are those of its record.                           *)
LEMMA FilledStep == IInv /\ FilledOK /\ [Next]_vars => FilledOK'
<1> SUFFICES ASSUME IInv, FilledOK, [Next]_vars
             PROVE  FilledOK'
  OBVIOUS
<1>0. trades \in Seq(TradeRecord)
  BY DEF IInv, TypeOK, TradeRecord
<1>1. \A id \in OrderIds : Known(id) => orders'[id] # NoOrder
  BY OrderKept DEF Kept
<1>2. \A k \in DOMAIN trades : /\ trades[k].maker \in OrderIds /\ trades[k].taker \in OrderIds
                               /\ orders'[trades[k].maker] # NoOrder
                               /\ orders'[trades[k].taker] # NoOrder
  <2> TAKE k \in DOMAIN trades
  <2>1. trades[k] \in TradeRecord
    BY <1>0
  <2>2. trades[k].maker \in OrderIds /\ trades[k].taker \in OrderIds
    BY <2>1 DEF TradeRecord
  <2> QED
    BY <1>1, <2>2 DEF FilledOK
<1>3. ASSUME NEW id \in OrderIds, ~Known(id), orders'[id] # NoOrder
      PROVE  orders'[id].filled = Traded(trades', id)
  <2>1. orders'[id].filled = 0 /\ trades' = trades
    BY <1>3, NewlyRecorded
  <2>2. TradesOf(trades, id) = {}
    BY <1>3 DEF TradesOf, FilledOK
  <2> QED
    BY <2>1, <2>2, TotalEmpty DEF Traded
<1>4. CASE ~Trade
  <2>1. trades' = trades
    BY <1>4, TradesGrow DEF Trade
  <2>2. ASSUME NEW id \in OrderIds, Known(id)
        PROVE  orders'[id].filled = Traded(trades', id)
    BY <1>4, <2>1, <2>2, OrderKept DEF FilledOK
  <2> QED
    BY <1>2, <1>3, <2>1, <2>2 DEF FilledOK, Known
<1>5. CASE Trade
  <2>1. PICK p \in Prices : Executes(p)
    BY <1>5 DEF Trade, TradePartOfMaker, TradeAllOfMaker
  <2> DEFINE m == Maker(p)
             q == TradeQuantity(p)
             t == [maker |-> m, taker |-> incoming, price |-> p, quantity |-> q]
  <2>2. Meets(p) /\ trades' = Append(trades, t)
    BY <2>1 DEF Executes
  <2>3. /\ m \in live_orders /\ m # incoming /\ incoming # None
        /\ q \in Nat /\ q <= orders[m].remaining /\ q <= orders[incoming].remaining
    BY <2>2, MakerFacts
  <2>4. /\ m \in OrderIds /\ Known(m) /\ orders[m] \in Order
        /\ incoming \in OrderIds /\ Known(incoming) /\ orders[incoming] \in Order
    BY <2>3, LiveFacts, IncomingFacts
  <2>5. t \in TradeRecord
    BY <2>3, <2>4 DEF TradeRecord
  <2>6. t.maker = m /\ t.taker = incoming /\ t.quantity = q
    OBVIOUS
  <2>7. /\ orders'[m] = Filled(orders[m], q)
        /\ orders'[incoming] = Filled(orders[incoming], q)
        /\ \A x \in OrderIds : x # m /\ x # incoming => orders'[x] = orders[x]
    BY <2>1, ExecutesFacts
  <2> HIDE DEF m, q, t
  <2>8. /\ orders'[m].filled = orders[m].filled + q
        /\ orders'[incoming].filled = orders[incoming].filled + q
    BY <2>3, <2>4, <2>7, FilledFacts
  <2>9. ASSUME NEW id \in OrderIds, Known(id)
        PROVE  orders'[id].filled = Traded(trades', id)
    <3>1. Traded(trades', id) = IF id \in {m, incoming} THEN Traded(trades, id) + q
                                ELSE Traded(trades, id)
      BY <1>0, <2>2, <2>5, <2>6, TradedAppend
    <3>2. orders[id].filled = Traded(trades, id)
      BY <2>9 DEF FilledOK
    <3> QED
      BY <2>7, <2>8, <3>1, <3>2
  <2>10. \A k \in DOMAIN trades' : \/ k \in DOMAIN trades /\ trades'[k] = trades[k]
                                   \/ trades'[k] = t
    BY <1>0, <2>2
  <2>11. orders'[m] # NoOrder /\ orders'[incoming] # NoOrder
    BY <1>1, <2>4
  <2>12. \A k \in DOMAIN trades' : orders'[trades'[k].maker] # NoOrder
                                   /\ orders'[trades'[k].taker] # NoOrder
    BY <1>2, <2>6, <2>10, <2>11
  <2> QED
    BY <1>3, <2>9, <2>12 DEF FilledOK, Known
<1> QED
  BY <1>4, <1>5

(* What the book's cached total sums up, in the order of the queue.         *)
LEMMA TotalsByPlace ==
  ASSUME IInv, NumbersOK
  PROVE  LevelTotalsExact
<1> SUFFICES ASSUME NEW s \in Side, NEW p \in Prices
             PROVE  book[s][p].total =
                      MapThenSumSet(LAMBDA i : orders[Fifo(s, p)[i]].remaining,
                                    DOMAIN Fifo(s, p))
  BY DEF LevelTotalsExact
<1> DEFINE fifo == book[s][p].fifo
           S == DOMAIN fifo
           f == [i \in S |-> orders[fifo[i]].remaining]
           R == RestingAt(live_orders, orders, s, p)
<1>1. MapThenSumSet(LAMBDA i : orders[Fifo(s, p)[i]].remaining, DOMAIN Fifo(s, p)) = Total(f, S)
  BY DEF MapThenSumSet, MapThenFoldSet, Total, SumOf, SumStep, AnyOf, Fifo
<1>2. fifo \in Seq(OrderIds) /\ Placed(book, index, live_orders, orders)
  BY PlacedNow DEF IInv, TypeOK
<1>3. IsFiniteSet(S)
  <2> HIDE DEF fifo
  <2>1. S = 1 .. Len(fifo) /\ Len(fifo) \in Nat
    BY <1>2
  <2> QED
    BY <2>1, FS_Interval
<1>4. \A i \in S : fifo[i] \in R /\ f[i] \in Nat /\ Remaining(orders)[fifo[i]] = f[i]
                   /\ orders[fifo[i]].priority \in Nat
  <2> TAKE i \in S
  <2>1. /\ fifo[i] \in live_orders /\ orders[fifo[i]].side = s /\ orders[fifo[i]].price = p
    BY <1>2 DEF Placed, Queued
  <2>2. orders[fifo[i]] \in Order /\ fifo[i] \in OrderIds
    BY <2>1, LiveFacts
  <2> QED
    BY <2>1, <2>2 DEF RestingAt, Remaining, Order
<1>5. \A i, j \in S : fifo[i] = fifo[j] => i = j
  <2> SUFFICES ASSUME NEW i \in S, NEW j \in S, i # j, fifo[i] = fifo[j]
               PROVE  FALSE
    OBVIOUS
  <2>1. i < j \/ j < i
    BY <1>2
  <2>2. \/ orders[fifo[i]].priority < orders[fifo[j]].priority
        \/ orders[fifo[j]].priority < orders[fifo[i]].priority
    BY <1>2, <2>1 DEF Placed, Ranked
  <2>3. orders[fifo[i]].priority \in Nat
    BY <1>4
  <2> HIDE DEF fifo
  <2> QED
    BY <2>2, <2>3
<1>6. {fifo[i] : i \in S} = R
  <2>1. ASSUME NEW x \in R
        PROVE  \E i \in S : fifo[i] = x
    BY <1>2 DEF Placed, Held, RestingAt
  <2> HIDE DEF R, S, fifo
  <2> QED
    BY <1>4, <2>1
<1>7. book[s][p].total = Total(Remaining(orders), R)
  BY DEF NumbersOK, TotalsOK, LevelSum
<1> HIDE DEF R, S, f, fifo
<1>8. Total(Remaining(orders), {fifo[i] : i \in S}) = Total(f, S)
  BY <1>3, <1>4, <1>5, TotalRenamed
<1> QED
  BY <1>1, <1>6, <1>7, <1>8 DEF S, f, fifo

(* What the trades of an order sum up to.                                  *)
LEMMA TradedIsSum ==
  ASSUME IInv, NEW id
  PROVE  MapThenSumSet(LAMBDA k : trades[k].quantity,
                       {k \in DOMAIN trades : id \in {trades[k].maker, trades[k].taker}})
           = Traded(trades, id)
<1> DEFINE S == TradesOf(trades, id)
           f == [k \in S |-> trades[k].quantity]
<1>1. MapThenSumSet(LAMBDA k : trades[k].quantity, S) = Total(f, S)
  BY DEF MapThenSumSet, MapThenFoldSet, Total, SumOf, SumStep, AnyOf
<1>2. trades \in Seq(TradeRecord)
  BY DEF IInv, TypeOK, TradeRecord
<1>3. IsFiniteSet(S) /\ \A k \in S : TradeQuantities(trades)[k] \in Int
  BY <1>2, TradesOfFacts
<1>4. \A k \in S : f[k] = TradeQuantities(trades)[k]
  BY DEF TradeQuantities, TradesOf
<1>5. S = {k \in DOMAIN trades : id \in {trades[k].maker, trades[k].taker}}
  BY DEF TradesOf
<1> HIDE DEF S, f
<1>6. Total(f, S) = Total(TradeQuantities(trades), S)
  BY <1>3, <1>4, TotalSame
<1> QED
  BY <1>1, <1>5, <1>6 DEF Traded, S

(* The numbers of the empty book are right.                                *)
LEMMA InitNumbers == Init => NumbersOK
<1> SUFFICES ASSUME Init PROVE NumbersOK
  OBVIOUS
<1>1. TotalsOK(book, live_orders, orders)
  <2> SUFFICES ASSUME NEW s \in Side, NEW p \in Prices
               PROVE  book[s][p].total = LevelSum(live_orders, orders, s, p)
    BY DEF TotalsOK
  <2>1. RestingAt(live_orders, orders, s, p) = {}
    BY DEF Init, RestingAt
  <2> QED
    BY <2>1, TotalEmpty DEF Init, LevelSum, EmptyLevel
<1>2. CountsOK(live_order_counts, live_orders, orders)
  <2> SUFFICES ASSUME NEW a \in Accounts
               PROVE  live_order_counts[a] =
                        Cardinality({id \in live_orders : orders[id].account = a})
    BY DEF CountsOK
  <2>1. {id \in live_orders : orders[id].account = a} = {}
    BY DEF Init
  <2> QED
    BY <2>1, FS_EmptySet DEF Init
<1> QED
  BY <1>1, <1>2 DEF NumbersOK

(* Quantity is conserved, and the numbers the book caches follow: filled is
   what the trade log says, a level's quantity is that of its orders, and
   the count of an account is the number of orders it has resting.          *)
THEOREM QuantitiesAreKept == Spec => []QuantitiesAddUp
<1>1. Init => FilledOK
  BY DEF Init, FilledOK, Known
<1>2. IInv /\ NumbersOK /\ FilledOK => QuantitiesAddUp
  <2> SUFFICES ASSUME IInv, NumbersOK, FilledOK PROVE QuantitiesAddUp
    OBVIOUS
  <2>1. LevelTotalsExact /\ LiveCountsExact
    BY TotalsByPlace DEF NumbersOK, CountsOK, LiveCountsExact
  <2>2. \A id \in OrderIds : Known(id) =>
          /\ orders[id].filled + orders[id].remaining = orders[id].quantity
          /\ orders[id].filled = Traded(trades, id)
    BY DEF IInv, OrdersOK, FilledOK
  <2> QED
    BY <2>1, <2>2, TradedIsSum DEF QuantitiesAddUp
<1> QED
  BY <1>1, <1>2, InitNumbers, Invariant, NumbersStep, FilledStep, PTL DEF Spec

-----------------------------------------------------------------------------
(* The liquidity a fill-or-kill order counts, by order instead of by place:
   the resting orders it crosses, up to its own first one.                  *)
Candidates(lv, ord, o) ==
  {x \in lv : ord[x].side = Opposite(o.side) /\ Crosses(o, ord[x].price)}

NotBehind(ord, side, y, x) ==
  \/ Better(side, ord[y].price, ord[x].price)
  \/ ord[y].price = ord[x].price /\ ord[y].priority <= ord[x].priority

OwnOrder(ord, o, x) == StpPolicy = "CANCEL_TAKER" /\ ord[x].account = o.account

Reached(lv, ord, o) ==
  {x \in Candidates(lv, ord, o) :
     \A y \in Candidates(lv, ord, o) :
       NotBehind(ord, Opposite(o.side), y, x) => ~OwnOrder(ord, o, y)}

(* The count of available_liquidity is that of the reached orders: places
   and resting orders correspond one to one, and the order of the places is
   price-time priority.                                                    *)
LEMMA AvailableIsSum ==
  ASSUME IInv, NEW o, o.side \in Side
  PROVE  AvailableLiquidity(o) = Total(Remaining(orders), Reached(live_orders, orders, o))
<1> DEFINE side == Opposite(o.side)
           P == Places(side)
           At(a) == book[side][a[1]].fifo[a[2]]
           Own(a) == StpPolicy = "CANCEL_TAKER" /\ Occupant(side, a).account = o.account
           crossing == {a \in P : Crosses(o, a[1])}
           reached == {a \in crossing : \A b \in crossing : NoLater(side, b, a) => ~Own(b)}
           k == [a \in reached |-> Occupant(side, a).remaining]
           C == Candidates(live_orders, orders, o)
           R == Reached(live_orders, orders, o)
<1>1. AvailableLiquidity(o) = Total(k, reached)
  BY DEF AvailableLiquidity, MapThenSumSet, MapThenFoldSet, Total, SumOf, SumStep, AnyOf
<1>2. /\ Placed(book, index, live_orders, orders)
      /\ index \in [Side -> SUBSET Prices] /\ side \in Side
  BY PlacedNow DEF Opposite, Side
<1>3. ASSUME NEW a \in P
      PROVE  /\ a = <<a[1], a[2]>> /\ a[1] \in index[side] /\ a[1] \in Prices
             /\ a[2] \in DOMAIN book[side][a[1]].fifo
             /\ a[2] \in Int
             /\ At(a) \in live_orders /\ orders[At(a)] = Occupant(side, a)
             /\ orders[At(a)].side = side /\ orders[At(a)].price = a[1]
             /\ orders[At(a)].priority \in Nat
  <2>1. PICK p \in index[side] : a \in {p} \X DOMAIN book[side][p].fifo
    BY <1>3 DEF Places
  <2>2. /\ a = <<a[1], a[2]>> /\ a[1] \in index[side] /\ a[1] \in Prices
        /\ a[2] \in DOMAIN book[side][a[1]].fifo
    BY <1>2, <2>1
  <2>3. book[side][a[1]].fifo \in Seq(OrderIds)
    BY <1>2, <2>2 DEF IInv, TypeOK
  <2>4. /\ At(a) \in live_orders
        /\ orders[At(a)].side = side /\ orders[At(a)].price = a[1]
    BY <1>2, <2>2 DEF Placed, Queued
  <2>5. orders[At(a)] \in Order
    BY <2>4, LiveFacts
  <2> QED
    BY <2>2, <2>3, <2>4, <2>5 DEF Occupant, Order
<1>4. ASSUME NEW a \in P, NEW b \in P
      PROVE  /\ NoLater(side, a, b) <=> NotBehind(orders, side, At(a), At(b))
             /\ At(a) = At(b) => a = b
  <2>1. CASE a[1] # b[1]
    <3>1. orders[At(a)].price = a[1] /\ orders[At(b)].price = b[1]
      BY <1>3
    <3>2. NoLater(side, a, b) <=> NotBehind(orders, side, At(a), At(b))
      BY <2>1, <3>1 DEF NoLater, NotBehind
    <3>3. At(a) # At(b)
      BY <2>1, <3>1
    <3> QED
      BY <3>2, <3>3
  <2>2. CASE a[1] = b[1]
    <3> DEFINE i == a[2]
               j == b[2]
               p == a[1]
               f == book[side][p].fifo
    <3>1. /\ p \in Prices /\ i \in DOMAIN f /\ j \in DOMAIN f /\ i \in Int /\ j \in Int
          /\ At(a) = f[i] /\ At(b) = f[j]
          /\ orders[f[i]].priority \in Nat /\ orders[f[j]].priority \in Nat
          /\ orders[f[i]].price = p /\ orders[f[j]].price = p
          /\ a = <<p, i>> /\ b = <<p, j>>
      BY <1>3, <2>2
    <3>2. /\ i < j => orders[f[i]].priority < orders[f[j]].priority
          /\ j < i => orders[f[j]].priority < orders[f[i]].priority
      BY <1>2, <3>1 DEF Placed, Ranked
    <3>3. NoLater(side, a, b) <=> Better(side, p, p) \/ i <= j
      BY <2>2 DEF NoLater
    <3>4. NotBehind(orders, side, At(a), At(b)) <=>
            Better(side, p, p) \/ orders[f[i]].priority <= orders[f[j]].priority
      BY <3>1 DEF NotBehind
    <3> HIDE DEF i, j, f, p
    <3>5. i <= j <=> orders[f[i]].priority <= orders[f[j]].priority
      BY <3>1, <3>2
    <3>6. f[i] = f[j] => i = j
      BY <3>1, <3>2
    <3> QED
      BY <3>1, <3>3, <3>4, <3>5, <3>6
  <2> QED
    BY <2>1, <2>2
<1>5. ASSUME NEW x \in C
      PROVE  \E a \in P : At(a) = x /\ Crosses(o, a[1])
  <2>1. x \in live_orders /\ orders[x].side = side /\ Crosses(o, orders[x].price)
    BY <1>5 DEF Candidates
  <2> DEFINE p == orders[x].price
  <2>2. p \in Prices /\ \E i \in DOMAIN book[side][p].fifo : book[side][p].fifo[i] = x
    BY <1>2, <2>1 DEF Placed, Held
  <2>3. PICK i \in DOMAIN book[side][p].fifo : book[side][p].fifo[i] = x
    BY <2>2
  <2>4. book[side][p].fifo \in Seq(OrderIds)
    BY <1>2, <2>2 DEF IInv, TypeOK
  <2>5. p \in index[side]
    BY <1>2, <2>2, <2>3, <2>4 DEF Placed, Indexed
  <2>6. <<p, i>> \in P
    BY <2>3, <2>5 DEF Places
  <2>7. At(<<p, i>>) = x /\ Crosses(o, <<p, i>>[1])
    BY <2>1, <2>3
  <2> QED
    BY <2>6, <2>7
<1>6. \A a \in crossing : At(a) \in C
  BY <1>3 DEF Candidates
<1>7. ASSUME NEW a \in crossing
      PROVE  a \in reached <=> At(a) \in R
  <2>1. ASSUME a \in reached, NEW y \in C, NotBehind(orders, side, y, At(a))
        PROVE  ~OwnOrder(orders, o, y)
    <3>1. PICK b \in P : At(b) = y /\ Crosses(o, b[1])
      BY <1>5
    <3>2. b \in crossing /\ NoLater(side, b, a)
      BY <1>4, <2>1, <3>1
    <3>3. ~Own(b)
      BY <2>1, <3>2
    <3> QED
      BY <1>3, <3>1, <3>3 DEF OwnOrder
  <2>2. ASSUME At(a) \in R, NEW b \in crossing, NoLater(side, b, a)
        PROVE  ~Own(b)
    <3>1. At(b) \in C /\ NotBehind(orders, side, At(b), At(a))
      BY <1>4, <1>6, <2>2
    <3>2. ~OwnOrder(orders, o, At(b))
      BY <2>2, <3>1 DEF Reached
    <3> QED
      BY <1>3, <3>2 DEF OwnOrder
  <2> QED
    BY <1>6, <2>1, <2>2 DEF Reached
<1> DEFINE place == [x \in R |-> CHOOSE a \in crossing : At(a) = x]
<1>8. \A x \in R : x \in C /\ x \in live_orders
  BY DEF Reached, Candidates
<1>9. ASSUME NEW x \in R
      PROVE  /\ place[x] \in reached /\ At(place[x]) = x
             /\ k[place[x]] = Remaining(orders)[x]
  <2>1. \E a \in crossing : At(a) = x
    BY <1>5, <1>8
  <2>2. place[x] \in crossing /\ At(place[x]) = x
    BY <2>1
  <2>3. place[x] \in reached
    BY <1>7, <2>2
  <2>4. x \in OrderIds
    BY <1>8, LiveFacts
  <2>5. Occupant(side, place[x]) = orders[x]
    BY <2>2 DEF Occupant
  <2> HIDE DEF place, reached
  <2> QED
    BY <2>2, <2>3, <2>4, <2>5 DEF Remaining
<1>10. {place[x] : x \in R} = reached
  <2>1. ASSUME NEW a \in reached
        PROVE  \E x \in R : place[x] = a
    <3>1. At(a) \in R
      BY <1>7
    <3>2. place[At(a)] \in reached /\ At(place[At(a)]) = At(a)
      BY <1>9, <3>1
    <3>3. place[At(a)] = a
      BY <1>4, <3>2
    <3> QED
      BY <3>1, <3>3
  <2> HIDE DEF place, R, reached
  <2> QED
    BY <1>9, <2>1
<1>11. \A x, y \in R : place[x] = place[y] => x = y
  <2> HIDE DEF place, R, reached
  <2> QED
    BY <1>9
<1>12. IsFiniteSet(R)
  <2>1. R \in SUBSET live_orders
    BY <1>8
  <2> QED
    BY <2>1, LiveNow, FS_Subset
<1>13. \A x \in R : Remaining(orders)[x] \in Int
  BY <1>8, LiveFacts DEF Remaining, Order
<1>14. \A x \in R : k[place[x]] = Remaining(orders)[x]
  BY <1>9
<1> HIDE DEF place, R, reached, k
<1>15. Total(k, {place[x] : x \in R}) = Total(Remaining(orders), R)
  BY <1>11, <1>12, <1>13, <1>14, TotalRenamed
<1> QED
  BY <1>1, <1>10, <1>15 DEF R

(* While a fill-or-kill order is executed there is still enough for it.    *)
EnoughForFOK ==
  incoming # None /\ orders[incoming].tif = "FOK" =>
    orders[incoming].remaining <=
      Total(Remaining(orders), Reached(live_orders, orders, orders[incoming]))

(* One that is not being executed, or has nothing left to do, is filled.   *)
FOKsFilled ==
  \A id \in OrderIds :
    Known(id) /\ orders[id].tif = "FOK" /\ orders[id].status # "REJECTED" =>
      \/ orders[id].status = "FILLED"
      \/ id = incoming /\ orders[id].remaining > 0

(* The reached orders depend on what decides price-time priority and on the
   account of the resting orders, and on the side, type, price and account
   of the order that takes.                                                *)
LEMMA ReachedSame ==
  ASSUME NEW lv, NEW ord, NEW ord2, NEW o, NEW o2,
         o2.side = o.side, o2.type = o.type, o2.price = o.price, o2.account = o.account,
         \A x \in lv : /\ ord2[x].side = ord[x].side
                       /\ ord2[x].price = ord[x].price
                       /\ ord2[x].priority = ord[x].priority
                       /\ ord2[x].account = ord[x].account
  PROVE  Reached(lv, ord2, o2) = Reached(lv, ord, o)
<1>1. Candidates(lv, ord2, o2) = Candidates(lv, ord, o)
  BY DEF Candidates, Crosses
<1>2. \A x \in Candidates(lv, ord, o) : x \in lv
  BY DEF Candidates
<1>3. \A x, y \in Candidates(lv, ord, o) :
        NotBehind(ord2, Opposite(o.side), y, x) <=> NotBehind(ord, Opposite(o.side), y, x)
  BY <1>2 DEF NotBehind
<1>4. \A y \in Candidates(lv, ord, o) : OwnOrder(ord2, o2, y) <=> OwnOrder(ord, o, y)
  BY <1>2 DEF OwnOrder
<1> QED
  BY <1>1, <1>3, <1>4 DEF Reached

(* The reached orders of an order are finitely many resting ones.          *)
LEMMA ReachedFacts ==
  ASSUME IInv, NEW o
  PROVE  /\ IsFiniteSet(Reached(live_orders, orders, o))
         /\ Reached(live_orders, orders, o) \in SUBSET live_orders
         /\ \A x \in Reached(live_orders, orders, o) :
              /\ x \in OrderIds /\ Remaining(orders)[x] = orders[x].remaining
              /\ orders[x].remaining \in Nat
         /\ Total(Remaining(orders), Reached(live_orders, orders, o)) \in Int
<1> DEFINE R == Reached(live_orders, orders, o)
<1>1. R \in SUBSET live_orders
  BY DEF Reached, Candidates
<1>2. IsFiniteSet(R)
  BY <1>1, LiveNow, FS_Subset
<1>3. \A x \in R : /\ x \in OrderIds /\ Remaining(orders)[x] = orders[x].remaining
                   /\ orders[x].remaining \in Nat
  BY <1>1, LiveFacts DEF Remaining, Order
<1> HIDE DEF R
<1>4. Total(Remaining(orders), R) \in Int
  BY <1>2, <1>3, TotalInt
<1> QED
  BY <1>1, <1>2, <1>3, <1>4 DEF R

(* The maker of a trade is among the reached orders of the taker.          *)
LEMMA MakerIsReached ==
  ASSUME IInv, NEW p \in Prices, Executes(p)
  PROVE  /\ Maker(p) \in Reached(live_orders, orders, orders[incoming])
         /\ ~OwnOrder(orders, orders[incoming], Maker(p))
<1> DEFINE m == Maker(p)
           o == orders[incoming]
           C == Candidates(live_orders, orders, o)
<1>1. /\ Meets(p) /\ ~OwnMaker(p)
  BY DEF Executes
<1>2. /\ m \in live_orders /\ orders[m].side = Opposing /\ orders[m].price = p
      /\ incoming # None
  BY <1>1, MakerFacts
<1>3. Opposing = Opposite(o.side) /\ Crosses(o, p)
  BY <1>1 DEF Opposing, Meets
<1>4. ~OwnOrder(orders, o, m)
  BY <1>1 DEF OwnMaker, OwnOrder
<1>5. m \in C
  BY <1>2, <1>3 DEF Candidates
<1>6. ASSUME NEW y \in C, NotBehind(orders, Opposite(o.side), y, m)
      PROVE  y = m
  <2> SUFFICES ASSUME y # m PROVE FALSE
    OBVIOUS
  <2>1. y \in live_orders /\ orders[y].side = orders[m].side
    BY <1>2, <1>3 DEF Candidates
  <2>2. FirstInPriority(m)
    BY <1>1, MakerIsFirst
  <2>3. \/ Better(orders[m].side, orders[m].price, orders[y].price)
        \/ orders[m].price = orders[y].price /\ orders[m].priority < orders[y].priority
    BY <2>1, <2>2 DEF FirstInPriority
  <2>4. \/ Better(orders[m].side, orders[y].price, orders[m].price)
        \/ orders[y].price = orders[m].price /\ orders[y].priority <= orders[m].priority
    BY <1>2, <1>3, <1>6 DEF NotBehind
  <2>5. /\ orders[m].price \in Int /\ orders[y].price \in Int
        /\ orders[m].priority \in Int /\ orders[y].priority \in Int
    <3>1. \A x \in live_orders : orders[x].price \in Int /\ orders[x].priority \in Int
      BY LiveFacts, PricesAssumption DEF Order
    <3> QED
      BY <1>2, <2>1, <3>1
  <2> HIDE DEF m
  <2> QED
    BY <2>3, <2>4, <2>5 DEF Better
<1> HIDE DEF m, o, C
<1>7. m \in Reached(live_orders, orders, o)
  BY <1>4, <1>5, <1>6 DEF Reached, C
<1> QED
  BY <1>4, <1>7 DEF m, o

(* A trade takes its quantity off what the taker can still reach.           *)
LEMMA TradeTakesReached ==
  ASSUME IInv, [Next]_vars, NEW p \in Prices, TradePartOfMaker(p) \/ TradeAllOfMaker(p)
  PROVE  Total(Remaining(orders'), Reached(live_orders', orders', orders'[incoming])) =
           Total(Remaining(orders), Reached(live_orders, orders, orders[incoming]))
             - TradeQuantity(p)
<1> DEFINE m == Maker(p)
           q == TradeQuantity(p)
           o == orders[incoming]
           o2 == orders'[incoming]
           lv == live_orders
           lv2 == live_orders'
           ord == orders
           ord2 == orders'
           R == Reached(lv, ord, o)
           rem == Remaining(ord)
           rem2 == Remaining(ord2)
<1>1. Executes(p) /\ Meets(p)
  BY DEF TradePartOfMaker, TradeAllOfMaker, Executes
<1>2. /\ m \in lv /\ m # incoming /\ incoming # None /\ q \in Nat /\ q <= ord[m].remaining
      /\ LevelOf(ord[m]).fifo[1] = m
  BY <1>1, MakerFacts
<1>3. /\ incoming \in OrderIds /\ incoming \notin lv /\ Known(incoming)
      /\ m \in OrderIds /\ Known(m) /\ ord[m] \in Order
  BY <1>2, IncomingFacts, LiveFacts
<1>4. /\ ord2[m] = Filled(ord[m], q)
      /\ \A x \in lv : x # m => ord2[x] = ord[x]
      /\ \A x \in lv : /\ ord2[x].side = ord[x].side /\ ord2[x].price = ord[x].price
                       /\ ord2[x].priority = ord[x].priority
                       /\ ord2[x].account = ord[x].account
      /\ o2.side = o.side /\ o2.type = o.type /\ o2.price = o.price /\ o2.account = o.account
  BY <1>1, <1>3, ExecutesFacts, LiveFacts
<1>5. ord2[m].remaining = ord[m].remaining - q
  BY <1>2, <1>3, <1>4, FilledFacts
<1>6. /\ IsFiniteSet(R) /\ R \in SUBSET lv
      /\ \A x \in R : x \in OrderIds /\ rem[x] = ord[x].remaining /\ rem[x] \in Nat
      /\ Total(rem, R) \in Int
  BY ReachedFacts
<1>7. m \in R /\ ~OwnOrder(ord, o, m)
  BY <1>1, MakerIsReached
<1>8. /\ \A x \in R : x # m => rem2[x] = rem[x]
      /\ rem2[m] = rem[m] - q /\ rem[m] \in Nat
  BY <1>3, <1>4, <1>5, <1>6, <1>7 DEF Remaining
<1>9. Reached(lv, ord2, o2) = R
  <2> HIDE DEF o, o2, lv, ord, ord2, m, q
  <2> QED
    BY <1>4, ReachedSame
<1>10. CASE TradePartOfMaker(p)
  <2>1. lv2 = lv
    BY <1>10 DEF TradePartOfMaker
  <2>2. Reached(lv2, ord2, o2) = R
    BY <1>9, <2>1
  <2> HIDE DEF R, rem, rem2, m, q, lv, lv2, ord, ord2, o, o2
  <2>3. Total(rem2, R) = Total(rem, R) - rem[m] + rem2[m]
    <3>1. /\ IsFiniteSet(R) /\ m \in R
          /\ (\A x \in R : rem[x] \in Int) /\ rem2[m] \in Int
          /\ \A x \in R : x # m => rem2[x] = rem[x]
      BY <1>2, <1>6, <1>7, <1>8
    <3> QED
      BY <3>1, TotalChange
  <2>4. Total(rem2, R) = Total(rem, R) - q
    BY <1>2, <1>6, <1>8, <2>3
  <2> QED
    BY <2>2, <2>4 DEF R, rem, rem2, q, lv, lv2, ord, ord2, o, o2
<1>11. CASE TradeAllOfMaker(p)
  <2>1. lv2 = lv \ {m} /\ ord[m].remaining = q
    BY <1>11 DEF TradeAllOfMaker, Unlink
  <2> DEFINE C == Candidates(lv, ord2, o2)
  <2>2. Candidates(lv2, ord2, o2) = C \ {m}
    BY <2>1 DEF Candidates
  <2>3. ~OwnOrder(ord2, o2, m)
    BY <1>2, <1>4, <1>7 DEF OwnOrder
  <2>4. Reached(lv2, ord2, o2) = R \ {m}
    <3> HIDE DEF R, m, q, lv, lv2, ord, ord2, o, o2, C
    <3>1. R = {x \in C : \A y \in C : NotBehind(ord2, Opposite(o2.side), y, x) => ~OwnOrder(ord2, o2, y)}
      BY <1>9 DEF Reached, C
    <3>2. Reached(lv2, ord2, o2) =
            {x \in C \ {m} : \A y \in C \ {m} :
               NotBehind(ord2, Opposite(o2.side), y, x) => ~OwnOrder(ord2, o2, y)}
      BY <2>2 DEF Reached
    <3> QED
      BY <2>3, <3>1, <3>2
  <2>5. IsFiniteSet(R \ {m})
    BY <1>6, FS_RemoveElement
  <2> HIDE DEF R, rem, rem2, m, q, lv, lv2, ord, ord2, o, o2
  <2>6. Total(rem, R) = rem[m] + Total(rem, R \ {m})
    BY <1>6, <1>7, TotalRemove
  <2>7. Total(rem2, R \ {m}) = Total(rem, R \ {m})
    <3>1. \A x \in R \ {m} : rem[x] \in Int /\ rem2[x] = rem[x]
      BY <1>6, <1>8
    <3> QED
      BY <2>5, <3>1, TotalSame
  <2>8. Total(rem, R \ {m}) \in Int
    BY <1>6, <2>5, TotalInt
  <2>9. rem[m] = q
    BY <1>6, <1>7, <2>1
  <2>10. Total(rem2, R \ {m}) = Total(rem, R) - q
    BY <1>2, <2>6, <2>7, <2>8, <2>9
  <2> QED
    BY <2>4, <2>10 DEF R, rem, rem2, q, lv, lv2, ord, ord2, o, o2
<1> QED
  BY <1>10, <1>11

(* The count made before acceptance covers the order, and each trade takes
   as much off it as off what is left to do.                               *)
LEMMA EnoughStep == IInv /\ EnoughForFOK /\ [Next]_vars => EnoughForFOK'
<1> SUFFICES ASSUME IInv, EnoughForFOK, [Next]_vars,
                    incoming' # None, orders'[incoming'].tif = "FOK"
             PROVE  orders'[incoming'].remaining <=
                      Total(Remaining(orders'), Reached(live_orders', orders', orders'[incoming']))
  BY DEF EnoughForFOK
<1> DEFINE Goal == orders'[incoming'].remaining <=
                     Total(Remaining(orders'), Reached(live_orders', orders', orders'[incoming']))
<1>1. CASE UNCHANGED <<orders, live_orders, incoming>>
  BY <1>1 DEF EnoughForFOK
<1>2. ASSUME NEW id \in OrderIds, NEW r \in Requests, Accept(id, r)
      PROVE  Goal
  <2> DEFINE new == NewOrder(r, "ACCEPTED", sequence + 1)
             lv == live_orders
             ord == orders
             ord2 == orders'
             R == Reached(lv, ord, r)
  <2>1. /\ r \in Request /\ ~Known(id) /\ incoming' = id /\ lv' = lv
        /\ orders' = [orders EXCEPT ![id] = new]
        /\ ~(r.tif = "FOK" /\ AvailableLiquidity(r) < r.quantity)
    BY <1>2, RequestsAssumption DEF Accept, Refused, Invalid
  <2>2. /\ new.side = r.side /\ new.type = r.type /\ new.tif = r.tif
        /\ new.price = r.price /\ new.account = r.account /\ new.remaining = r.quantity
    BY DEF NewOrder
  <2>3. orders'[id] = new /\ \A x \in lv : ord2[x] = ord[x]
    BY <2>1, OneOrderChanges, LiveFacts
  <2>4. r.side \in Side /\ r.quantity \in Nat
    BY <2>1 DEF Request
  <2> HIDE DEF new
  <2>5. Reached(lv, ord2, new) = R
    <3> HIDE DEF lv, ord, ord2
    <3> QED
      BY <2>2, <2>3, ReachedSame
  <2>6. AvailableLiquidity(r) = Total(Remaining(ord), R)
    BY <2>4, AvailableIsSum
  <2>7. /\ IsFiniteSet(R) /\ \A x \in R : x \in lv /\ x \in OrderIds
        /\ \A x \in R : Remaining(ord)[x] \in Int
        /\ Total(Remaining(ord), R) \in Int
    BY ReachedFacts
  <2>8. \A x \in R : Remaining(ord2)[x] = Remaining(ord)[x]
    BY <2>3, <2>7 DEF Remaining
  <2> HIDE DEF lv, ord, ord2, R
  <2>9. Total(Remaining(ord2), R) = Total(Remaining(ord), R)
    BY <2>7, <2>8, TotalSame
  <2>10. r.tif = "FOK"
    BY <2>1, <2>2, <2>3
  <2>11. r.quantity <= Total(Remaining(ord2), R)
    BY <2>1, <2>4, <2>6, <2>7, <2>9, <2>10
  <2> QED
    BY <2>1, <2>2, <2>3, <2>5, <2>11 DEF lv, ord2
<1>3. ASSUME NEW x \in OrderIds, NEW who \in Accounts \cup {None},
             NEW q \in ModifyQuantities, NEW p \in ModifyPrices,
             ModifyAndRequeue(x, who, q, p)
      PROVE  Goal
  <2>1. x \in live_orders /\ incoming' = x
    BY <1>3 DEF ModifyAndRequeue, Modifiable, MayTouch
  <2>2. Known(x) /\ ~NeverRests(orders[x])
    BY <2>1, LiveFacts DEF IInv, OrdersOK
  <2>3. orders'[x].tif = orders[x].tif
    BY <2>2, OrderKept DEF Kept
  <2> QED
    BY <2>1, <2>2, <2>3 DEF NeverRests
<1>4. ASSUME NEW p \in Prices, TradePartOfMaker(p) \/ TradeAllOfMaker(p)
      PROVE  Goal
  <2> DEFINE q == TradeQuantity(p)
             before == Total(Remaining(orders), Reached(live_orders, orders, orders[incoming]))
             after == Total(Remaining(orders'), Reached(live_orders', orders', orders'[incoming]))
  <2>1. Executes(p) /\ Meets(p) /\ incoming' = incoming /\ incoming # None
    BY <1>4 DEF TradePartOfMaker, TradeAllOfMaker, Executes, Meets, Executing
  <2>2. q \in Nat /\ q <= orders[incoming].remaining
    BY <2>1, MakerFacts
  <2>3. incoming \in OrderIds /\ Known(incoming) /\ orders[incoming] \in Order
    BY <2>1, IncomingFacts
  <2>4. orders'[incoming] = Filled(orders[incoming], q)
    BY <2>1, ExecutesFacts
  <2>5. /\ orders'[incoming].remaining = orders[incoming].remaining - q
        /\ orders'[incoming].tif = orders[incoming].tif
        /\ orders[incoming].remaining \in Nat
    BY <2>2, <2>3, <2>4, FilledFacts DEF Order
  <2>6. orders[incoming].remaining <= before
    BY <2>1, <2>5 DEF EnoughForFOK
  <2>7. after = before - q
    BY <1>4, TradeTakesReached
  <2>8. before \in Int
    BY ReachedFacts
  <2> HIDE DEF before, after, q
  <2>9. orders'[incoming].remaining <= after
    BY <2>2, <2>5, <2>6, <2>7, <2>8
  <2> QED
    BY <2>1, <2>9 DEF after
<1>5. CASE Command
  <2>1. ASSUME NEW x \in OrderIds,
               \/ \E r : RejectSubmit(x, r) \/ RejectByRisk(x, r)
               \/ \E who : Cancel(x, who) \/ RejectCancel(x, who)
               \/ \E who, q, p : ModifyInPlace(x, who, q, p) \/ RejectModify(x, who, q, p)
        PROVE  FALSE
    BY <2>1 DEF RejectSubmit, RejectByRisk, Cancel, RejectCancel, ModifyInPlace,
                RejectModify, CanStart
  <2> QED
    BY <1>2, <1>3, <1>5, <2>1 DEF Command
<1>6. CASE Trade
  BY <1>4, <1>6 DEF Trade
<1>7. CASE PreventSelfTrade \/ CompleteFilled \/ CancelRemainder \/ RestRemainder
  BY <1>7 DEF PreventSelfTrade, CompleteFilled, CancelRemainder, RestRemainder
<1> QED
  BY <1>1, <1>5, <1>6, <1>7 DEF Next, Match, vars

(* An order that is stopped with something left to do could reach nothing. *)
LEMMA StoppedReachesNothing ==
  ASSUME IInv, PreventSelfTrade \/ CancelRemainder
  PROVE  Reached(live_orders, orders, orders[incoming]) = {}
<1> DEFINE o == orders[incoming]
           C == Candidates(live_orders, orders, o)
<1>1. Placed(book, index, live_orders, orders)
  BY PlacedNow
<1>2. incoming # None
  BY DEF PreventSelfTrade, CancelRemainder, Meets, Executing
<1>3. Opposing \in Side /\ Opposing = Opposite(o.side)
  BY <1>2, IncomingFacts DEF Opposing
<1>4. CASE CancelRemainder
  <2>1. ASSUME NEW x \in C PROVE FALSE
    <3> DEFINE p == orders[x].price
    <3>1. x \in live_orders /\ orders[x].side = Opposing /\ Crosses(o, p)
      BY <1>3 DEF Candidates
    <3>2. p \in Prices /\ \E i \in DOMAIN book[Opposing][p].fifo : book[Opposing][p].fifo[i] = x
      BY <1>1, <3>1 DEF Placed, Held
    <3>3. book[Opposing][p].fifo \in Seq(OrderIds)
      BY <1>3, <3>2 DEF IInv, TypeOK
    <3>4. p \in index[Opposing]
      BY <1>1, <1>3, <3>2, <3>3 DEF Placed, Indexed
    <3>5. CrossesBook(o)
      BY <1>3, <3>1, <3>4 DEF CrossesBook
    <3> QED
      BY <1>4, <3>5 DEF CancelRemainder
  <2> QED
    BY <2>1 DEF Reached
<1>5. CASE PreventSelfTrade
  <2>1. PICK p \in Prices : Meets(p) /\ OwnMaker(p)
    BY <1>5 DEF PreventSelfTrade
  <2> DEFINE m == Maker(p)
  <2>2. /\ m \in live_orders /\ orders[m].side = Opposing /\ orders[m].price = p
    BY <2>1, MakerFacts
  <2>3. m \in C /\ OwnOrder(orders, o, m)
    BY <1>3, <2>1, <2>2 DEF Candidates, Meets, OwnMaker, OwnOrder
  <2>4. ASSUME NEW x \in C
        PROVE  NotBehind(orders, Opposite(o.side), m, x)
    <3>1. x \in live_orders /\ orders[x].side = orders[m].side
      BY <1>3, <2>2 DEF Candidates
    <3>2. FirstInPriority(m)
      BY <2>1, MakerIsFirst
    <3>3. \A y \in live_orders : orders[y].priority \in Int
      BY LiveFacts DEF Order
    <3>4. CASE x = m
      BY <2>2, <3>3, <3>4 DEF NotBehind
    <3>5. CASE x # m
      <4>1. \/ Better(orders[m].side, orders[m].price, orders[x].price)
            \/ orders[m].price = orders[x].price /\ orders[m].priority < orders[x].priority
        BY <3>1, <3>2, <3>5 DEF FirstInPriority
      <4>2. orders[m].priority \in Int /\ orders[x].priority \in Int
        BY <2>2, <3>1, <3>3
      <4> HIDE DEF m
      <4> QED
        BY <1>3, <2>2, <4>1, <4>2 DEF NotBehind
    <3> QED
      BY <3>4, <3>5
  <2> HIDE DEF m
  <2> QED
    BY <2>3, <2>4 DEF Reached
<1> QED
  BY <1>4, <1>5

(* No command starts while an order is being executed.                     *)
LEMMA CommandStarts == Command => incoming = None
<1>1. ASSUME NEW x \in OrderIds, NEW r,
             Accept(x, r) \/ RejectSubmit(x, r) \/ RejectByRisk(x, r)
      PROVE  incoming = None
  BY <1>1 DEF Accept, RejectSubmit, RejectByRisk, CanStart
<1>2. ASSUME NEW x \in OrderIds, NEW who, Cancel(x, who) \/ RejectCancel(x, who)
      PROVE  incoming = None
  BY <1>2 DEF Cancel, RejectCancel, CanStart
<1>3. ASSUME NEW x \in OrderIds, NEW who, NEW q, NEW p,
             \/ ModifyInPlace(x, who, q, p)
             \/ ModifyAndRequeue(x, who, q, p)
             \/ RejectModify(x, who, q, p)
      PROVE  incoming = None
  BY <1>3 DEF ModifyInPlace, ModifyAndRequeue, RejectModify, CanStart
<1> QED
  BY <1>1, <1>2, <1>3 DEF Command

(* A fill-or-kill order leaves the loop filled: it is never stopped, as it
   would have something left to do and nothing to take it from.            *)
LEMMA FOKsStep == IInv /\ EnoughForFOK /\ FOKsFilled /\ [Next]_vars => FOKsFilled'
<1> SUFFICES ASSUME IInv, EnoughForFOK, FOKsFilled, [Next]_vars,
                    NEW id \in OrderIds, orders'[id] # NoOrder,
                    orders'[id].tif = "FOK", orders'[id].status # "REJECTED"
             PROVE  \/ orders'[id].status = "FILLED"
                    \/ id = incoming' /\ orders'[id].remaining > 0
  BY DEF FOKsFilled, Known
<1>1. CASE ~Known(id)
  BY <1>1, NewlyRecorded
<1>2. CASE Known(id) /\ id # incoming
  <2>1. orders[id].tif = "FOK"
    BY <1>2, OrderKept DEF Kept
  <2>2. id \notin live_orders
    BY <1>2, <2>1 DEF IInv, OrdersOK, NeverRests
  <2>3. orders'[id] = orders[id]
    BY <1>2, <2>2, DoneStaysDone
  <2> QED
    BY <1>2, <2>3 DEF FOKsFilled
<1>3. CASE Known(id) /\ id = incoming
  <2>0. incoming # None /\ orders[id] \in Order
    BY <1>3, SentinelsAssumption, IncomingFacts
  <2>1. orders[id].tif = "FOK"
    BY <1>3, OrderKept DEF Kept
  <2>2. CASE PreventSelfTrade \/ CancelRemainder
    <3>1. Total(Remaining(orders), Reached(live_orders, orders, orders[incoming])) = 0
      BY <2>2, StoppedReachesNothing, TotalEmpty
    <3>2. orders[incoming].remaining <= 0
      BY <1>3, <2>0, <2>1, <3>1 DEF EnoughForFOK
    <3>3. orders[incoming].remaining > 0 /\ orders[incoming].remaining \in Nat
      BY <1>3, <2>0, <2>2 DEF PreventSelfTrade, CancelRemainder, Meets, Executing, Order
    <3> QED
      BY <3>2, <3>3
  <2>3. CASE RestRemainder
    BY <1>3, <2>1, <2>3 DEF RestRemainder, NeverRests
  <2>4. CASE CompleteFilled \/ UNCHANGED vars
    <3>1. orders' = orders
      BY <2>4 DEF CompleteFilled, vars
    <3>2. orders[id].status = "FILLED" \/ orders[id].remaining > 0
      BY <1>3, <2>1, <3>1 DEF FOKsFilled
    <3>3. orders[id].remaining \in Nat
      BY <2>0 DEF Order
    <3> QED
      BY <1>3, <2>4, <3>1, <3>2, <3>3 DEF CompleteFilled, vars
  <2>5. CASE Trade
    <3>1. PICK p \in Prices : Executes(p)
      BY <2>5 DEF Trade, TradePartOfMaker, TradeAllOfMaker
    <3> DEFINE q == TradeQuantity(p)
    <3>2. Meets(p) /\ incoming' = incoming
      BY <3>1 DEF Executes
    <3>3. q \in Nat /\ q <= orders[id].remaining
      BY <1>3, <3>2, MakerFacts
    <3>4. orders'[id] = Filled(orders[id], q)
      BY <1>3, <3>1, ExecutesFacts
    <3> HIDE DEF q
    <3>5. /\ orders'[id].remaining = orders[id].remaining - q
          /\ orders[id].remaining = q => orders'[id].status = "FILLED"
          /\ orders[id].remaining \in Nat
      BY <2>0, <3>3, <3>4, FilledFacts DEF Order
    <3> QED
      BY <1>3, <3>2, <3>3, <3>5
  <2>6. CASE Command
    BY <2>0, <2>6, CommandStarts
  <2> QED
    BY <2>2, <2>3, <2>4, <2>5, <2>6 DEF Next, Match
<1> QED
  BY <1>1, <1>2, <1>3

(* A fill-or-kill order that was accepted is filled to the last lot when its
   command ends, self-trade prevention included.                           *)
THEOREM FillOrKillIsAllOrNothing == Spec => []FillOrKillAllOrNothing
<1>1. Init => EnoughForFOK /\ FOKsFilled
  BY DEF Init, EnoughForFOK, FOKsFilled, Known
<1>2. FOKsFilled => FillOrKillAllOrNothing
  BY SentinelsAssumption DEF FOKsFilled, FillOrKillAllOrNothing
<1> QED
  BY <1>1, <1>2, Invariant, EnoughStep, FOKsStep, PTL DEF Spec

(* Each turn of the loop takes quantity or an order away or is the last: the
   measure that bounds how long a command keeps the event loop's thread.    *)
THEOREM TurnsTakeAway == Spec => [][incoming # None => (incoming' = None \/ Left' < Left)]_vars
<1>1. ASSUME IInv, [Next]_vars, incoming # None
      PROVE  incoming' = None \/ Left' < Left \/ UNCHANGED vars
  <2>1. CASE Command
    BY <1>1, <2>1, CommandStarts
  <2>2. CASE PreventSelfTrade \/ CompleteFilled \/ CancelRemainder \/ RestRemainder
    BY <2>2 DEF PreventSelfTrade, CompleteFilled, CancelRemainder, RestRemainder
  <2>3. ASSUME NEW p \in Prices, TradePartOfMaker(p) \/ TradeAllOfMaker(p)
        PROVE  Left' < Left
    <3> DEFINE q == TradeQuantity(p)
               m == Maker(p)
    <3>1. Executes(p) /\ Meets(p)
      BY <2>3 DEF TradePartOfMaker, TradeAllOfMaker, Executes
    <3>2. /\ q \in Nat /\ q > 0 /\ q <= orders[incoming].remaining /\ m \in live_orders
      BY <1>1, <3>1, MakerFacts
    <3>3. orders[incoming] \in Order
      BY <1>1, IncomingFacts
    <3>4. /\ orders'[incoming] = Filled(orders[incoming], q) /\ incoming' = incoming
      BY <1>1, <3>1, ExecutesFacts
    <3> HIDE DEF q, m
    <3>5. /\ orders'[incoming'].remaining = orders[incoming].remaining - q
          /\ orders[incoming].remaining \in Nat
      BY <3>2, <3>3, <3>4, FilledFacts DEF Order
    <3>6. live_orders' = live_orders \/ live_orders' = live_orders \ {m}
      BY <2>3 DEF TradePartOfMaker, TradeAllOfMaker, Unlink, m
    <3>7. /\ Cardinality(live_orders) \in Nat
          /\ Cardinality(live_orders \ {m}) = Cardinality(live_orders) - 1
      BY <1>1, <3>2, LiveNow, FS_CardinalityType, FS_RemoveElement
    <3>8. Cardinality(live_orders') <= Cardinality(live_orders) /\ Cardinality(live_orders') \in Int
      BY <3>6, <3>7
    <3> QED
      BY <3>2, <3>5, <3>7, <3>8 DEF Left
  <2> QED
    BY <1>1, <2>1, <2>2, <2>3 DEF Next, Match, Trade
<1> QED
  BY <1>1, Invariant, PTL DEF Spec
=============================================================================
