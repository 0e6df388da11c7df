-------------------------- MODULE RefinementProofs ---------------------------
(***************************************************************************)
(* What stands for what in a book, for any number of orders, levels and    *)
(* prices.  The optimised book implements the reference matcher: its       *)
(* initial state is one of the reference, and every action of OrderBook is *)
(* the action of ReferenceBook of the same name, or leaves what the        *)
(* reference keeps as it is.  And the linked lists of PriceLevel implement *)
(* the queues the book takes its levels for: the invariant says that each  *)
(* level's links spell some sequence of nodes, and a step shows the        *)
(* sequence they spell afterwards.                                         *)
(***************************************************************************)
EXTENDS OrderBookRefinement, OrderBookProofs, PriceLevel


(* The mapped state: what the reference's live, seen and working are.       *)
LiveMap == [id \in OrderIds |->
              IF id \in live_orders THEN AsReference(orders[id]) ELSE NoOrder]

SeenSet == {id \in OrderIds : Known(id) /\ orders[id].status # "REJECTED"}

Working == IF incoming = None THEN NoOrder ELSE AsReference(orders[incoming])

(* The image of an order keeps every field but the status.                 *)
LEMMA AsReferenceFacts ==
  ASSUME NEW o \in Order
  PROVE  /\ AsReference(o) \in ReferenceOrders
         /\ AsReference(o) # NoOrder
         /\ AsReference(o).account = o.account
         /\ AsReference(o).side = o.side
         /\ AsReference(o).type = o.type
         /\ AsReference(o).tif = o.tif
         /\ AsReference(o).price = o.price
         /\ AsReference(o).quantity = o.quantity
         /\ AsReference(o).remaining = o.remaining
         /\ AsReference(o).filled = o.filled
         /\ AsReference(o).priority = o.priority
<1>1. AsReference(o) \in ReferenceOrders
  BY DEF AsReference, ReferenceOrders, Order
<1> QED
  BY <1>1, ReferenceSentinelAssumption DEF AsReference

(* What the reference sees of a resting order.                             *)
LEMMA LiveMapFacts ==
  ASSUME IInv
  PROVE  /\ \A id \in OrderIds : LiveMap[id] # NoOrder <=> id \in live_orders
         /\ \A id \in live_orders :
              /\ LiveMap[id] = AsReference(orders[id])
              /\ LiveMap[id].account = orders[id].account
              /\ LiveMap[id].side = orders[id].side
              /\ LiveMap[id].tif = orders[id].tif
              /\ LiveMap[id].price = orders[id].price
              /\ LiveMap[id].quantity = orders[id].quantity
              /\ LiveMap[id].remaining = orders[id].remaining
              /\ LiveMap[id].filled = orders[id].filled
              /\ LiveMap[id].priority = orders[id].priority
<1>1. \A id \in live_orders : id \in OrderIds /\ LiveMap[id] = AsReference(orders[id])
  BY LiveFacts DEF LiveMap
<1>2. \A id \in live_orders : orders[id] \in Order
  BY LiveFacts
<1> QED
  BY <1>1, <1>2, AsReferenceFacts DEF LiveMap

(* Price-time priority, as both compare two orders.                        *)
Before(x, y) ==
  \/ Better(orders[x].side, orders[x].price, orders[y].price)
  \/ orders[x].price = orders[y].price /\ orders[x].priority < orders[y].priority

(* The resting orders of the side an order of `side` may trade with.       *)
Facing(side) == {id \in live_orders : orders[id].side = Opposite(side)}

(* The reference's live orders are the resting ones, on both sides.         *)
LEMMA ReferenceLive ==
  ASSUME IInv
  PROVE  /\ Reference!Live = live_orders
         /\ \A side : Reference!Opposing(side) = Facing(side)
         /\ \A x, y \in live_orders : Reference!Precedes(x, y) <=> Before(x, y)
<1>1. Reference!Live = live_orders
  <2>1. Reference!Live = {id \in OrderIds : LiveMap[id] # NoOrder}
    BY DEF Reference!Live, LiveMap
  <2> QED
    BY <2>1, LiveMapFacts, LiveNow
<1>2. \A side : Reference!Opposing(side) = Facing(side)
  <2> TAKE side
  <2>1. Reference!Opposing(side) = {id \in live_orders : LiveMap[id].side = Opposite(side)}
    BY <1>1 DEF Reference!Opposing, LiveMap, Reference!Opposite, Opposite
  <2> QED
    BY <2>1, LiveMapFacts DEF Facing
<1>3. ASSUME NEW x \in live_orders, NEW y \in live_orders
      PROVE  Reference!Precedes(x, y) <=> Before(x, y)
  <2>1. Reference!Precedes(x, y) <=>
          \/ Better(LiveMap[x].side, LiveMap[x].price, LiveMap[y].price)
          \/ LiveMap[x].price = LiveMap[y].price /\ LiveMap[x].priority < LiveMap[y].priority
    BY DEF Reference!Precedes, LiveMap, Reference!Better, Better
  <2> QED
    BY <2>1, LiveMapFacts DEF Before
<1> QED
  BY <1>1, <1>2, <1>3

(* What the comparisons compare are integers.                              *)
LEMMA LiveNumbers ==
  ASSUME IInv, NEW x \in live_orders
  PROVE  orders[x].price \in Int /\ orders[x].priority \in Int
<1>1. orders[x].price \in Prices
  BY LiveFacts
<1>2. \A p \in Prices : p \in Int
  BY PricesAssumption
<1>3. orders[x].priority \in Int
  BY LiveFacts DEF Order
<1> QED
  BY <1>1, <1>2, <1>3

(* Two resting orders of a side are never level in priority.               *)
LEMMA BeforeOrders ==
  ASSUME IInv, NEW x \in live_orders, NEW y \in live_orders,
         orders[x].side = orders[y].side, x # y
  PROVE  /\ Before(x, y) \/ Before(y, x)
         /\ ~(Before(x, y) /\ Before(y, x))
         /\ Before(x, y) <=> NotBehind(orders, orders[x].side, x, y)
<1>1. /\ orders[x].price \in Prices /\ orders[y].price \in Prices
      /\ orders[x].side \in Side
      /\ orders[x].priority \in Int /\ orders[y].priority \in Int
  BY LiveFacts DEF Order
<1>2. orders[x].price \in Int /\ orders[y].price \in Int
  BY <1>1, PricesAssumption
<1>3. orders[x].price = orders[y].price => orders[x].priority # orders[y].priority
  <2> SUFFICES ASSUME orders[x].price = orders[y].price
               PROVE  orders[x].priority # orders[y].priority
    OBVIOUS
  <2> DEFINE f == book[orders[x].side][orders[x].price].fifo
  <2>1. Placed(book, index, live_orders, orders)
    BY PlacedNow
  <2>2. /\ \E i \in DOMAIN f : f[i] = x
        /\ \E j \in DOMAIN f : f[j] = y
    BY <2>1 DEF Placed, Held
  <2>3. PICK i \in DOMAIN f, j \in DOMAIN f : f[i] = x /\ f[j] = y
    BY <2>2
  <2>4. f \in Seq(OrderIds)
    BY <1>1 DEF IInv, TypeOK
  <2>5. /\ i < j => orders[f[i]].priority < orders[f[j]].priority
        /\ j < i => orders[f[j]].priority < orders[f[i]].priority
    BY <1>1, <2>1 DEF Placed, Ranked
  <2> HIDE DEF f
  <2>6. i < j \/ j < i
    BY <2>3, <2>4
  <2> QED
    BY <1>1, <2>3, <2>5, <2>6
<1> QED
  BY <1>1, <1>2, <1>3 DEF Before, NotBehind, Better

(* The order an order of `side` meets first: the reference sorts for it.    *)
LEMMA FirstOfFacing ==
  ASSUME IInv, NEW side, Facing(side) # {}
  PROVE  \E m \in Facing(side) : Reference!First(side, m)
<1> DEFINE S == Facing(side)
           R == {w \in S \X S : Before(w[1], w[2])}
<1>1. \A x \in S : /\ x \in live_orders /\ orders[x].side = Opposite(side)
                   /\ orders[x].price \in Int /\ orders[x].priority \in Int
  BY LiveNumbers DEF Facing
<1>2. \A x, y \in S : <<x, y>> \in R <=> Before(x, y)
  OBVIOUS
<1>3. IsFiniteSet(S)
  <2>1. S \in SUBSET live_orders
    BY DEF Facing
  <2> QED
    BY <2>1, LiveNow, FS_Subset
<1>4. \A x, y \in S : x # y => <<x, y>> \in R \/ <<y, x>> \in R
  <2> HIDE DEF R, S
  <2> QED
    BY <1>1, <1>2, BeforeOrders
<1>5. \A x, y, z \in S : <<x, y>> \in R /\ <<y, z>> \in R => <<x, z>> \in R
  <2> SUFFICES ASSUME NEW x \in S, NEW y \in S, NEW z \in S, Before(x, y), Before(y, z)
               PROVE  Before(x, z)
    BY <1>2
  <2> HIDE DEF R, S
  <2> QED
    BY <1>1 DEF Before, Better
<1>6. PICK m \in S : \A n \in S : n # m => <<m, n>> \in R
  <2>1. S # {}
    OBVIOUS
  <2> HIDE DEF R, S
  <2> QED
    BY <2>1, <1>3, <1>4, <1>5, FirstExists
<1>7. \A n \in S \ {m} : Reference!Precedes(m, n)
  BY <1>1, <1>2, <1>6, ReferenceLive
<1>8. Reference!First(side, m)
  BY <1>7, ReferenceLive DEF Reference!First
<1> QED
  BY <1>8

(* Whether an order crosses the best opposing price is whether it crosses
   the order the reference sorts first.                                    *)
LEMMA CrossesFirstSame ==
  ASSUME IInv, NEW o, o.side \in Side, o.type # "MARKET" => o.price \in Int
  PROVE  Reference!CrossesFirst(o) <=> CrossesBook(o)
<1> DEFINE side == Opposite(o.side)
<1>1. /\ side \in Side /\ Placed(book, index, live_orders, orders)
      /\ index \in [Side -> SUBSET Prices]
  BY PlacedNow DEF Opposite, Side
<1>2. Reference!CrossesFirst(o) <=>
        \E m \in Facing(o.side) : Reference!First(o.side, m) /\ Crosses(o, orders[m].price)
  <2>1. Reference!CrossesFirst(o) <=>
          \E m \in Facing(o.side) : Reference!First(o.side, m) /\ Crosses(o, LiveMap[m].price)
    BY ReferenceLive DEF Reference!CrossesFirst, Reference!Crosses, Crosses, LiveMap
  <2>2. \A m \in Facing(o.side) : LiveMap[m].price = orders[m].price
    BY LiveMapFacts DEF Facing
  <2> QED
    BY <2>1, <2>2
<1>3. ASSUME NEW m \in Facing(o.side), Crosses(o, orders[m].price)
      PROVE  CrossesBook(o)
  <2> DEFINE p == orders[m].price
  <2>1. m \in live_orders /\ orders[m].side = side
    BY <1>3 DEF Facing
  <2>2. p \in Prices /\ \E i \in DOMAIN book[side][p].fifo : book[side][p].fifo[i] = m
    BY <1>1, <2>1 DEF Placed, Held
  <2>3. book[side][p].fifo \in Seq(OrderIds)
    BY <1>1, <2>2 DEF IInv, TypeOK
  <2>4. p \in index[side]
    BY <1>1, <2>2, <2>3 DEF Placed, Indexed
  <2> QED
    BY <1>3, <2>4 DEF CrossesBook
<1>4. ASSUME NEW p \in index[side], Crosses(o, p)
      PROVE  \E m \in Facing(o.side) : Reference!First(o.side, m) /\ Crosses(o, orders[m].price)
  <2>1. p \in Prices /\ book[side][p].fifo # << >> /\ book[side][p].fifo \in Seq(OrderIds)
    BY <1>1 DEF Placed, Indexed, IInv, TypeOK
  <2> DEFINE x == book[side][p].fifo[1]
  <2>2. 1 \in DOMAIN book[side][p].fifo
    BY <2>1
  <2>3. x \in live_orders /\ orders[x].side = side /\ orders[x].price = p
    BY <1>1, <2>1, <2>2 DEF Placed, Queued
  <2> HIDE DEF x
  <2>4. x \in Facing(o.side)
    BY <2>3 DEF Facing
  <2>5. PICK m \in Facing(o.side) : Reference!First(o.side, m)
    BY <2>4, FirstOfFacing
  <2>6. m = x \/ Before(m, x)
    <3>1. m # x => Reference!Precedes(m, x)
      BY <2>4, <2>5, ReferenceLive DEF Reference!First
    <3>2. m \in live_orders
      BY DEF Facing
    <3> QED
      BY <2>3, <3>1, <3>2, ReferenceLive
  <2>7. /\ orders[m].side = side /\ orders[m].price \in Int /\ p \in Int
    BY <2>1, LiveNumbers, PricesAssumption DEF Facing
  <2>8. orders[m].price = p \/ Better(side, orders[m].price, p)
    BY <2>3, <2>6, <2>7 DEF Before
  <2>9. Crosses(o, orders[m].price)
    <3>1. CASE o.type = "MARKET"
      BY <3>1 DEF Crosses
    <3>2. CASE o.type # "MARKET" /\ o.side = "BUY"
      BY <1>4, <2>7, <2>8, <3>2 DEF Crosses, Better, Opposite
    <3>3. CASE o.type # "MARKET" /\ o.side = "SELL"
      BY <1>4, <2>7, <2>8, <3>3 DEF Crosses, Better, Opposite
    <3> QED
      BY <3>1, <3>2, <3>3 DEF Side
  <2> QED
    BY <2>5, <2>9
<1> QED
  BY <1>2, <1>3, <1>4 DEF CrossesBook

(* And the liquidity counted before a fill-or-kill order is the same.       *)
LEMMA AvailableSame ==
  ASSUME IInv, NEW o, o.side \in Side
  PROVE  Reference!Available(o) = AvailableLiquidity(o)
<1> DEFINE C == {m \in Facing(o.side) : Crosses(o, LiveMap[m].price)}
           T == {m \in C : \A n \in C : n = m \/ Reference!Precedes(n, m) =>
                                          ~(/\ StpPolicy = "CANCEL_TAKER"
                                            /\ LiveMap[n].account = o.account)}
           f == [m \in T |-> LiveMap[m].remaining]
           R == Reached(live_orders, orders, o)
<1>1. Reference!Available(o) = Total(f, T)
  <2> DEFINE C0 == {m \in Reference!Opposing(o.side) : Reference!Crosses(o, LiveMap[m].price)}
             T0 == {m \in C0 : \A n \in C0 : n = m \/ Reference!Precedes(n, m) =>
                                             ~Reference!Own(o, n)}
  <2>1. Reference!Available(o) = Total([m \in T0 |-> LiveMap[m].remaining], T0)
    <3>1. Reference!Available(o) =
            Reference!MapThenSumSet(LAMBDA m : LiveMap[m].remaining, T0)
      BY DEF Reference!Available, LiveMap
    <3> HIDE DEF T0
    <3>2. Reference!MapThenSumSet(LAMBDA m : LiveMap[m].remaining, T0) =
            Total([m \in T0 |-> LiveMap[m].remaining], T0)
      BY DEF Reference!MapThenSumSet, Reference!MapThenFoldSet,
             Total, SumOf, SumStep, AnyOf
    <3> QED
      BY <3>1, <3>2
  <2>2. C0 = C
    BY ReferenceLive DEF Reference!Crosses, Crosses
  <2>3. T0 = T
    BY <2>2 DEF Reference!Own, LiveMap
  <2> HIDE DEF C, T, C0, T0
  <2> QED
    BY <2>1, <2>3
<1>2. C = Candidates(live_orders, orders, o)
  BY LiveMapFacts DEF Candidates, Facing
<1>3. \A n \in C : /\ n \in live_orders /\ orders[n].side = Opposite(o.side)
                   /\ LiveMap[n].account = orders[n].account
                   /\ LiveMap[n].remaining = orders[n].remaining
  BY LiveMapFacts DEF Facing
<1>4. \A n, m \in C : n = m \/ Reference!Precedes(n, m) <=>
                        NotBehind(orders, Opposite(o.side), n, m)
  <2> SUFFICES ASSUME NEW n \in C, NEW m \in C
               PROVE  n = m \/ Reference!Precedes(n, m) <=>
                        NotBehind(orders, Opposite(o.side), n, m)
    OBVIOUS
  <2>1. Reference!Precedes(n, m) <=> Before(n, m)
    BY <1>3, ReferenceLive
  <2>2. CASE n = m
    BY <1>3, <2>2, LiveFacts DEF NotBehind, Order
  <2>3. CASE n # m
    BY <1>3, <2>1, <2>3, BeforeOrders
  <2> QED
    BY <2>2, <2>3
<1>5. T = R
  BY <1>2, <1>3, <1>4 DEF Reached, OwnOrder
<1>6. \A m \in R : f[m] = Remaining(orders)[m]
  BY <1>3, <1>5, ReachedFacts
<1> HIDE DEF C, T, f, R
<1>7. Total(f, R) = Total(Remaining(orders), R)
  <2>1. IsFiniteSet(R) /\ \A m \in R : Remaining(orders)[m] \in Int
    BY ReachedFacts DEF R
  <2> QED
    BY <1>6, <2>1, TotalSame
<1> QED
  BY <1>1, <1>5, <1>7, AvailableIsSum DEF R

-----------------------------------------------------------------------------
(* The priorities given out so far, and the last of them.                  *)
Priorities(ord) ==
  {0} \cup {ord[id].priority : id \in {id \in OrderIds : ord[id] # NoOrder}}

(* The greatest priority is that of some order.                            *)
LEMMA GreatestPriority ==
  ASSUME NEW ord \in Orders
  PROVE  /\ Priorities(ord) \subseteq Nat
         /\ Max(Priorities(ord)) \in Priorities(ord)
         /\ \A n \in Priorities(ord) : Max(Priorities(ord)) >= n
<1> DEFINE S == {id \in OrderIds : ord[id] # NoOrder}
           R == {w \in S \X S : ord[w[1]].priority >= ord[w[2]].priority}
           P == Priorities(ord)
<1>1. \A x \in S : ord[x].priority \in Nat
  BY DEF Orders, Order
<1>2. P \subseteq Nat /\ 0 \in P /\ \A x \in S : ord[x].priority \in P
  BY <1>1 DEF Priorities
<1>3. \A n \in P : n = 0 \/ \E x \in S : n = ord[x].priority
  BY DEF Priorities
<1>4. \E m \in P : \A n \in P : m >= n
  <2>1. CASE S = {}
    BY <1>2, <1>3, <2>1
  <2>2. CASE S # {}
    <3>1. \A x, y \in S : <<x, y>> \in R <=> ord[x].priority >= ord[y].priority
      OBVIOUS
    <3>2. IsFiniteSet(S)
      BY FiniteAssumption, FS_Subset
    <3> HIDE DEF S, R, P
    <3>3. \A x, y \in S : x # y => <<x, y>> \in R \/ <<y, x>> \in R
      BY <1>1, <3>1
    <3>4. \A x, y, z \in S : <<x, y>> \in R /\ <<y, z>> \in R => <<x, z>> \in R
      <4> SUFFICES ASSUME NEW x \in S, NEW y \in S, NEW z \in S,
                          ord[x].priority >= ord[y].priority,
                          ord[y].priority >= ord[z].priority
                   PROVE  ord[x].priority >= ord[z].priority
        BY <3>1
      <4>1. ord[x].priority \in Nat /\ ord[y].priority \in Nat /\ ord[z].priority \in Nat
        BY <1>1
      <4> QED
        BY <4>1
    <3>5. PICK m \in S : \A n \in S : n # m => <<m, n>> \in R
      BY <2>2, <3>2, <3>3, <3>4, FirstExists
    <3>6. \A n \in S : ord[m].priority >= ord[n].priority
      <4>1. \A n \in S : n # m => ord[m].priority >= ord[n].priority
        BY <3>1, <3>5
      <4>2. ord[m].priority >= ord[m].priority
        BY <1>1
      <4> QED
        BY <4>1, <4>2
    <3>7. ord[m].priority \in P /\ ord[m].priority \in Nat
      BY <1>1, <1>2
    <3>8. \A n \in P : ord[m].priority >= n
      BY <1>3, <3>6, <3>7
    <3> QED
      BY <3>7, <3>8
  <2> QED
    BY <2>1, <2>2
<1> HIDE DEF P
<1> QED
  BY <1>2, <1>4 DEF Max, P

(* The reference's counter in these terms, now and after a step.            *)
LEMMA LastPriorityIs ==
  /\ LastPriority = Max(Priorities(orders))
  /\ LastPriority' = Max(Priorities(orders'))
  BY DEF LastPriority, Priorities, Known

(* The newest order takes a priority above all others.                     *)
LEMMA LastPriorityGrows ==
  ASSUME IInv, orders' \in Orders, NEW id \in OrderIds,
         orders'[id] # NoOrder, orders'[id].priority = sequence + 1,
         \A x \in OrderIds : x # id => orders'[x] = orders[x]
  PROVE  LastPriority' = sequence + 1 /\ LastPriority' > LastPriority
<1> DEFINE P == Priorities(orders)
           Q == Priorities(orders')
           a == Max(P)
           b == Max(Q)
<1>1. orders \in Orders /\ sequence \in Nat
  BY Types, PlacedNow DEF IInv
<1>2. /\ P \subseteq Nat /\ a \in P
      /\ Q \subseteq Nat /\ b \in Q /\ \A n \in Q : b >= n
  BY <1>1, GreatestPriority
<1>3. \A n \in P : n <= sequence
  BY <1>1 DEF Priorities, IInv, OrdersOK, Known
<1>4. sequence + 1 \in Q
  BY DEF Priorities
<1>5. \A n \in Q : n \in P \/ n = sequence + 1
  BY DEF Priorities
<1> HIDE DEF P, Q, a, b
<1>6. b = sequence + 1 /\ a <= sequence /\ a \in Nat
  BY <1>1, <1>2, <1>3, <1>4, <1>5
<1> QED
  BY <1>1, <1>6, LastPriorityIs DEF P, Q, a, b

(* Other steps leave the counter, when no order changes its priority.      *)
LEMMA LastPrioritySame ==
  ASSUME IInv,
         \A x \in OrderIds : Known(x) =>
           orders'[x] # NoOrder /\ orders'[x].priority = orders[x].priority,
         \A x \in OrderIds : ~Known(x) => orders'[x] = NoOrder \/ orders'[x].priority = 0
  PROVE  LastPriority' = LastPriority
<1>1. Priorities(orders') = Priorities(orders)
  <2>1. \A n \in Priorities(orders) : n \in Priorities(orders')
    BY DEF Priorities, Known
  <2>2. \A n \in Priorities(orders') : n \in Priorities(orders)
    BY DEF Priorities, Known
  <2> QED
    BY <2>1, <2>2
<1> QED
  BY <1>1, LastPriorityIs

-----------------------------------------------------------------------------
(* A refusal by the risk gateway is final, and only that gateway refuses.   *)
LEMMA RejectedStays ==
  ASSUME IInv, [Next]_vars, NEW id \in OrderIds, Known(id)
  PROVE  orders'[id].status = "REJECTED" <=> orders[id].status = "REJECTED"
<1> DEFINE Open == orders[id].status # "REJECTED" /\ orders'[id].status # "REJECTED"
<1>1. CASE orders'[id] = orders[id]
  BY <1>1
<1>2. CASE id \notin live_orders /\ id # incoming
  BY <1>2, DoneStaysDone
<1>3. CASE (id \in live_orders \/ id = incoming) /\ orders'[id] # orders[id]
  <2>0. orders[id] \in Order /\ orders \in Orders
    BY Types DEF IInv
  <2>1. ASSUME NEW x \in OrderIds, orders'[x].status # "REJECTED",
               \A y \in OrderIds : y # x => orders'[y] = orders[y],
               x \in live_orders \/ (x = incoming /\ orders[x].remaining > 0)
        PROVE  Open
    <3>1. x = id
      BY <1>3, <2>1
    <3>2. orders[id].status \notin Terminal
      BY <2>1, <3>1 DEF IInv, OrdersOK
    <3> QED
      BY <2>1, <3>1, <3>2 DEF Terminal
  <2>2. ASSUME NEW x \in OrderIds, NEW r \in Requests, Accept(x, r)
        PROVE  FALSE
    BY <1>3, <2>2, OneOrderChanges DEF Accept, Refused, Invalid
  <2>3. ASSUME NEW x \in OrderIds, NEW r \in RiskRequests, RejectByRisk(x, r)
        PROVE  FALSE
    BY <1>3, <2>3, OneOrderChanges DEF RejectByRisk
  <2>4. ASSUME NEW x \in OrderIds, NEW who \in Accounts \cup {None}, Cancel(x, who)
        PROVE  Open
    <3> DEFINE new == [orders[x] EXCEPT !.status = "CANCELLED"]
    <3>1. x \in live_orders /\ orders' = [orders EXCEPT ![x] = new]
      BY <2>4 DEF Cancel, MayTouch
    <3>2. new.status = "CANCELLED"
      BY <3>1, LiveFacts, WithStatusFacts DEF OrderStatus
    <3> HIDE DEF new
    <3>3. /\ orders'[x].status # "REJECTED"
          /\ \A y \in OrderIds : y # x => orders'[y] = orders[y]
      BY <3>1, <3>2, OneOrderChanges
    <3> QED
      BY <2>1, <3>1, <3>3
  <2>5. ASSUME NEW x \in OrderIds, NEW who \in Accounts \cup {None},
               NEW q \in ModifyQuantities, NEW p \in ModifyPrices,
               ModifyInPlace(x, who, q, p)
        PROVE  Open
    <3> DEFINE new == Resized(orders[x], q)
    <3>1. /\ x \in live_orders /\ q > orders[x].filled /\ q \in Nat
          /\ orders' = [orders EXCEPT ![x] = new]
      BY <2>5, ModifyAssumption DEF ModifyInPlace, Modifiable, MayTouch
    <3>2. new.status = orders[x].status
      BY <3>1, LiveFacts, ResizedFacts
    <3>3. orders[x].status \notin Terminal
      BY <3>1, LiveFacts DEF IInv, OrdersOK
    <3> HIDE DEF new
    <3>4. /\ orders'[x].status # "REJECTED"
          /\ \A y \in OrderIds : y # x => orders'[y] = orders[y]
      BY <3>1, <3>2, <3>3, OneOrderChanges DEF Terminal
    <3> QED
      BY <2>1, <3>1, <3>4
  <2>6. ASSUME NEW x \in OrderIds, NEW who \in Accounts \cup {None},
               NEW q \in ModifyQuantities, NEW p \in ModifyPrices,
               ModifyAndRequeue(x, who, q, p)
        PROVE  Open
    <3> DEFINE n == sequence + 1
               new == Requeued(orders[x], q, p, n)
    <3>1. /\ x \in live_orders /\ q > orders[x].filled /\ q \in Nat
          /\ p \in Prices \cup {NoPrice} /\ n \in Nat
          /\ orders' = [orders EXCEPT ![x] = new]
      BY <2>6, ModifyAssumption, PlacedNow DEF ModifyAndRequeue, Modifiable, MayTouch
    <3> HIDE DEF n
    <3>2. new.status # "REJECTED"
      BY <3>1, LiveFacts, RequeuedFacts
    <3> HIDE DEF new
    <3>3. /\ orders'[x].status # "REJECTED"
          /\ \A y \in OrderIds : y # x => orders'[y] = orders[y]
      BY <3>1, <3>2, OneOrderChanges
    <3> QED
      BY <2>1, <3>1, <3>3
  <2>7. CASE PreventSelfTrade \/ CancelRemainder
    <3> DEFINE new == [orders[incoming] EXCEPT !.status = "CANCELLED"]
    <3>1. /\ incoming # None /\ orders[incoming].remaining > 0
          /\ orders' = [orders EXCEPT ![incoming] = new]
      BY <2>7 DEF PreventSelfTrade, CancelRemainder, Meets, Executing
    <3>2. incoming \in OrderIds /\ new.status = "CANCELLED"
      BY <3>1, IncomingFacts, WithStatusFacts DEF OrderStatus
    <3> HIDE DEF new
    <3>3. /\ orders'[incoming].status # "REJECTED"
          /\ \A y \in OrderIds : y # incoming => orders'[y] = orders[y]
      BY <3>1, <3>2, OneOrderChanges
    <3> QED
      BY <2>1, <3>1, <3>2, <3>3
  <2>8. CASE Trade
    <3>1. PICK p \in Prices : Executes(p)
      BY <2>8 DEF Trade, TradePartOfMaker, TradeAllOfMaker
    <3> DEFINE q == TradeQuantity(p)
               m == Maker(p)
    <3>2. /\ m \in live_orders /\ incoming # None /\ orders[incoming].remaining > 0
          /\ q \in Nat /\ q <= orders[m].remaining /\ q <= orders[incoming].remaining
      BY <3>1, MakerFacts DEF Executes, Meets, Executing
    <3>3. /\ orders'[m] = Filled(orders[m], q)
          /\ orders'[incoming] = Filled(orders[incoming], q)
          /\ \A x \in OrderIds : x # m /\ x # incoming => orders'[x] = orders[x]
      BY <3>1, ExecutesFacts
    <3>4. orders[m] \in Order /\ orders[incoming] \in Order
      BY <3>2, LiveFacts, IncomingFacts
    <3> HIDE DEF q, m
    <3>5. orders'[m].status # "REJECTED" /\ orders'[incoming].status # "REJECTED"
      BY <3>2, <3>3, <3>4, FilledFacts
    <3>6. id = m \/ id = incoming
      BY <1>3, <3>3
    <3>7. orders[id].status \notin Terminal
      BY <3>2, <3>6 DEF IInv, OrdersOK
    <3> QED
      BY <3>5, <3>6, <3>7 DEF Terminal
  <2>9. CASE CompleteFilled \/ RestRemainder \/ UNCHANGED vars
    BY <1>3, <2>9 DEF CompleteFilled, RestRemainder, vars
  <2>10. CASE Command
    <3>1. ASSUME NEW x, NEW r, RejectSubmit(x, r) PROVE FALSE
      BY <1>3, <3>1 DEF RejectSubmit
    <3>2. ASSUME NEW x, NEW who, RejectCancel(x, who) PROVE FALSE
      BY <1>3, <3>2 DEF RejectCancel
    <3>3. ASSUME NEW x, NEW who, NEW q, NEW p, RejectModify(x, who, q, p) PROVE FALSE
      BY <1>3, <3>3 DEF RejectModify
    <3> HIDE DEF Open
    <3>4. Open
      BY <2>2, <2>3, <2>4, <2>5, <2>6, <2>10, <3>1, <3>2, <3>3 DEF Command
    <3> QED
      BY <3>4 DEF Open
  <2> QED
    BY <2>7, <2>8, <2>9, <2>10 DEF Next, Match
<1> QED
  BY <1>1, <1>2, <1>3

(* The ids the reference has seen grow by acceptance only.                 *)
LEMMA SeenSame ==
  ASSUME IInv, [Next]_vars,
         \/ incoming # None
         \/ incoming' = None
         \/ incoming' \in OrderIds /\ Known(incoming')
  PROVE  SeenSet' = SeenSet
<1>1. ASSUME NEW id \in OrderIds
      PROVE  orders'[id] # NoOrder /\ orders'[id].status # "REJECTED" <=>
             orders[id] # NoOrder /\ orders[id].status # "REJECTED"
  <2>1. CASE Known(id)
    <3>1. orders'[id] # NoOrder
      BY <2>1, OrderKept DEF Kept
    <3> QED
      BY <2>1, <3>1, RejectedStays DEF Known
  <2>2. CASE ~Known(id)
    BY <2>2, NewlyRecorded, SentinelsAssumption DEF Known
  <2> QED
    BY <2>1, <2>2
<1> QED
  BY <1>1 DEF SeenSet, Known

-----------------------------------------------------------------------------
(* What the reference sees of the order being executed.                    *)
LEMMA WorkingFacts ==
  ASSUME IInv, incoming # None
  PROVE  /\ Working = AsReference(orders[incoming])
         /\ Working # NoOrder
         /\ Working.account = orders[incoming].account
         /\ Working.side = orders[incoming].side
         /\ Working.type = orders[incoming].type
         /\ Working.tif = orders[incoming].tif
         /\ Working.price = orders[incoming].price
         /\ Working.remaining = orders[incoming].remaining
         /\ Working.filled = orders[incoming].filled
<1>1. Working = AsReference(orders[incoming]) /\ orders[incoming] \in Order
  BY IncomingFacts DEF Working
<1> QED
  BY <1>1, AsReferenceFacts

(* A step that changes what is known of one order at most changes one entry
   of the reference's map.                                                 *)
LEMMA LiveMapChanges ==
  ASSUME IInv, NEW m \in OrderIds,
         \A x \in OrderIds : x # m =>
           /\ x \in live_orders' <=> x \in live_orders
           /\ x \in live_orders => AsReference(orders'[x]) = AsReference(orders[x]),
         NEW v, v = IF m \in live_orders' THEN AsReference(orders'[m]) ELSE NoOrder
  PROVE  LiveMap' = [LiveMap EXCEPT ![m] = v]
<1>1. LiveMap' = [x \in OrderIds |->
                    IF x \in live_orders' THEN AsReference(orders'[x]) ELSE NoOrder]
  BY DEF LiveMap
<1>2. \A x \in OrderIds : x # m => LiveMap'[x] = LiveMap[x]
  BY <1>1 DEF LiveMap
<1>3. LiveMap'[m] = v
  BY <1>1
<1>4. /\ LiveMap \in [OrderIds -> {LiveMap[x] : x \in OrderIds}]
      /\ LiveMap' \in [OrderIds -> {LiveMap'[x] : x \in OrderIds}]
  BY <1>1 DEF LiveMap
<1> HIDE DEF LiveMap
<1> QED
  BY <1>2, <1>3, <1>4

(* A step that changes nothing the reference knows of the resting orders.   *)
LEMMA LiveMapSame ==
  ASSUME IInv, live_orders' = live_orders,
         \A x \in live_orders : AsReference(orders'[x]) = AsReference(orders[x])
  PROVE  LiveMap' = LiveMap
  BY LiveNow DEF LiveMap

(* What leaves the reference as it is.                                     *)
LEMMA ReferenceSame ==
  ASSUME LiveMap' = LiveMap, SeenSet' = SeenSet, LastPriority' = LastPriority,
         Working' = Working, UNCHANGED <<trades, incoming>>
  PROVE  UNCHANGED Reference!vars
  BY DEF Reference!vars, LiveMap, SeenSet, Working

(* A modified order of the reference.                                      *)
ModifiedTo(r, q, p) ==
  [r EXCEPT !.quantity = q, !.remaining = q - r.filled, !.price = p]

(* Two orders of the reference that agree in every field are one.          *)
LEMMA SameReference ==
  ASSUME NEW a \in ReferenceOrders, NEW b \in ReferenceOrders,
         a.account = b.account, a.side = b.side, a.type = b.type, a.tif = b.tif,
         a.price = b.price, a.quantity = b.quantity, a.remaining = b.remaining,
         a.filled = b.filled, a.priority = b.priority
  PROVE  a = b
  BY DEF ReferenceOrders

(* Changes of an order, as the reference sees them.                        *)
LEMMA AsReferenceChanges ==
  ASSUME NEW o \in Order
  PROVE  /\ \A status \in OrderStatus :
              AsReference([o EXCEPT !.status = status]) = AsReference(o)
         /\ \A q \in Nat : q <= o.remaining =>
              AsReference(Filled(o, q)) = Reference!Less(AsReference(o), q)
         /\ \A q \in Nat : q > o.filled =>
              AsReference(Resized(o, q)) = ModifiedTo(AsReference(o), q, o.price)
         /\ \A q \in Nat, p \in Prices \cup {NoPrice}, n \in Nat : q > o.filled =>
              AsReference(Requeued(o, q, p, n)) =
                [ModifiedTo(AsReference(o), q, p) EXCEPT !.priority = n]
<1> DEFINE r == AsReference(o)
<1>0. /\ r \in ReferenceOrders /\ r.account = o.account /\ r.side = o.side
      /\ r.type = o.type /\ r.tif = o.tif /\ r.price = o.price
      /\ r.quantity = o.quantity /\ r.remaining = o.remaining
      /\ r.filled = o.filled /\ r.priority = o.priority
  BY AsReferenceFacts
<1> HIDE DEF r
<1>1. ASSUME NEW status \in OrderStatus
      PROVE  AsReference([o EXCEPT !.status = status]) = r
  <2> DEFINE a == [o EXCEPT !.status = status]
  <2>1. /\ a \in Order /\ a.account = o.account /\ a.side = o.side /\ a.type = o.type
        /\ a.tif = o.tif /\ a.price = o.price /\ a.quantity = o.quantity
        /\ a.remaining = o.remaining /\ a.filled = o.filled
        /\ a.priority = o.priority
    BY WithStatusFacts
  <2> HIDE DEF a
  <2>3. AsReference(a) = r
    BY <1>0, <2>1, AsReferenceFacts, SameReference
  <2> QED
    BY <2>3 DEF a
<1>2. ASSUME NEW q \in Nat, q <= o.remaining
      PROVE  AsReference(Filled(o, q)) = Reference!Less(r, q)
  <2> DEFINE a == Filled(o, q)
             b == Reference!Less(r, q)
  <2>1. /\ a \in Order /\ a.account = o.account /\ a.side = o.side /\ a.type = o.type
        /\ a.tif = o.tif /\ a.price = o.price /\ a.quantity = o.quantity
        /\ a.remaining = o.remaining - q /\ a.filled = o.filled + q
        /\ a.priority = o.priority
    BY <1>2, FilledFacts
  <2>2. /\ b \in ReferenceOrders /\ b.account = r.account /\ b.side = r.side
        /\ b.type = r.type /\ b.tif = r.tif /\ b.price = r.price
        /\ b.quantity = r.quantity /\ b.remaining = r.remaining - q
        /\ b.filled = r.filled + q /\ b.priority = r.priority
    <3>1. r.remaining - q \in Nat /\ r.filled + q \in Nat
      BY <1>0, <1>2 DEF ReferenceOrders
    <3> QED
      BY <1>0, <3>1 DEF Reference!Less, ReferenceOrders
  <2> HIDE DEF a, b
  <2>3. AsReference(a) = b
    BY <1>0, <2>1, <2>2, AsReferenceFacts, SameReference
  <2> QED
    BY <2>3 DEF a, b
<1>3. ASSUME NEW q \in Nat, q > o.filled
      PROVE  AsReference(Resized(o, q)) = ModifiedTo(r, q, o.price)
  <2> DEFINE a == Resized(o, q)
             b == ModifiedTo(r, q, o.price)
  <2>1. /\ a \in Order /\ a.account = o.account /\ a.side = o.side /\ a.type = o.type
        /\ a.tif = o.tif /\ a.price = o.price /\ a.quantity = q
        /\ a.remaining = q - o.filled /\ a.filled = o.filled
        /\ a.priority = o.priority
    BY <1>3, ResizedFacts
  <2>2. /\ b \in ReferenceOrders /\ b.account = r.account /\ b.side = r.side
        /\ b.type = r.type /\ b.tif = r.tif /\ b.price = r.price
        /\ b.quantity = q /\ b.remaining = q - r.filled
        /\ b.filled = r.filled /\ b.priority = r.priority
    <3>1. q - r.filled \in Nat /\ o.price = r.price
      BY <1>0, <1>3 DEF ReferenceOrders
    <3> QED
      BY <1>0, <3>1 DEF ModifiedTo, ReferenceOrders
  <2> HIDE DEF a, b
  <2>3. AsReference(a) = b
    BY <1>0, <2>1, <2>2, AsReferenceFacts, SameReference
  <2> QED
    BY <2>3 DEF a, b
<1>4. ASSUME NEW q \in Nat, NEW p \in Prices \cup {NoPrice}, NEW n \in Nat, q > o.filled
      PROVE  AsReference(Requeued(o, q, p, n)) = [ModifiedTo(r, q, p) EXCEPT !.priority = n]
  <2> DEFINE a == Requeued(o, q, p, n)
             b == [ModifiedTo(r, q, p) EXCEPT !.priority = n]
  <2>1. /\ a \in Order /\ a.account = o.account /\ a.side = o.side /\ a.type = o.type
        /\ a.tif = o.tif /\ a.price = p /\ a.quantity = q
        /\ a.remaining = q - o.filled /\ a.filled = o.filled
        /\ a.priority = n
    BY <1>4, RequeuedFacts
  <2>2. /\ b \in ReferenceOrders /\ b.account = r.account /\ b.side = r.side
        /\ b.type = r.type /\ b.tif = r.tif /\ b.price = p
        /\ b.quantity = q /\ b.remaining = q - r.filled
        /\ b.filled = r.filled /\ b.priority = n
    <3>1. q - r.filled \in Nat
      BY <1>0, <1>4 DEF ReferenceOrders
    <3> QED
      BY <1>0, <3>1 DEF ModifiedTo, ReferenceOrders
  <2> HIDE DEF a, b
  <2>3. AsReference(a) = b
    BY <1>0, <2>1, <2>2, AsReferenceFacts, SameReference
  <2> QED
    BY <2>3 DEF a, b
<1> QED
  BY <1>1, <1>2, <1>3, <1>4 DEF r

-----------------------------------------------------------------------------
(* The head of the best level is the order the reference would sort first,
   and both see the same owner.                                            *)
LEMMA MeetsFirst ==
  ASSUME IInv, NEW p \in Prices, Meets(p)
  PROVE  /\ Reference!Meets(Maker(p))
         /\ Reference!Own(Working, Maker(p)) <=> OwnMaker(p)
<1> DEFINE m == Maker(p)
<1>1. /\ incoming # None /\ m \in live_orders /\ orders[m].side = Opposing
      /\ orders[m].price = p /\ FirstInPriority(m)
      /\ Crosses(orders[incoming], p) /\ orders[incoming].remaining > 0
  BY MakerFacts, MakerIsFirst DEF Meets, Executing
<1> HIDE DEF m
<1>2. /\ Working.side = orders[incoming].side
      /\ Working.type = orders[incoming].type
      /\ Working.price = orders[incoming].price
      /\ Working.account = orders[incoming].account
      /\ Working.remaining = orders[incoming].remaining
  BY <1>1, WorkingFacts
<1>3. m \in Facing(Working.side)
  BY <1>1, <1>2 DEF Facing, Opposing
<1>4. \A n \in Facing(Working.side) \ {m} : Before(m, n)
  BY <1>1, <1>2 DEF Facing, Opposing, FirstInPriority, Before
<1>5. Reference!First(Working.side, m)
  <2>1. \A n \in Facing(Working.side) : n \in live_orders
    BY DEF Facing
  <2> QED
    BY <1>1, <1>3, <1>4, <2>1, ReferenceLive DEF Reference!First
<1>6. /\ LiveMap[m].price = p
      /\ LiveMap[m].account = orders[m].account
  BY <1>1, LiveMapFacts
<1>7. Crosses(Working, LiveMap[m].price)
  BY <1>1, <1>2, <1>6 DEF Crosses
<1>8. Reference!Meets(m)
  BY <1>1, <1>2, <1>5, <1>7
  DEF Reference!Meets, Reference!Crosses, Crosses, LiveMap, Working
<1>9. Reference!Own(Working, m) <=> OwnMaker(p)
  BY <1>2, <1>6 DEF Reference!Own, OwnMaker, LiveMap, m
<1> QED
  BY <1>8, <1>9 DEF m

(* A step of the loop that changes at most the status of an order leaves
   what the reference keeps of the orders.                                 *)
LEMMA StatusOnly ==
  ASSUME IInv, [Next]_vars, incoming # None,
         \/ orders' = orders
         \/ orders' = [orders EXCEPT ![incoming] =
                         [orders[incoming] EXCEPT !.status = "CANCELLED"]]
  PROVE  /\ \A x \in OrderIds : Known(x) =>
              AsReference(orders'[x]) = AsReference(orders[x])
         /\ LastPriority' = LastPriority
         /\ SeenSet' = SeenSet
<1> DEFINE i == incoming
           new == [orders[i] EXCEPT !.status = "CANCELLED"]
<1>1. i \in OrderIds /\ orders[i] \in Order /\ Known(i)
  BY IncomingFacts
<1>2. "CANCELLED" \in OrderStatus
  BY DEF OrderStatus
<1>3. new # NoOrder /\ new.priority = orders[i].priority
  BY <1>1, <1>2, WithStatusFacts
<1>4. AsReference(new) = AsReference(orders[i])
  BY <1>1, <1>2, AsReferenceChanges
<1>5. orders' = orders \/ orders' = [orders EXCEPT ![i] = new]
  OBVIOUS
<1> HIDE DEF i, new
<1>6. \/ orders' = orders
      \/ orders'[i] = new /\ \A x \in OrderIds : x # i => orders'[x] = orders[x]
  BY <1>1, <1>5, OneOrderChanges
<1>7. \A x \in OrderIds : Known(x) => AsReference(orders'[x]) = AsReference(orders[x])
  BY <1>4, <1>6
<1>8. LastPriority' = LastPriority
  <2>1. \A x \in OrderIds : Known(x) =>
          orders'[x] # NoOrder /\ orders'[x].priority = orders[x].priority
    BY <1>3, <1>6 DEF Known
  <2>2. \A x \in OrderIds : ~Known(x) => orders'[x] = NoOrder
    BY <1>1, <1>6 DEF Known
  <2> QED
    BY <2>1, <2>2, LastPrioritySame
<1>9. SeenSet' = SeenSet
  BY SeenSame
<1> QED
  BY <1>7, <1>8, <1>9

(* Self-trade prevention stops the order in both.                          *)
LEMMA StopsTheSame ==
  ASSUME IInv, [Next]_vars, PreventSelfTrade
  PROVE  Reference!StopAtOwnOrder
<1>1. PICK p \in Prices : Meets(p) /\ OwnMaker(p)
  BY DEF PreventSelfTrade
<1>2. /\ incoming # None /\ Maker(p) \in live_orders /\ Maker(p) \in OrderIds
  BY <1>1, MakerFacts, LiveNow
<1>3. orders' = [orders EXCEPT ![incoming] = [orders[incoming] EXCEPT !.status = "CANCELLED"]]
  BY DEF PreventSelfTrade
<1>4. /\ \A x \in OrderIds : Known(x) => AsReference(orders'[x]) = AsReference(orders[x])
      /\ LastPriority' = LastPriority /\ SeenSet' = SeenSet
  BY <1>2, <1>3, StatusOnly
<1>5. LiveMap' = LiveMap
  <2>1. live_orders' = live_orders
    BY DEF PreventSelfTrade
  <2>2. \A x \in live_orders : x \in OrderIds /\ Known(x)
    BY LiveFacts
  <2> QED
    BY <1>4, <2>1, <2>2, LiveMapSame
<1>6. Working' = NoOrder /\ incoming' = None /\ trades' = trades
  BY DEF PreventSelfTrade, Working
<1>7. Reference!Meets(Maker(p)) /\ Reference!Own(Working, Maker(p))
  BY <1>1, MeetsFirst
<1> QED
  BY <1>2, <1>4, <1>5, <1>6, <1>7
  DEF Reference!StopAtOwnOrder, Reference!Done, LiveMap, SeenSet, Working

(* A trade of the loop is a trade of the reference, with the same maker, at
   the same price, for the same quantity.                                  *)
LEMMA TradesTheSame ==
  ASSUME IInv, [Next]_vars, NEW p \in Prices, TradePartOfMaker(p) \/ TradeAllOfMaker(p),
         NEW m \in OrderIds, m = Maker(p)
  PROVE  Reference!Trade(m)
<1> DEFINE q == TradeQuantity(p)
<1>1. Executes(p) /\ Meets(p) /\ ~OwnMaker(p)
  BY DEF TradePartOfMaker, TradeAllOfMaker, Executes
<1>2. /\ m \in live_orders /\ m \in OrderIds /\ m # incoming
      /\ orders[m] \in Order /\ orders[m].price = p
      /\ q \in Nat /\ q <= orders[m].remaining /\ q <= orders[incoming].remaining
      /\ incoming # None /\ incoming \in OrderIds /\ orders[incoming] \in Order
      /\ incoming \notin live_orders
  BY <1>1, MakerFacts, LiveFacts, IncomingFacts
<1>3. /\ orders'[m] = Filled(orders[m], q)
      /\ orders'[incoming] = Filled(orders[incoming], q)
      /\ \A x \in OrderIds : x # m /\ x # incoming => orders'[x] = orders[x]
      /\ \A x \in OrderIds : Known(x)' <=> Known(x)
      /\ \A x \in OrderIds : Known(x) => orders'[x].priority = orders[x].priority
      /\ incoming' = incoming
  BY <1>1, ExecutesFacts
<1>4. live_orders' = IF orders[m].remaining = q THEN live_orders \ {m} ELSE live_orders
  <2>1. CASE TradePartOfMaker(p)
    <3>1. orders[m].remaining > q /\ orders[m].remaining \in Nat
      BY <1>2, <2>1 DEF TradePartOfMaker, Order
    <3>2. orders[m].remaining # q
      BY <1>2, <3>1
    <3> QED
      BY <2>1, <3>2 DEF TradePartOfMaker
  <2>2. CASE TradeAllOfMaker(p)
    BY <2>2 DEF TradeAllOfMaker, Unlink
  <2> QED
    BY <2>1, <2>2
<1>5. trades' = Append(trades, [maker |-> m, taker |-> incoming, price |-> p,
                                quantity |-> q])
  BY <1>1 DEF Executes
<1>6. Reference!Meets(m) /\ ~Reference!Own(Working, m)
  BY <1>1, MeetsFirst
<1>7. q = Smaller(Working.remaining, LiveMap[m].remaining) /\ LiveMap[m].price = p
  <2>1. q = Smaller(orders[incoming].remaining, orders[m].remaining)
    BY DEF TradeQuantity
  <2> HIDE DEF q
  <2> QED
    BY <1>2, <2>1, WorkingFacts, LiveMapFacts
<1> HIDE DEF q
<1>8. /\ AsReference(orders'[m]) = Reference!Less(AsReference(orders[m]), q)
      /\ AsReference(orders'[incoming]) = Reference!Less(AsReference(orders[incoming]), q)
  BY <1>2, <1>3, AsReferenceChanges
<1>9. Working' = Reference!Less(Working, q)
  BY <1>2, <1>3, <1>8, WorkingFacts DEF Working
<1>10. LiveMap' = [LiveMap EXCEPT ![m] =
                     IF LiveMap[m].remaining = q THEN NoOrder
                     ELSE Reference!Less(LiveMap[m], q)]
  <2> DEFINE v == IF orders[m].remaining = q THEN NoOrder
                  ELSE Reference!Less(AsReference(orders[m]), q)
  <2>1. \A x \in OrderIds : x # m =>
          /\ x \in live_orders' <=> x \in live_orders
          /\ x \in live_orders => AsReference(orders'[x]) = AsReference(orders[x])
    BY <1>2, <1>3, <1>4
  <2>2. v = IF m \in live_orders' THEN AsReference(orders'[m]) ELSE NoOrder
    BY <1>2, <1>4, <1>8
  <2>3. v = IF LiveMap[m].remaining = q THEN NoOrder ELSE Reference!Less(LiveMap[m], q)
    BY <1>2, LiveMapFacts
  <2> HIDE DEF v
  <2>4. LiveMap' = [LiveMap EXCEPT ![m] = v]
    BY <1>2, <2>1, <2>2, LiveMapChanges
  <2> QED
    BY <2>3, <2>4
<1>11. LastPriority' = LastPriority /\ SeenSet' = SeenSet
  BY <1>2, <1>3, LastPrioritySame, SeenSame DEF Known
<1>12. trades' = Append(trades, [maker |-> m, taker |-> incoming,
                                 price |-> LiveMap[m].price, quantity |-> q])
  BY <1>5, <1>7
<1> QED
  <2>1. LET quantity == Smaller(Working.remaining, LiveMap[m].remaining)
        IN /\ Reference!Meets(m) /\ ~Reference!Own(Working, m)
           /\ Working' = Reference!Less(Working, quantity)
           /\ LiveMap' = [LiveMap EXCEPT ![m] =
                            IF LiveMap[m].remaining = quantity THEN NoOrder
                            ELSE Reference!Less(LiveMap[m], quantity)]
           /\ trades' = Append(trades, [maker |-> m, taker |-> incoming,
                                        price |-> LiveMap[m].price,
                                        quantity |-> quantity])
           /\ SeenSet' = SeenSet /\ LastPriority' = LastPriority /\ incoming' = incoming
    BY <1>3, <1>6, <1>7, <1>9, <1>10, <1>11, <1>12
  <2> QED
    BY <2>1 DEF Reference!Trade, Reference!Smaller, Smaller, LiveMap, SeenSet, Working

(* An order leaves the loop as it leaves the reference's: with nothing left,
   cancelled, or resting with the rest of it.                              *)
LEMMA FinishesTheSame ==
  ASSUME IInv, [Next]_vars, CompleteFilled \/ CancelRemainder \/ RestRemainder
  PROVE  Reference!Finish
<1> DEFINE i == incoming
<1>1. /\ i # None /\ i \in OrderIds /\ orders[i] \in Order /\ i \notin live_orders
      /\ orders[i].side \in Side
  BY IncomingFacts DEF CompleteFilled, CancelRemainder, RestRemainder, Executing
<1>2. incoming' = None /\ Working' = NoOrder /\ trades' = trades
  BY DEF CompleteFilled, CancelRemainder, RestRemainder, Working
<1>3. \/ orders' = orders
      \/ orders' = [orders EXCEPT ![i] = [orders[i] EXCEPT !.status = "CANCELLED"]]
  BY DEF CompleteFilled, CancelRemainder, RestRemainder
<1>4. /\ \A x \in OrderIds : Known(x) => AsReference(orders'[x]) = AsReference(orders[x])
      /\ LastPriority' = LastPriority /\ SeenSet' = SeenSet
  BY <1>1, <1>3, StatusOnly
<1>5. /\ Working = AsReference(orders[i]) /\ Working.remaining = orders[i].remaining
      /\ Working.side = orders[i].side /\ Working.type = orders[i].type
      /\ Working.price = orders[i].price /\ Working.tif = orders[i].tif
  BY <1>1, WorkingFacts
<1>6. orders[i].remaining = 0 \/ ~CrossesBook(orders[i])
  BY DEF CompleteFilled, CancelRemainder, RestRemainder
<1>7. Reference!CrossesFirst(Working) <=> CrossesBook(orders[i])
  <2>1. orders[i].type # "MARKET" => orders[i].price \in Int
    <3>1. orders[i].price \in Prices \cup {NoPrice}
      BY <1>1 DEF Order
    <3>2. \A p \in Prices \cup {NoPrice} : p \in Int
      BY PricesAssumption DEF NoPrice
    <3> QED
      BY <3>1, <3>2
  <2>2. Reference!CrossesFirst(Working) <=> CrossesBook(Working)
    BY <1>1, <1>5, <2>1, CrossesFirstSame
  <2> QED
    BY <1>5, <2>2, CrossesBookSame
<1> DEFINE v == IF Reference!MayRest(Working) THEN Working ELSE LiveMap[i]
<1>8. v = IF i \in live_orders' THEN AsReference(orders'[i]) ELSE NoOrder
  <2>1. LiveMap[i] = NoOrder /\ AsReference(orders'[i]) = AsReference(orders[i])
    <3>1. Known(i)
      BY <1>1, IncomingFacts
    <3> QED
      BY <1>1, <1>4, <3>1, LiveMapFacts
  <2>2. orders[i].remaining > 0 =>
          (Reference!MayRest(Working) <=> ~NeverRests(orders[i]))
    <3>1. orders[i].type \in OrderType /\ orders[i].tif \in TimeInForce
      BY <1>1 DEF Order
    <3> QED
      BY <1>5, <3>1 DEF Reference!MayRest, NeverRests, OrderType, TimeInForce
  <2>3. CASE CompleteFilled
    <3>1. live_orders' = live_orders /\ orders[i].remaining = 0
      BY <2>3 DEF CompleteFilled
    <3>2. ~Reference!MayRest(Working)
      BY <1>5, <3>1 DEF Reference!MayRest
    <3> QED
      BY <1>1, <2>1, <3>1, <3>2
  <2>4. CASE CancelRemainder
    <3>1. live_orders' = live_orders /\ ~Reference!MayRest(Working)
      BY <2>2, <2>4 DEF CancelRemainder, Executing
    <3> QED
      BY <1>1, <2>1, <3>1
  <2>5. CASE RestRemainder
    <3>1. live_orders' = live_orders \cup {i} /\ Reference!MayRest(Working)
      BY <2>2, <2>5 DEF RestRemainder, Executing, Rest
    <3> QED
      BY <1>5, <2>1, <3>1
  <2> QED
    BY <2>3, <2>4, <2>5
<1>9. LiveMap' = [LiveMap EXCEPT ![i] = v]
  <2>1. live_orders' = live_orders \/ live_orders' = live_orders \cup {i}
    BY DEF CompleteFilled, CancelRemainder, RestRemainder, Rest
  <2>2. \A x \in OrderIds : x # i =>
          /\ x \in live_orders' <=> x \in live_orders
          /\ x \in live_orders => AsReference(orders'[x]) = AsReference(orders[x])
    BY <1>4, <2>1, LiveFacts
  <2> HIDE DEF i, v
  <2> QED
    BY <1>1, <1>8, <2>2, LiveMapChanges
<1>10. Working.remaining = 0 \/ ~Reference!CrossesFirst(Working)
  BY <1>5, <1>6, <1>7
<1> QED
  BY <1>1, <1>2, <1>4, <1>9, <1>10
  DEF Reference!Finish, Reference!Done, LiveMap, SeenSet, Working

-----------------------------------------------------------------------------
(* What the reference makes of a submission.                               *)
LEMMA NewAsReference ==
  ASSUME NEW r \in Request, NEW n \in Nat
  PROVE  AsReference(NewOrder(r, "ACCEPTED", n)) = Reference!ReferenceOrder(r, n)
<1> DEFINE new == NewOrder(r, "ACCEPTED", n)
<1>1. /\ new.account = r.account /\ new.side = r.side /\ new.type = r.type
      /\ new.tif = r.tif /\ new.price = r.price /\ new.quantity = r.quantity
      /\ new.remaining = r.quantity /\ new.filled = 0 /\ new.priority = n
  BY NewOrderFacts DEF OrderStatus
<1> HIDE DEF new
<1>2. AsReference(new) = Reference!ReferenceOrder(r, n)
  BY <1>1 DEF AsReference, Reference!ReferenceOrder
<1> QED
  BY <1>2 DEF new

(* A request is accepted by both, which find the same things wrong with it:
   what crosses, and what a fill-or-kill order could get.                  *)
LEMMA AcceptsTheSame ==
  ASSUME IInv, [Next]_vars, NEW id \in OrderIds, NEW r \in Requests, Accept(id, r)
  PROVE  Reference!Submit(id, r)
<1> DEFINE n == sequence + 1
           new == NewOrder(r, "ACCEPTED", n)
<1>1. /\ incoming = None /\ incoming' = id /\ trades' = trades
      /\ live_orders' = live_orders /\ ~Refused(id, r)
      /\ orders' = [orders EXCEPT ![id] = new]
  BY DEF Accept, CanStart
<1>2. /\ r \in Request /\ n \in Nat /\ id # None
      /\ r.side \in Side /\ r.price \in Prices \cup {NoPrice}
  BY RequestsAssumption, SentinelsAssumption, PlacedNow DEF Request
<1>3. "ACCEPTED" \in OrderStatus /\ "ACCEPTED" # "REJECTED"
  BY DEF OrderStatus
<1>4. /\ new \in Order /\ new # NoOrder /\ new.status = "ACCEPTED"
      /\ new.priority = n
  BY <1>2, <1>3, NewOrderFacts
<1>5. AsReference(new) = Reference!ReferenceOrder(r, n)
  BY <1>2, NewAsReference
<1>6. orders \in Orders
  BY Types DEF IInv
<1> HIDE DEF new
<1>7. /\ orders' \in Orders /\ orders'[id] = new
      /\ \A x \in OrderIds : x # id => orders'[x] = orders[x]
  BY <1>1, <1>4, <1>6 DEF Orders
<1>8. LastPriority' = n /\ LastPriority' > LastPriority
  BY <1>4, <1>7, LastPriorityGrows
<1> HIDE DEF n
<1>9. Working' = Reference!ReferenceOrder(r, LastPriority')
  BY <1>1, <1>2, <1>5, <1>7, <1>8 DEF Working
<1>10. orders[id] = NoOrder /\ id \notin live_orders
  <2>1. ~Known(id)
    BY <1>1 DEF Refused, Invalid
  <2> QED
    BY <2>1, LiveFacts DEF Known
<1>11. LiveMap' = LiveMap
  BY <1>1, <1>7, <1>10, LiveNow, LiveMapSame
<1>12. SeenSet' = SeenSet \cup {id}
  BY <1>3, <1>4, <1>7 DEF SeenSet, Known
<1>13. ~Reference!Invalid(id, r)
  <2>1. id \notin SeenSet
    BY <1>10 DEF SeenSet, Known
  <2>2. /\ ~(r.quantity <= 0)
        /\ ~(r.type = "LIMIT" /\ r.price = NoPrice)
        /\ ~(r.type = "MARKET" /\ r.tif \notin {"IOC", "FOK"})
    BY <1>1 DEF Refused, Invalid
  <2> QED
    BY <2>1, <2>2 DEF Reference!Invalid, SeenSet, Reference!NoPrice, NoPrice
<1>14. ~Reference!WouldNotTrade(r)
  <2>1. r.price \in Int
    <3>1. \A p \in Prices \cup {NoPrice} : p \in Int
      BY PricesAssumption DEF NoPrice
    <3> QED
      BY <1>2, <3>1
  <2>2. /\ Reference!CrossesFirst(r) <=> CrossesBook(r)
        /\ Reference!Available(r) = AvailableLiquidity(r)
    BY <1>2, <2>1, CrossesFirstSame, AvailableSame
  <2>3. /\ ~(r.tif = "POST_ONLY" /\ CrossesBook(r))
        /\ ~(r.tif = "FOK" /\ AvailableLiquidity(r) < r.quantity)
    BY <1>1 DEF Refused
  <2> QED
    BY <2>2, <2>3 DEF Reference!WouldNotTrade
<1> QED
  BY <1>1, <1>8, <1>9, <1>11, <1>12, <1>13, <1>14
  DEF Reference!Submit, LiveMap, SeenSet, Working

(* What the risk gateway refuses takes an id and no priority, and the
   reference does not hear of it.                                          *)
LEMMA RefusalsUnseen ==
  ASSUME IInv, [Next]_vars, NEW id \in OrderIds, NEW r \in RiskRequests,
         RejectByRisk(id, r)
  PROVE  UNCHANGED Reference!vars
<1> DEFINE new == NewOrder(r, "REJECTED", 0)
<1>1. /\ incoming = None /\ incoming' = None /\ trades' = trades
      /\ live_orders' = live_orders
      /\ orders' = IF Known(id) THEN orders ELSE [orders EXCEPT ![id] = new]
  BY DEF RejectByRisk, CanStart
<1>2. new.priority = 0
  BY RequestsAssumption, NewOrderFacts DEF OrderStatus
<1> HIDE DEF new
<1>3. /\ \A x \in OrderIds : Known(x) => orders'[x] = orders[x]
      /\ \A x \in OrderIds : ~Known(x) => orders'[x] = NoOrder \/ orders'[x] = new
  <2>1. CASE Known(id)
    BY <1>1, <2>1 DEF Known
  <2>2. CASE ~Known(id)
    BY <1>1, <2>2, OneOrderChanges DEF Known
  <2> QED
    BY <2>1, <2>2
<1>4. LastPriority' = LastPriority /\ SeenSet' = SeenSet
  <2>1. \A x \in OrderIds : Known(x) =>
           orders'[x] # NoOrder /\ orders'[x].priority = orders[x].priority
    BY <1>3 DEF Known
  <2>2. \A x \in OrderIds : ~Known(x) => orders'[x] = NoOrder \/ orders'[x].priority = 0
    BY <1>2, <1>3
  <2> QED
    BY <1>1, <2>1, <2>2, LastPrioritySame, SeenSame
<1>5. LiveMap' = LiveMap /\ Working' = Working
  <2>1. \A x \in live_orders : orders'[x] = orders[x]
    BY <1>3, LiveFacts
  <2> QED
    BY <1>1, <2>1, LiveMapSame DEF Working
<1> QED
  BY <1>1, <1>4, <1>5, ReferenceSame

-----------------------------------------------------------------------------
(* Both let the same accounts touch a resting order.                       *)
LEMMA TouchesTheSame ==
  ASSUME IInv, NEW id \in OrderIds, NEW who
  PROVE  Reference!MayTouch(id, who) <=> MayTouch(id, who)
<1>1. id \in live_orders => LiveMap[id].account = orders[id].account
  BY LiveMapFacts
<1>2. Reference!MayTouch(id, who) <=> id \in live_orders /\ who \in {None, LiveMap[id].account}
  BY ReferenceLive DEF Reference!MayTouch, LiveMap
<1> QED
  BY <1>1, <1>2 DEF MayTouch

(* And the same modifications of it: what a post-only order would cross is
   asked of the modified order in one, of the new price in the other.       *)
LEMMA ModifiesTheSame ==
  ASSUME IInv, NEW id \in OrderIds, NEW who, NEW q \in Nat, NEW p \in Prices \cup {NoPrice},
         MayTouch(id, who)
  PROVE  /\ Reference!Modified(id, q, p) = ModifiedTo(AsReference(orders[id]), q, p)
         /\ Reference!Modifiable(id, who, q, p) <=> Modifiable(id, who, q, p)
         /\ Reference!LosesPriority(id, q, p) <=> LosesPriority(orders[id], q, p)
<1> DEFINE r == AsReference(orders[id])
           new == ModifiedTo(r, q, p)
           moved == [orders[id] EXCEPT !.price = p]
<1>1. /\ id \in live_orders /\ orders[id] \in Order /\ orders[id].side \in Side
      /\ LiveMap[id] = r
  BY LiveFacts, LiveMapFacts DEF MayTouch
<1>2. /\ r \in ReferenceOrders /\ r.side = orders[id].side /\ r.type = orders[id].type
      /\ r.tif = orders[id].tif /\ r.price = orders[id].price
      /\ r.quantity = orders[id].quantity /\ r.filled = orders[id].filled
  BY <1>1, AsReferenceFacts
<1>3. /\ moved.side = orders[id].side /\ moved.type = orders[id].type /\ moved.price = p
  BY <1>1 DEF Order
<1> HIDE DEF r
<1>4. /\ new.side = r.side /\ new.type = r.type /\ new.price = p
  BY <1>2 DEF ModifiedTo, ReferenceOrders
<1>5. Reference!Modified(id, q, p) = ModifiedTo(LiveMap[id], q, p)
  BY DEF Reference!Modified, ModifiedTo, LiveMap
<1>6. Reference!Modified(id, q, p) = new
  BY <1>1, <1>5
<1> HIDE DEF new, moved
<1>7. Reference!CrossesFirst(new) <=> CrossesBook(moved)
  <2>1. \A x \in Prices \cup {NoPrice} : x \in Int
    BY PricesAssumption DEF NoPrice
  <2>2. new.side \in Side /\ new.price \in Int
    BY <1>1, <1>2, <1>4, <2>1
  <2>3. Reference!CrossesFirst(new) <=> CrossesBook(new)
    BY <2>2, CrossesFirstSame
  <2>4. new.side = moved.side /\ new.type = moved.type /\ new.price = moved.price
    BY <1>2, <1>3, <1>4
  <2>5. CrossesBook(new) <=> CrossesBook(moved)
    BY <2>4, CrossesBookSame
  <2> QED
    BY <2>3, <2>5
<1>8. Reference!Modifiable(id, who, q, p) <=>
        /\ Reference!MayTouch(id, who)
        /\ p # NoPrice /\ q > LiveMap[id].filled
        /\ ~(LiveMap[id].tif = "POST_ONLY" /\ Reference!CrossesFirst(Reference!Modified(id, q, p)))
  BY DEF Reference!Modifiable, LiveMap, Reference!NoPrice, NoPrice
<1>9. Reference!Modifiable(id, who, q, p) <=> Modifiable(id, who, q, p)
  <2>1. Modifiable(id, who, q, p) <=>
          /\ p # NoPrice /\ q > orders[id].filled
          /\ ~(orders[id].tif = "POST_ONLY" /\ CrossesBook(moved))
    BY DEF Modifiable, moved
  <2>2. Reference!MayTouch(id, who)
    BY TouchesTheSame
  <2> QED
    BY <1>1, <1>2, <1>6, <1>7, <1>8, <2>1, <2>2
<1>10. Reference!LosesPriority(id, q, p) <=> p # LiveMap[id].price \/ q > LiveMap[id].quantity
  BY DEF Reference!LosesPriority, LiveMap
<1>11. Reference!LosesPriority(id, q, p) <=> LosesPriority(orders[id], q, p)
  BY <1>1, <1>2, <1>10 DEF LosesPriority
<1> QED
  BY <1>6, <1>9, <1>11 DEF new, r

(* A cancellation takes the order out of both.                             *)
LEMMA CancelsTheSame ==
  ASSUME IInv, [Next]_vars, NEW id \in OrderIds, NEW who \in Accounts \cup {None},
         Cancel(id, who)
  PROVE  Reference!Cancel(id, who)
<1> DEFINE new == [orders[id] EXCEPT !.status = "CANCELLED"]
<1>1. /\ incoming = None /\ incoming' = None /\ trades' = trades
      /\ MayTouch(id, who) /\ id \in live_orders
      /\ live_orders' = live_orders \ {id}
      /\ orders' = [orders EXCEPT ![id] = new]
  BY DEF Cancel, CanStart, MayTouch, Unlink
<1>2. orders[id] \in Order /\ Known(id)
  BY <1>1, LiveFacts
<1>3. new.priority = orders[id].priority /\ new # NoOrder
  BY <1>2, WithStatusFacts DEF OrderStatus
<1> HIDE DEF new
<1>4. orders'[id] = new /\ \A x \in OrderIds : x # id => orders'[x] = orders[x]
  BY <1>1, OneOrderChanges
<1>5. LiveMap' = [LiveMap EXCEPT ![id] = NoOrder]
  <2>1. \A x \in OrderIds : x # id =>
          /\ x \in live_orders' <=> x \in live_orders
          /\ x \in live_orders => AsReference(orders'[x]) = AsReference(orders[x])
    BY <1>1, <1>4
  <2>2. NoOrder = IF id \in live_orders' THEN AsReference(orders'[id]) ELSE NoOrder
    BY <1>1
  <2> QED
    BY <2>1, <2>2, LiveMapChanges
<1>6. LastPriority' = LastPriority
  <2>1. \A x \in OrderIds : Known(x) =>
           orders'[x] # NoOrder /\ orders'[x].priority = orders[x].priority
    BY <1>3, <1>4 DEF Known
  <2>2. \A x \in OrderIds : ~Known(x) => orders'[x] = NoOrder
    BY <1>2, <1>4 DEF Known
  <2> QED
    BY <2>1, <2>2, LastPrioritySame
<1>7. SeenSet' = SeenSet
  BY <1>1, SeenSame
<1>8. Working' = Working
  BY <1>1 DEF Working
<1>9. Reference!MayTouch(id, who)
  BY <1>1, TouchesTheSame
<1> QED
  BY <1>1, <1>5, <1>6, <1>7, <1>8, <1>9
  DEF Reference!Cancel, LiveMap, SeenSet, Working

(* A modification that keeps priority resizes the order in both.           *)
LEMMA ResizesTheSame ==
  ASSUME IInv, [Next]_vars, NEW id \in OrderIds, NEW who \in Accounts \cup {None},
         NEW q \in ModifyQuantities, NEW p \in ModifyPrices,
         ModifyInPlace(id, who, q, p)
  PROVE  Reference!Resize(id, who, q, p)
<1> DEFINE new == Resized(orders[id], q)
<1>0. q \in Nat /\ p \in Prices \cup {NoPrice}
  BY ModifyAssumption
<1>1. /\ incoming = None /\ incoming' = None /\ trades' = trades
      /\ Modifiable(id, who, q, p) /\ MayTouch(id, who) /\ id \in live_orders
      /\ q > orders[id].filled /\ ~LosesPriority(orders[id], q, p)
      /\ p = orders[id].price
      /\ live_orders' = live_orders
      /\ orders' = [orders EXCEPT ![id] = new]
  BY DEF ModifyInPlace, CanStart, Modifiable, MayTouch, LosesPriority
<1>2. orders[id] \in Order /\ Known(id)
  BY <1>1, LiveFacts
<1>3. /\ new.priority = orders[id].priority /\ new # NoOrder
      /\ AsReference(new) = ModifiedTo(AsReference(orders[id]), q, p)
  BY <1>0, <1>1, <1>2, ResizedFacts, AsReferenceChanges
<1> HIDE DEF new
<1>4. orders'[id] = new /\ \A x \in OrderIds : x # id => orders'[x] = orders[x]
  BY <1>1, OneOrderChanges
<1>5. LiveMap' = [LiveMap EXCEPT ![id] = AsReference(new)]
  <2>1. \A x \in OrderIds : x # id =>
          /\ x \in live_orders' <=> x \in live_orders
          /\ x \in live_orders => AsReference(orders'[x]) = AsReference(orders[x])
    BY <1>1, <1>4
  <2>2. AsReference(new) = IF id \in live_orders' THEN AsReference(orders'[id]) ELSE NoOrder
    BY <1>1, <1>4
  <2> QED
    BY <2>1, <2>2, LiveMapChanges
<1>6. LastPriority' = LastPriority
  <2>1. \A x \in OrderIds : Known(x) =>
           orders'[x] # NoOrder /\ orders'[x].priority = orders[x].priority
    BY <1>3, <1>4 DEF Known
  <2>2. \A x \in OrderIds : ~Known(x) => orders'[x] = NoOrder
    BY <1>2, <1>4 DEF Known
  <2> QED
    BY <2>1, <2>2, LastPrioritySame
<1>7. SeenSet' = SeenSet
  BY <1>1, SeenSame
<1>8. Working' = Working
  BY <1>1 DEF Working
<1>9. /\ Reference!Modified(id, q, p) = AsReference(new)
      /\ Reference!Modifiable(id, who, q, p)
      /\ ~Reference!LosesPriority(id, q, p)
  BY <1>0, <1>1, <1>3, ModifiesTheSame
<1>10. LiveMap' = [LiveMap EXCEPT ![id] = Reference!Modified(id, q, p)]
  BY <1>5, <1>9
<1> QED
  BY <1>1, <1>6, <1>7, <1>8, <1>9, <1>10
  DEF Reference!Resize, LiveMap, SeenSet, Working

(* Any other takes it out and executes it again, with a new priority.      *)
LEMMA RequeuesTheSame ==
  ASSUME IInv, [Next]_vars, NEW id \in OrderIds, NEW who \in Accounts \cup {None},
         NEW q \in ModifyQuantities, NEW p \in ModifyPrices,
         ModifyAndRequeue(id, who, q, p)
  PROVE  Reference!Requeue(id, who, q, p)
<1> DEFINE n == sequence + 1
           new == Requeued(orders[id], q, p, n)
<1>0. q \in Nat /\ p \in Prices \cup {NoPrice} /\ n \in Nat
  BY ModifyAssumption, PlacedNow
<1>1. /\ incoming = None /\ incoming' = id /\ trades' = trades
      /\ Modifiable(id, who, q, p) /\ MayTouch(id, who) /\ id \in live_orders
      /\ q > orders[id].filled /\ LosesPriority(orders[id], q, p)
      /\ live_orders' = live_orders \ {id}
      /\ orders' = [orders EXCEPT ![id] = new]
  BY DEF ModifyAndRequeue, CanStart, Modifiable, MayTouch, Unlink
<1>2. orders[id] \in Order /\ Known(id) /\ orders \in Orders /\ id # None
  BY <1>1, LiveFacts, LiveNow, SentinelsAssumption
<1> HIDE DEF n
<1>3. /\ new \in Order /\ new.priority = n /\ new # NoOrder
      /\ AsReference(new) =
           [ModifiedTo(AsReference(orders[id]), q, p) EXCEPT !.priority = n]
  BY <1>0, <1>1, <1>2, RequeuedFacts, AsReferenceChanges
<1> HIDE DEF new
<1>4. /\ orders' \in Orders /\ orders'[id] = new
      /\ \A x \in OrderIds : x # id => orders'[x] = orders[x]
  BY <1>1, <1>2, <1>3 DEF Orders
<1>5. LiveMap' = [LiveMap EXCEPT ![id] = NoOrder]
  <2>1. \A x \in OrderIds : x # id =>
          /\ x \in live_orders' <=> x \in live_orders
          /\ x \in live_orders => AsReference(orders'[x]) = AsReference(orders[x])
    BY <1>1, <1>4
  <2>2. NoOrder = IF id \in live_orders' THEN AsReference(orders'[id]) ELSE NoOrder
    BY <1>1
  <2> QED
    BY <2>1, <2>2, LiveMapChanges
<1>6. LastPriority' = n /\ LastPriority' > LastPriority
  BY <1>3, <1>4, LastPriorityGrows DEF n
<1>7. SeenSet' = SeenSet
  BY <1>1, <1>2, SeenSame
<1>8. /\ Reference!Modified(id, q, p) = ModifiedTo(AsReference(orders[id]), q, p)
      /\ Reference!Modifiable(id, who, q, p)
      /\ Reference!LosesPriority(id, q, p)
  BY <1>0, <1>1, ModifiesTheSame
<1>9. Working' = [Reference!Modified(id, q, p) EXCEPT !.priority = LastPriority']
  BY <1>1, <1>2, <1>3, <1>4, <1>6, <1>8 DEF Working
<1> QED
  BY <1>1, <1>5, <1>6, <1>7, <1>8, <1>9
  DEF Reference!Requeue, LiveMap, SeenSet, Working

-----------------------------------------------------------------------------
(* The empty book is the empty book of the reference.                      *)
LEMMA StartsTheSame == Init => Reference!Init
<1> SUFFICES ASSUME Init PROVE Reference!Init
  OBVIOUS
<1>1. IInv
  BY InitInv
<1>2. orders \in Orders /\ \A x \in OrderIds : orders[x] = NoOrder
  BY <1>1, Types DEF IInv, Init
<1>3. Priorities(orders) = {0}
  BY <1>2 DEF Priorities
<1>4. LastPriority = 0
  BY <1>2, <1>3, GreatestPriority, LastPriorityIs
<1>5. LiveMap = [id \in OrderIds |-> NoOrder] /\ SeenSet = {} /\ Working = NoOrder
  BY <1>2 DEF LiveMap, SeenSet, Working, Init, Known
<1> QED
  BY <1>4, <1>5 DEF Init, Reference!Init, LiveMap, SeenSet, Working

(* Every step is a step of the reference or leaves it as it is.            *)
LEMMA StepsTheSame ==
  ASSUME IInv, [Next]_vars
  PROVE  [Reference!Next]_Reference!vars
<1>1. ASSUME UNCHANGED <<orders, live_orders, trades, incoming>>
      PROVE  UNCHANGED Reference!vars
  BY <1>1 DEF Reference!vars, LastPriority, Known
<1>2. ASSUME NEW id \in OrderIds, NEW r \in Requests, Accept(id, r)
      PROVE  Reference!Next
  BY <1>2, AcceptsTheSame DEF Reference!Next
<1>3. ASSUME NEW id \in OrderIds, NEW who \in Accounts \cup {None}, Cancel(id, who)
      PROVE  Reference!Next
  BY <1>3, CancelsTheSame DEF Reference!Next
<1>4. ASSUME NEW id \in OrderIds, NEW who \in Accounts \cup {None},
             NEW q \in ModifyQuantities, NEW p \in ModifyPrices,
             ModifyInPlace(id, who, q, p) \/ ModifyAndRequeue(id, who, q, p)
      PROVE  Reference!Next
  BY <1>4, ResizesTheSame, RequeuesTheSame DEF Reference!Next
<1>5. CASE PreventSelfTrade
  BY <1>5, StopsTheSame DEF Reference!Next
<1>6. CASE Trade
  <2>1. PICK p \in Prices : TradePartOfMaker(p) \/ TradeAllOfMaker(p)
    BY <1>6 DEF Trade
  <2>2. Maker(p) \in OrderIds
    BY <2>1, MakerFacts, LiveNow DEF TradePartOfMaker, TradeAllOfMaker, Executes
  <2>3. PICK m \in OrderIds : m = Maker(p)
    BY <2>2
  <2>4. Reference!Trade(m)
    BY <2>1, <2>3, TradesTheSame
  <2> QED
    BY <2>4 DEF Reference!Next
<1>7. CASE CompleteFilled \/ CancelRemainder \/ RestRemainder
  BY <1>7, FinishesTheSame DEF Reference!Next
<1>8. CASE Command
  <2>1. ASSUME NEW id, NEW r, RejectSubmit(id, r) PROVE UNCHANGED Reference!vars
    BY <1>1, <2>1 DEF RejectSubmit
  <2>2. ASSUME NEW id, NEW who, RejectCancel(id, who) PROVE UNCHANGED Reference!vars
    BY <1>1, <2>2 DEF RejectCancel
  <2>3. ASSUME NEW id, NEW who, NEW q, NEW p, RejectModify(id, who, q, p)
        PROVE  UNCHANGED Reference!vars
    BY <1>1, <2>3 DEF RejectModify
  <2> QED
    BY <1>2, <1>3, <1>4, <1>8, <2>1, <2>2, <2>3, RefusalsUnseen DEF Command
<1>9. CASE UNCHANGED vars
  BY <1>1, <1>9 DEF vars
<1> QED
  BY <1>5, <1>6, <1>7, <1>8, <1>9 DEF Next, Match

(* The optimised book implements the reference matcher: same trades in the
   same order, same resting orders, same standing in price-time priority,
   for every command stream (backend/tests/differential/
   test_reference_matcher.py samples it).                                  *)
THEOREM BookImplementsReference == Spec => ImplementsReference
<1>1. Init => Reference!Init
  BY StartsTheSame
<1>2. IInv /\ [Next]_vars => [Reference!Next]_Reference!vars
  BY StepsTheSame
<1> QED
  BY <1>1, <1>2, Invariant, PTL DEF Spec, ImplementsReference, Reference!Spec

-----------------------------------------------------------------------------
(* The linked lists.                                                       *)


(* The links of level l spell the sequence f.                              *)
Spells(l, f) ==
  /\ order_count[l] = Len(f)
  /\ head[l] = IF Len(f) = 0 THEN NoNode ELSE f[1]
  /\ tail[l] = IF Len(f) = 0 THEN NoNode ELSE f[Len(f)]
  /\ \A i \in DOMAIN f :
       /\ level[f[i]] = l
       /\ next[f[i]] = IF i = Len(f) THEN NoNode ELSE f[i + 1]
       /\ previous[f[i]] = IF i = 1 THEN NoNode ELSE f[i - 1]
       /\ \A j \in DOMAIN f : f[i] = f[j] => i = j
  /\ \A n \in Nodes : level[n] = l => \E i \in DOMAIN f : f[i] = n

DetachedIsBare ==
  \A n \in Nodes : level[n] = NoLevel => next[n] = NoNode /\ previous[n] = NoNode

Members(l) == {n \in Nodes : level[n] = l}

(* The quantity a level caches is the sum over the nodes that name it.     *)
TotalsExact == \A l \in PriceLevels : total_quantity[l] = Total(remaining, Members(l))

LevelIInv ==
  /\ LevelTypeOK
  /\ DetachedIsBare
  /\ TotalsExact
  /\ \A l \in PriceLevels : \E f \in Seq(Nodes) : Spells(l, f)

(* The empty levels the index creates spell the empty sequence.            *)
LEMMA LevelInitInv == LevelInit => LevelIInv
<1> SUFFICES ASSUME LevelInit PROVE LevelIInv
  OBVIOUS
<1>1. LevelTypeOK
  BY DEF LevelInit, LevelTypeOK
<1>2. DetachedIsBare
  BY DEF LevelInit, DetachedIsBare
<1>3. TotalsExact
  <2>1. \A l \in PriceLevels : Members(l) = {}
    BY PriceLevelsAssumption DEF LevelInit, Members
  <2> QED
    BY <2>1, TotalEmpty DEF LevelInit, TotalsExact
<1>4. ASSUME NEW l \in PriceLevels PROVE \E f \in Seq(Nodes) : Spells(l, f)
  <2>1. << >> \in Seq(Nodes) /\ Len(<< >>) = 0 /\ DOMAIN << >> = {}
    OBVIOUS
  <2>2. \A n \in Nodes : level[n] # l
    BY PriceLevelsAssumption DEF LevelInit
  <2>3. Spells(l, << >>)
    BY <2>1, <2>2 DEF LevelInit, Spells
  <2> QED
    BY <2>1, <2>3
<1> QED
  BY <1>1, <1>2, <1>3, <1>4 DEF LevelIInv

(* append puts the node behind the tail of its level.                      *)
LEMMA AppendSpells ==
  ASSUME LevelIInv, NEW l \in PriceLevels, NEW n \in Nodes, NEW q \in Quantities,
         AppendNode(l, n, q),
         NEW k \in PriceLevels, NEW f \in Seq(Nodes), Spells(k, f)
  PROVE  /\ k = l => Spells(k, Append(f, n))'
         /\ k # l => Spells(k, f)'
<1>1. Spells(k, f)
  OBVIOUS
<1>2. /\ level[n] = NoLevel
      /\ level' = [level EXCEPT ![n] = l]
      /\ previous' = [previous EXCEPT ![n] = tail[l]]
      /\ next' = [m \in Nodes |-> IF m = n THEN NoNode
                                  ELSE IF m = tail[l] THEN n ELSE next[m]]
      /\ head' = [head EXCEPT ![l] = IF tail[l] = NoNode THEN n ELSE @]
      /\ tail' = [tail EXCEPT ![l] = n]
      /\ order_count' = [order_count EXCEPT ![l] = @ + 1]
  BY DEF AppendNode
<1>3. /\ head \in [PriceLevels -> Nodes \cup {NoNode}]
      /\ tail \in [PriceLevels -> Nodes \cup {NoNode}]
      /\ order_count \in [PriceLevels -> Int]
      /\ next \in [Nodes -> Nodes \cup {NoNode}]
      /\ previous \in [Nodes -> Nodes \cup {NoNode}]
      /\ level \in [Nodes -> PriceLevels \cup {NoLevel}]
  BY DEF LevelIInv, LevelTypeOK
<1>4. /\ Len(f) \in Nat /\ DOMAIN f = 1 .. Len(f)
      /\ \A i \in DOMAIN f : f[i] \in Nodes /\ f[i] # n /\ f[i] # NoNode
  <2>1. \A i \in DOMAIN f : f[i] \in Nodes /\ level[f[i]] = k
    BY <1>1 DEF Spells
  <2> QED
    BY <1>2, <2>1, PriceLevelsAssumption, NodesAssumption
<1>5. CASE k = l
  <2> DEFINE g == Append(f, n)
  <2>1. /\ g \in Seq(Nodes) /\ Len(g) = Len(f) + 1 /\ DOMAIN g = 1 .. Len(f) + 1
        /\ g[Len(f) + 1] = n
        /\ \A i \in 1 .. Len(f) : g[i] = f[i]
    BY <1>4
  <2> HIDE DEF g
  <2>2. order_count'[k] = Len(g) /\ tail'[k] = n /\ tail'[k] = g[Len(g)]
    BY <1>1, <1>2, <1>3, <1>5, <2>1 DEF Spells
  <2>3. head'[k] = g[1]
    <3>1. CASE Len(f) = 0
      BY <1>1, <1>2, <1>3, <1>5, <2>1, <3>1 DEF Spells
    <3>2. CASE Len(f) # 0
      <4>1. 1 \in DOMAIN f /\ Len(f) \in DOMAIN f
        BY <1>4, <3>2
      <4> QED
        BY <1>1, <1>2, <1>3, <1>4, <1>5, <2>1, <3>2, <4>1 DEF Spells
    <3> QED
      BY <3>1, <3>2
  <2>4. ASSUME NEW i \in DOMAIN g
        PROVE  /\ level'[g[i]] = l
               /\ next'[g[i]] = IF i = Len(g) THEN NoNode ELSE g[i + 1]
               /\ previous'[g[i]] = IF i = 1 THEN NoNode ELSE g[i - 1]
               /\ \A j \in DOMAIN g : g[i] = g[j] => i = j
    <3>1. CASE i = Len(f) + 1
      <4>1. g[i] = n /\ level'[n] = l /\ next'[n] = NoNode /\ previous'[n] = tail[l]
        BY <1>2, <1>3, <2>1, <3>1
      <4>2. tail[l] = IF i = 1 THEN NoNode ELSE g[i - 1]
        BY <1>1, <1>4, <1>5, <2>1, <3>1 DEF Spells
      <4>3. \A j \in DOMAIN g : j # i => g[j] # n
        BY <1>4, <2>1, <3>1
      <4> QED
        BY <2>1, <3>1, <4>1, <4>2, <4>3
    <3>2. CASE i \in 1 .. Len(f)
      <4>0. i \in DOMAIN f
        BY <1>4, <3>2
      <4>1. g[i] = f[i] /\ f[i] \in Nodes /\ f[i] # n
        BY <1>4, <2>1, <4>0
      <4>2. level[f[i]] = l /\ previous[f[i]] = (IF i = 1 THEN NoNode ELSE f[i - 1])
            /\ next[f[i]] = (IF i = Len(f) THEN NoNode ELSE f[i + 1])
            /\ \A j \in DOMAIN f : f[i] = f[j] => i = j
        BY <1>1, <1>5, <4>0 DEF Spells
      <4>3. level'[f[i]] = l /\ previous'[f[i]] = previous[f[i]]
        BY <1>2, <1>3, <4>1, <4>2
      <4>4. previous'[g[i]] = IF i = 1 THEN NoNode ELSE g[i - 1]
        BY <1>4, <2>1, <3>2, <4>1, <4>2, <4>3
      <4>5. next'[g[i]] = IF i = Len(g) THEN NoNode ELSE g[i + 1]
        <5>1. CASE i = Len(f)
          <6>1. tail[l] = f[i]
            BY <1>1, <1>5, <3>2, <5>1 DEF Spells
          <6> QED
            BY <1>2, <2>1, <4>1, <5>1, <6>1
        <5>2. CASE i # Len(f)
          <6>1. Len(f) \in DOMAIN f /\ tail[l] = f[Len(f)] /\ tail[l] # f[i]
            BY <1>1, <1>4, <1>5, <4>0, <4>2, <5>2 DEF Spells
          <6>2. next'[f[i]] = f[i + 1]
            BY <1>2, <4>1, <4>2, <5>2, <6>1
          <6>3. i + 1 \in 1 .. Len(f) /\ i # Len(g)
            BY <1>4, <2>1, <3>2, <5>2
          <6> QED
            BY <2>1, <4>1, <6>2, <6>3
        <5> QED
          BY <5>1, <5>2
      <4>6. \A j \in DOMAIN g : g[i] = g[j] => i = j
        BY <1>4, <2>1, <4>1, <4>2
      <4> QED
        BY <4>1, <4>3, <4>4, <4>5, <4>6
    <3> QED
      BY <1>4, <2>1, <3>1, <3>2
  <2>5. ASSUME NEW m \in Nodes, level'[m] = l PROVE \E i \in DOMAIN g : g[i] = m
    <3>1. CASE m = n
      BY <1>4, <2>1, <3>1
    <3>2. CASE m # n
      <4>1. level[m] = l
        BY <1>2, <1>3, <2>5, <3>2
      <4>2. PICK i \in DOMAIN f : f[i] = m
        BY <1>1, <1>5, <4>1 DEF Spells
      <4> QED
        BY <1>4, <2>1, <4>2
    <3> QED
      BY <3>1, <3>2
  <2>6. Len(g) # 0
    BY <1>4, <2>1
  <2>7. Spells(k, g)'
    BY <1>5, <2>2, <2>3, <2>4, <2>5, <2>6 DEF Spells
  <2> QED
    BY <1>5, <2>7 DEF g
<1>6. CASE k # l
  <2>1. tail[l] = NoNode \/ level[tail[l]] = l
    <3>1. PICK e \in Seq(Nodes) : Spells(l, e)
      BY DEF LevelIInv
    <3>2. Len(e) = 0 \/ Len(e) \in DOMAIN e
      OBVIOUS
    <3> QED
      BY <3>1, <3>2 DEF Spells
  <2>2. /\ order_count'[k] = order_count[k] /\ head'[k] = head[k] /\ tail'[k] = tail[k]
    BY <1>2, <1>3, <1>6
  <2>3. \A i \in DOMAIN f : /\ level'[f[i]] = level[f[i]]
                            /\ next'[f[i]] = next[f[i]]
                            /\ previous'[f[i]] = previous[f[i]]
    <3> TAKE i \in DOMAIN f
    <3>1. level[f[i]] = k /\ f[i] \in Nodes /\ f[i] # n /\ f[i] # NoNode
      BY <1>1, <1>4 DEF Spells
    <3>2. f[i] # tail[l]
      BY <1>6, <2>1, <3>1
    <3> QED
      BY <1>2, <1>3, <3>1, <3>2
  <2>4. \A m \in Nodes : level'[m] = k => level[m] = k
    BY <1>2, <1>3, <1>6
  <2>5. Spells(k, f)'
    BY <1>1, <2>2, <2>3, <2>4 DEF Spells
  <2> QED
    BY <1>6, <2>5
<1> QED
  BY <1>5, <1>6

(* remove closes the gap the node leaves at any place of its level.        *)
LEMMA RemoveSpells ==
  ASSUME LevelIInv, NEW l \in PriceLevels, NEW n \in Nodes, RemoveNode(l, n),
         NEW k \in PriceLevels, NEW f \in Seq(Nodes), Spells(k, f)
  PROVE  /\ k = l => \E p \in DOMAIN f : f[p] = n /\ Spells(k, RemoveAt(f, p))'
         /\ k # l => Spells(k, f)'
<1>1. Spells(k, f)
  OBVIOUS
<1>2. /\ level[n] = l
      /\ head' = [head EXCEPT ![l] = IF previous[n] = NoNode THEN next[n] ELSE @]
      /\ tail' = [tail EXCEPT ![l] = IF next[n] = NoNode THEN previous[n] ELSE tail[l]]
      /\ next' = [m \in Nodes |-> IF m = n THEN NoNode
                                  ELSE IF m = previous[n] THEN next[n] ELSE next[m]]
      /\ previous' = [m \in Nodes |-> IF m = n THEN NoNode
                                      ELSE IF m = next[n] THEN previous[n] ELSE previous[m]]
      /\ level' = [level EXCEPT ![n] = NoLevel]
      /\ order_count' = [order_count EXCEPT ![l] = @ - 1]
  BY DEF RemoveNode, TailWithout, NextWithout, PreviousWithout
<1>3. /\ head \in [PriceLevels -> Nodes \cup {NoNode}]
      /\ tail \in [PriceLevels -> Nodes \cup {NoNode}]
      /\ order_count \in [PriceLevels -> Int]
      /\ level \in [Nodes -> PriceLevels \cup {NoLevel}]
  BY DEF LevelIInv, LevelTypeOK
<1>4. Len(f) \in Nat /\ DOMAIN f = 1 .. Len(f) /\ \A i \in DOMAIN f : f[i] \in Nodes
  OBVIOUS
<1>5. CASE k = l
  <2>1. PICK p \in DOMAIN f : f[p] = n
    BY <1>1, <1>2, <1>5 DEF Spells
  <2>2. p \in 1 .. Len(f) /\ p \in Int
    BY <1>4
  <2> DEFINE g == RemoveAt(f, p)
  <2>3. /\ g \in Seq(Nodes) /\ Len(g) = Len(f) - 1
        /\ \A j \in 1 .. Len(f) - 1 : g[j] = IF j < p THEN f[j] ELSE f[j + 1]
    BY RemoveAtFacts
  <2> HIDE DEF g
  <2>4. DOMAIN g = 1 .. Len(f) - 1
    BY <2>3
  <2>5. /\ next[n] = IF p = Len(f) THEN NoNode ELSE f[p + 1]
        /\ previous[n] = IF p = 1 THEN NoNode ELSE f[p - 1]
        /\ head[l] = f[1] /\ tail[l] = f[Len(f)]
    BY <1>1, <1>4, <1>5, <2>1, <2>2 DEF Spells
  <2>6. \A i, j \in 1 .. Len(f) : f[i] = f[j] => i = j
    BY <1>1, <1>4 DEF Spells
  <2>7. order_count'[k] = Len(g)
    BY <1>1, <1>2, <1>3, <1>5, <2>3 DEF Spells
  <2>8. \A i \in 1 .. Len(f) : f[i] \in Nodes /\ f[i] # NoNode
    BY <1>4, NodesAssumption
  <2>9. head'[k] = IF Len(g) = 0 THEN NoNode ELSE g[1]
    <3>1. CASE p = 1
      BY <1>2, <1>3, <1>5, <2>2, <2>3, <2>5, <3>1
    <3>2. CASE p # 1
      <4>1. p - 1 \in 1 .. Len(f) /\ 1 \in 1 .. Len(f) - 1 /\ 1 < p
        BY <2>2, <3>2
      <4>2. Len(g) # 0 /\ g[1] = f[1]
        BY <2>2, <2>3, <4>1
      <4>3. previous[n] # NoNode
        BY <2>5, <2>8, <3>2, <4>1
      <4> QED
        BY <1>2, <1>3, <1>5, <2>5, <4>2, <4>3
    <3> QED
      BY <3>1, <3>2
  <2>10. tail'[k] = IF Len(g) = 0 THEN NoNode ELSE g[Len(g)]
    <3>1. CASE p = Len(f)
      BY <1>2, <1>3, <1>5, <2>2, <2>3, <2>5, <3>1
    <3>2. CASE p # Len(f)
      <4>1. next[n] # NoNode /\ Len(g) # 0 /\ g[Len(g)] = f[Len(f)]
        BY <2>2, <2>3, <2>5, <2>8, <3>2
      <4> QED
        BY <1>2, <1>3, <1>5, <2>5, <4>1
    <3> QED
      BY <3>1, <3>2
  <2>11. ASSUME NEW i \in 1 .. Len(f) - 1
         PROVE  /\ level'[g[i]] = l
                /\ next'[g[i]] = IF i = Len(g) THEN NoNode ELSE g[i + 1]
                /\ previous'[g[i]] = IF i = 1 THEN NoNode ELSE g[i - 1]
                /\ \A j \in 1 .. Len(f) - 1 : g[i] = g[j] => i = j
    <3> DEFINE s == IF i < p THEN i ELSE i + 1
    <3>0. g[i] = f[s]
      BY <2>3, <2>11
    <3>1. s \in 1 .. Len(f) /\ s # p /\ i \in Int
      BY <2>2, <2>11
    <3>2. f[s] # n /\ f[s] \in Nodes /\ level[f[s]] = l
          /\ next[f[s]] = (IF s = Len(f) THEN NoNode ELSE f[s + 1])
          /\ previous[f[s]] = (IF s = 1 THEN NoNode ELSE f[s - 1])
      BY <1>1, <1>4, <1>5, <2>1, <2>2, <2>6, <3>0, <3>1 DEF Spells
    <3>3. level'[g[i]] = l
      BY <1>2, <1>3, <3>0, <3>1, <3>2
    <3>4. next'[g[i]] = IF i = Len(g) THEN NoNode ELSE g[i + 1]
      <4>1. CASE s = p - 1
        <5>1. previous[n] = f[s] /\ next'[f[s]] = next[n]
          BY <1>2, <2>5, <3>0, <3>1, <3>2, <4>1
        <5>2. i + 1 = p
          BY <2>2, <4>1
        <5>3. i = Len(g) <=> p = Len(f)
          <6>1. Len(g) = Len(f) - 1 /\ Len(f) \in Nat
            BY <1>4, <2>3
          <6> QED
            BY <2>2, <5>2, <6>1
        <5>4. p # Len(f) => g[p] = f[p + 1]
          BY <1>4, <2>2, <2>3
        <5>5. next'[g[i]] = next[n]
          BY <3>0, <3>1, <5>1
        <5> QED
          BY <2>5, <5>2, <5>3, <5>4, <5>5
      <4>2. CASE s # p - 1
        <5>1. previous[n] # f[s]
          BY <1>4, <2>2, <2>5, <2>6, <2>8, <3>0, <3>1, <4>2
        <5>2. next'[g[i]] = next[f[s]]
          BY <1>2, <3>0, <3>1, <3>2, <5>1
        <5>3. Len(g) = Len(f) - 1 /\ Len(f) \in Nat
          BY <1>4, <2>3
        <5>4. i = Len(g) <=> s = Len(f)
          BY <2>2, <4>2, <5>3
        <5>5. i # Len(g) => g[i + 1] = f[s + 1]
          BY <2>2, <2>3, <4>2, <5>3
        <5> QED
          BY <3>2, <5>2, <5>4, <5>5
      <4> QED
        BY <4>1, <4>2
    <3>5. previous'[g[i]] = IF i = 1 THEN NoNode ELSE g[i - 1]
      <4>1. CASE s = p + 1
        <5>1. next[n] = f[s] /\ previous'[f[s]] = previous[n]
          BY <1>2, <2>2, <2>5, <3>0, <3>1, <3>2, <4>1
        <5> QED
          BY <1>4, <2>2, <2>3, <2>5, <3>0, <3>1, <4>1, <5>1
      <4>2. CASE s # p + 1
        <5>1. next[n] # f[s]
          BY <1>4, <2>2, <2>5, <2>6, <2>8, <3>0, <3>1, <4>2
        <5>2. previous'[f[s]] = previous[f[s]]
          BY <1>2, <3>2, <5>1
        <5> QED
          BY <1>4, <2>2, <2>3, <3>0, <3>1, <3>2, <4>2, <5>2
      <4> QED
        BY <4>1, <4>2
    <3> HIDE DEF s
    <3>6. ASSUME NEW j \in 1 .. Len(f) - 1, g[i] = g[j] PROVE i = j
      <4> DEFINE t == IF j < p THEN j ELSE j + 1
      <4>1. t \in 1 .. Len(f) /\ g[j] = f[t] /\ j \in Int
        BY <1>4, <2>2, <2>3, <3>6
      <4>2. s = t
        BY <2>6, <3>0, <3>1, <3>6, <4>1
      <4> QED
        BY <2>2, <3>0, <3>1, <4>1, <4>2 DEF s
    <3> QED
      BY <3>3, <3>4, <3>5, <3>6
  <2>12. ASSUME NEW m \in Nodes, level'[m] = l PROVE \E i \in DOMAIN g : g[i] = m
    <3>1. m # n /\ level[m] = l
      BY <1>2, <1>3, <2>12, PriceLevelsAssumption
    <3>2. PICK i \in 1 .. Len(f) : f[i] = m
      BY <1>1, <1>4, <1>5, <3>1 DEF Spells
    <3>3. i # p
      BY <2>1, <3>1, <3>2
    <3>4. CASE i < p
      <4>1. i \in 1 .. Len(f) - 1 /\ g[i] = f[i]
        BY <1>4, <2>2, <2>3, <3>4
      <4> QED
        BY <2>4, <3>2, <4>1
    <3>5. CASE i > p
      <4>1. i - 1 \in 1 .. Len(f) - 1 /\ g[i - 1] = f[i]
        BY <1>4, <2>2, <2>3, <3>5
      <4> QED
        BY <2>4, <3>2, <4>1
    <3> QED
      BY <1>4, <2>2, <3>3, <3>4, <3>5
  <2>13. Spells(k, g)'
    BY <1>5, <2>4, <2>7, <2>9, <2>10, <2>11, <2>12 DEF Spells
  <2> QED
    BY <1>5, <2>1, <2>13 DEF g
<1>6. CASE k # l
  <2>1. \A i \in DOMAIN f : f[i] \in Nodes /\ level[f[i]] = k /\ f[i] # n
    BY <1>1, <1>2, <1>4, <1>6 DEF Spells
  <2>2. \A m \in Nodes \cup {NoNode} : m = next[n] \/ m = previous[n] => m = NoNode \/ level[m] = l
    <3>1. PICK e \in Seq(Nodes) : Spells(l, e)
      BY DEF LevelIInv
    <3>2. PICK p \in DOMAIN e : e[p] = n
      BY <1>2, <3>1 DEF Spells
    <3>3. Len(e) \in Nat /\ DOMAIN e = 1 .. Len(e)
      OBVIOUS
    <3>4. /\ next[n] = IF p = Len(e) THEN NoNode ELSE e[p + 1]
          /\ previous[n] = IF p = 1 THEN NoNode ELSE e[p - 1]
          /\ \A i \in DOMAIN e : level[e[i]] = l
      BY <3>1, <3>2 DEF Spells
    <3>5. /\ p # Len(e) => p + 1 \in DOMAIN e
          /\ p # 1 => p - 1 \in DOMAIN e
      BY <3>2, <3>3
    <3> QED
      BY <3>4, <3>5
  <2>3. order_count'[k] = order_count[k] /\ head'[k] = head[k] /\ tail'[k] = tail[k]
    BY <1>2, <1>3, <1>6
  <2>4. \A i \in DOMAIN f : /\ level'[f[i]] = level[f[i]]
                            /\ next'[f[i]] = next[f[i]]
                            /\ previous'[f[i]] = previous[f[i]]
    <3> TAKE i \in DOMAIN f
    <3>1. f[i] \in Nodes /\ level[f[i]] = k /\ f[i] # n /\ f[i] # NoNode
      BY <2>1, NodesAssumption
    <3>2. f[i] # next[n] /\ f[i] # previous[n]
      BY <1>6, <2>2, <3>1
    <3> QED
      BY <1>2, <1>3, <3>1, <3>2
  <2>5. \A m \in Nodes : level'[m] = k => level[m] = k
    BY <1>2, <1>3, <1>6, PriceLevelsAssumption
  <2>6. Spells(k, f)'
    BY <1>1, <2>3, <2>4, <2>5 DEF Spells
  <2> QED
    BY <1>6, <2>6
<1> QED
  BY <1>5, <1>6

(* consume and a change of quantity leave the links alone.                 *)
LEMMA QuantityStepsSpell ==
  ASSUME UNCHANGED links, NEW k \in PriceLevels, NEW f \in Seq(Nodes), Spells(k, f)
  PROVE  Spells(k, f)'
BY DEF Spells, links

(* Every call keeps the types, and leaves a detached node without links.   *)
LEMMA StepIsTyped ==
  ASSUME LevelIInv, [LevelNext]_levelVars
  PROVE  LevelTypeOK' /\ DetachedIsBare'
<1> USE DEF LevelIInv, LevelTypeOK, DetachedIsBare
<1>1. ASSUME NEW l \in PriceLevels, NEW n \in Nodes, NEW q \in Quantities,
             AppendNode(l, n, q)
      PROVE  LevelTypeOK' /\ DetachedIsBare'
  <2>1. q \in Nat
    BY QuantitiesAssumption
  <2>2. LevelTypeOK'
    BY <1>1, <2>1 DEF AppendNode
  <2>3. ASSUME NEW m \in Nodes, level'[m] = NoLevel
        PROVE  next'[m] = NoNode /\ previous'[m] = NoNode
    <3>1. m # n /\ level[m] = NoLevel
      BY <1>1, <2>3, PriceLevelsAssumption DEF AppendNode
    <3>2. m # tail[l]
      <4>1. PICK f \in Seq(Nodes) : Spells(l, f)
        BY DEF LevelIInv
      <4>2. Len(f) = 0 \/ Len(f) \in DOMAIN f
        OBVIOUS
      <4> QED
        BY <3>1, <4>1, <4>2, NodesAssumption, PriceLevelsAssumption DEF Spells
    <3> QED
      BY <1>1, <3>1, <3>2 DEF AppendNode
  <2> QED
    BY <2>2, <2>3
<1>2. ASSUME NEW l \in PriceLevels, NEW n \in Nodes, RemoveNode(l, n)
      PROVE  LevelTypeOK' /\ DetachedIsBare'
  <2>1. LevelTypeOK'
    BY <1>2 DEF RemoveNode, TailWithout, NextWithout, PreviousWithout
  <2>2. ASSUME NEW m \in Nodes, level'[m] = NoLevel
        PROVE  next'[m] = NoNode /\ previous'[m] = NoNode
    <3>1. PICK f \in Seq(Nodes) : Spells(l, f)
      BY DEF LevelIInv
    <3>2. PICK p \in DOMAIN f : f[p] = n
      BY <1>2, <3>1 DEF RemoveNode, Spells
    <3>3. /\ next[n] = IF p = Len(f) THEN NoNode ELSE f[p + 1]
          /\ previous[n] = IF p = 1 THEN NoNode ELSE f[p - 1]
          /\ \A i \in DOMAIN f : level[f[i]] = l
      BY <3>1, <3>2 DEF Spells
    <3>4. (p # Len(f) => p + 1 \in DOMAIN f) /\ (p # 1 => p - 1 \in DOMAIN f)
      OBVIOUS
    <3>5. CASE m = n
      BY <1>2, <3>5 DEF RemoveNode, NextWithout, PreviousWithout
    <3>6. CASE m # n
      <4>1. level[m] = NoLevel
        BY <1>2, <2>2, <3>6 DEF RemoveNode
      <4>2. m # next[n] /\ m # previous[n]
        BY <3>3, <3>4, <4>1, NodesAssumption, PriceLevelsAssumption
      <4> QED
        BY <1>2, <3>6, <4>1, <4>2 DEF RemoveNode, NextWithout, PreviousWithout
    <3> QED
      BY <3>5, <3>6
  <2> QED
    BY <2>1, <2>2
<1>3. ASSUME NEW l \in PriceLevels, NEW n \in Nodes, NEW q \in Quantities,
             Consume(l, n, q)
      PROVE  LevelTypeOK' /\ DetachedIsBare'
  <2>1. q \in Nat /\ q <= remaining[n]
    BY <1>3, QuantitiesAssumption DEF Consume, Consumable
  <2> QED
    BY <1>3, <2>1 DEF Consume, Consumable, links
<1>4. ASSUME NEW l \in PriceLevels, NEW n \in Nodes, NEW q \in Quantities,
             Resize(l, n, q)
      PROVE  LevelTypeOK' /\ DetachedIsBare'
  <2>1. q \in Nat
    BY QuantitiesAssumption
  <2> QED
    BY <1>4, <2>1 DEF Resize, Difference, links
<1>5. CASE UNCHANGED levelVars
  BY <1>5 DEF levelVars, links
<1> QED
  BY <1>1, <1>2, <1>3, <1>4, <1>5 DEF LevelNext

(* Every call changes the cached quantity by what it does to the sum.      *)
LEMMA TotalsKept ==
  ASSUME LevelIInv, [LevelNext]_levelVars
  PROVE  TotalsExact'
<1>1. /\ total_quantity \in [PriceLevels -> Int]
      /\ level \in [Nodes -> PriceLevels \cup {NoLevel}]
      /\ remaining \in [Nodes -> Nat]
      /\ \A k \in PriceLevels : total_quantity[k] = Total(remaining, Members(k))
  BY DEF LevelIInv, LevelTypeOK, TotalsExact
<1>2. \A k \in PriceLevels : /\ IsFiniteSet(Members(k)) /\ Members(k) \subseteq Nodes
                             /\ Total(remaining, Members(k)) \in Int
  <2>1. ASSUME NEW k \in PriceLevels PROVE IsFiniteSet(Members(k)) /\ Members(k) \subseteq Nodes
    BY NodesAssumption, FS_Subset DEF Members
  <2>2. ASSUME NEW k \in PriceLevels PROVE \A m \in Members(k) : remaining[m] \in Int
    BY <1>1 DEF Members
  <2> QED
    BY <2>1, <2>2, TotalInt
<1>3. ASSUME NEW k \in PriceLevels, UNCHANGED total_quantity[k], Members(k)' = Members(k),
             \A m \in Members(k) : remaining'[m] = remaining[m]
      PROVE  total_quantity'[k] = Total(remaining', Members(k)')
  <2>1. \A m \in Members(k) : remaining[m] \in Int
    BY <1>1 DEF Members
  <2>2. Total(remaining', Members(k)) = Total(remaining, Members(k))
    BY <1>2, <1>3, <2>1, TotalSame
  <2> QED
    BY <1>1, <1>3, <2>2
<1>4. ASSUME NEW l \in PriceLevels, NEW n \in Nodes, NEW q \in Quantities,
             AppendNode(l, n, q), NEW k \in PriceLevels
      PROVE  total_quantity'[k] = Total(remaining', Members(k)')
  <2>1. /\ level[n] = NoLevel /\ level' = [level EXCEPT ![n] = l]
        /\ remaining' = [remaining EXCEPT ![n] = q]
        /\ total_quantity' = [total_quantity EXCEPT ![l] = @ + q]
    BY <1>4 DEF AppendNode
  <2>2. q \in Int
    BY QuantitiesAssumption
  <2>3. \A m \in Members(k) : remaining'[m] = remaining[m] /\ remaining[m] \in Int
    BY <1>1, <2>1, PriceLevelsAssumption DEF Members
  <2>4. CASE k = l
    <3>1. Members(k)' = Members(k) \cup {n} /\ n \notin Members(k)
      BY <1>1, <2>1, <2>4, PriceLevelsAssumption DEF Members
    <3>2. Total(remaining', Members(k) \cup {n}) = q + Total(remaining', Members(k))
      <4>1. remaining'[n] = q /\ \A m \in Members(k) : remaining'[m] \in Int
        BY <1>1, <2>1, <2>3
      <4> QED
        BY <1>2, <2>2, <3>1, <4>1, TotalAdd
    <3>3. Total(remaining', Members(k)) = Total(remaining, Members(k))
      BY <1>2, <2>3, TotalSame
    <3>4. total_quantity'[k] = total_quantity[k] + q
      BY <1>1, <2>1, <2>4
    <3> QED
      BY <1>1, <1>2, <2>2, <3>1, <3>2, <3>3, <3>4
  <2>5. CASE k # l
    <3>1. Members(k)' = Members(k) /\ UNCHANGED total_quantity[k]
      BY <1>1, <2>1, <2>5, PriceLevelsAssumption DEF Members
    <3> QED
      BY <1>3, <2>3, <3>1
  <2> QED
    BY <2>4, <2>5
<1>5. ASSUME NEW l \in PriceLevels, NEW n \in Nodes, RemoveNode(l, n), NEW k \in PriceLevels
      PROVE  total_quantity'[k] = Total(remaining', Members(k)')
  <2>1. /\ level[n] = l /\ level' = [level EXCEPT ![n] = NoLevel]
        /\ remaining' = remaining
        /\ total_quantity' = [total_quantity EXCEPT ![l] = @ - remaining[n]]
    BY <1>5 DEF RemoveNode
  <2>2. CASE k = l
    <3>1. Members(k)' = Members(k) \ {n} /\ n \in Members(k)
      BY <1>1, <2>1, <2>2, PriceLevelsAssumption DEF Members
    <3>2. \A m \in Members(k) : remaining[m] \in Int
      BY <1>1 DEF Members
    <3>3. Total(remaining, Members(k)) = remaining[n] + Total(remaining, Members(k) \ {n})
      BY <1>2, <3>1, <3>2, TotalRemove
    <3>4. Total(remaining, Members(k) \ {n}) \in Int
      BY <1>2, <3>2, FS_RemoveElement, TotalInt
    <3>5. total_quantity'[k] = total_quantity[k] - remaining[n]
      BY <1>1, <2>1, <2>2
    <3> QED
      BY <1>1, <2>1, <3>1, <3>3, <3>4, <3>5
  <2>3. CASE k # l
    <3>1. Members(k)' = Members(k) /\ UNCHANGED total_quantity[k]
      BY <1>1, <2>1, <2>3, PriceLevelsAssumption DEF Members
    <3> QED
      BY <1>3, <2>1, <3>1
  <2> QED
    BY <2>2, <2>3
<1>6. ASSUME NEW l \in PriceLevels, NEW n \in Nodes, NEW r \in Int, level[n] = l,
             UNCHANGED level, remaining' = [remaining EXCEPT ![n] = r],
             total_quantity' = [total_quantity EXCEPT ![l] = @ - remaining[n] + r],
             NEW k \in PriceLevels
      PROVE  total_quantity'[k] = Total(remaining', Members(k)')
  <2>1. Members(k)' = Members(k)
    BY <1>6 DEF Members
  <2>2. \A m \in Members(k) : remaining[m] \in Int
    BY <1>1 DEF Members
  <2>3. CASE k = l
    <3>1. n \in Members(k) /\ remaining'[n] \in Int
          /\ \A m \in Members(k) : m # n => remaining'[m] = remaining[m]
      BY <1>1, <1>6, <2>3 DEF Members
    <3>2. Total(remaining', Members(k)) = Total(remaining, Members(k)) - remaining[n] + remaining'[n]
      <4> DEFINE f == remaining
                 g == remaining'
                 M == Members(k)
      <4>1. /\ IsFiniteSet(M) /\ n \in M /\ g[n] \in Int
            /\ \A m \in M : f[m] \in Int
            /\ \A m \in M : m # n => g[m] = f[m]
        BY <1>2, <2>2, <3>1
      <4> HIDE DEF f, g, M
      <4>2. Total(g, M) = Total(f, M) - f[n] + g[n]
        BY <4>1, TotalChange
      <4> QED
        BY <4>2 DEF f, g, M
    <3>3. total_quantity'[k] = total_quantity[k] - remaining[n] + r /\ remaining'[n] = r
      BY <1>1, <1>6, <2>3
    <3> QED
      BY <1>1, <2>1, <3>2, <3>3
  <2>4. CASE k # l
    <3>1. UNCHANGED total_quantity[k] /\ \A m \in Members(k) : remaining'[m] = remaining[m]
      BY <1>1, <1>6, <2>4 DEF Members
    <3> QED
      BY <1>3, <2>1, <3>1
  <2> QED
    BY <2>3, <2>4
<1>7. ASSUME NEW l \in PriceLevels, NEW n \in Nodes, NEW q \in Quantities,
             Consume(l, n, q) \/ Resize(l, n, q), NEW k \in PriceLevels
      PROVE  total_quantity'[k] = Total(remaining', Members(k)')
  <2>1. q \in Int /\ remaining[n] \in Int /\ total_quantity[l] \in Int
    BY <1>1, QuantitiesAssumption
  <2>2. CASE Consume(l, n, q)
    <3>1. total_quantity[l] - q = total_quantity[l] - remaining[n] + (remaining[n] - q)
          /\ remaining[n] - q \in Int
      BY <2>1
    <3> QED
      BY <1>6, <2>2, <3>1 DEF Consume, Consumable, links
  <2>3. CASE Resize(l, n, q)
    <3>1. total_quantity[l] + (q - remaining[n]) = total_quantity[l] - remaining[n] + q
      BY <2>1
    <3> QED
      BY <1>6, <2>1, <2>3, <3>1 DEF Resize, Difference, links
  <2> QED
    BY <1>7, <2>2, <2>3
<1>8. CASE UNCHANGED levelVars
  BY <1>1, <1>8 DEF levelVars, links, TotalsExact, Members
<1> QED
  BY <1>4, <1>5, <1>7, <1>8 DEF LevelNext, TotalsExact

(* Every call keeps the invariant.                                         *)
LEMMA LevelNextInv == LevelIInv /\ [LevelNext]_levelVars => LevelIInv'
<1> SUFFICES ASSUME LevelIInv, [LevelNext]_levelVars PROVE LevelIInv'
  OBVIOUS
<1>1. LevelTypeOK' /\ DetachedIsBare'
  BY StepIsTyped
<1>2. ASSUME NEW k \in PriceLevels PROVE \E f \in Seq(Nodes) : Spells(k, f)'
  <2> PICK f \in Seq(Nodes) : Spells(k, f)
    BY DEF LevelIInv
  <2>1. CASE UNCHANGED links
    BY <2>1, QuantityStepsSpell
  <2>2. ASSUME NEW l \in PriceLevels, NEW n \in Nodes, RemoveNode(l, n)
        PROVE  \E g \in Seq(Nodes) : Spells(k, g)'
    <3>1. \A p \in DOMAIN f : RemoveAt(f, p) \in Seq(Nodes)
      BY RemoveAtFacts
    <3> QED
      BY <2>2, <3>1, RemoveSpells
  <2>3. ASSUME NEW l \in PriceLevels, NEW n \in Nodes, NEW q \in Quantities,
               AppendNode(l, n, q)
        PROVE  \E g \in Seq(Nodes) : Spells(k, g)'
    <3>1. Append(f, n) \in Seq(Nodes)
      OBVIOUS
    <3> QED
      BY <2>3, <3>1, AppendSpells
  <2> QED
    BY <2>1, <2>2, <2>3 DEF LevelNext, Consume, Resize, levelVars
<1>3. TotalsExact'
  BY TotalsKept
<1>4. (\A k \in PriceLevels : \E f \in Seq(Nodes) : Spells(k, f))'
  BY <1>2
<1> QED
  BY <1>1, <1>3, <1>4 DEF LevelIInv

(* Lists that spell sequences have reciprocal links, and a head and a tail
   exactly when the level counts a node.                                   *)
LEMMA SpelledIsReciprocal == LevelIInv => LinksReciprocal
<1> SUFFICES ASSUME LevelIInv PROVE LinksReciprocal
  OBVIOUS
<1>1. ASSUME NEW n \in Nodes, level[n] # NoLevel
      PROVE  /\ next[n] # NoNode => previous[next[n]] = n /\ level[next[n]] = level[n]
             /\ previous[n] # NoNode => next[previous[n]] = n /\ level[previous[n]] = level[n]
             /\ next[n] = NoNode <=> n = tail[level[n]]
             /\ previous[n] = NoNode <=> n = head[level[n]]
  <2> DEFINE l == level[n]
  <2>1. l \in PriceLevels
    BY <1>1 DEF LevelIInv, LevelTypeOK
  <2>2. PICK f \in Seq(Nodes) : Spells(l, f)
    BY <2>1 DEF LevelIInv
  <2>3. PICK p \in DOMAIN f : f[p] = n
    BY <2>2 DEF Spells
  <2>4. /\ Len(f) \in Nat /\ DOMAIN f = 1 .. Len(f) /\ p \in 1 .. Len(f)
        /\ \A i \in DOMAIN f : f[i] \in Nodes /\ f[i] # NoNode
    BY NodesAssumption
  <2>5. /\ head[l] = f[1] /\ tail[l] = f[Len(f)]
        /\ next[n] = IF p = Len(f) THEN NoNode ELSE f[p + 1]
        /\ previous[n] = IF p = 1 THEN NoNode ELSE f[p - 1]
        /\ \A j \in DOMAIN f : n = f[j] => p = j
    BY <2>2, <2>3, <2>4 DEF Spells
  <2>6. /\ p # Len(f) => /\ p + 1 \in DOMAIN f /\ p + 1 # 1
                         /\ level[f[p + 1]] = l /\ previous[f[p + 1]] = f[(p + 1) - 1]
        /\ p # 1 => /\ p - 1 \in DOMAIN f /\ p - 1 # Len(f)
                    /\ level[f[p - 1]] = l /\ next[f[p - 1]] = f[(p - 1) + 1]
    BY <2>2, <2>4 DEF Spells
  <2>7. (p + 1) - 1 = p /\ (p - 1) + 1 = p /\ 1 \in DOMAIN f /\ Len(f) \in DOMAIN f
    BY <2>4
  <2> QED
    BY <2>3, <2>4, <2>5, <2>6, <2>7
<1>2. ASSUME NEW l \in PriceLevels
      PROVE  /\ head[l] = NoNode <=> order_count[l] = 0
             /\ tail[l] = NoNode <=> order_count[l] = 0
             /\ head[l] # NoNode => level[head[l]] = l /\ level[tail[l]] = l
  <2>1. PICK f \in Seq(Nodes) : Spells(l, f)
    BY DEF LevelIInv
  <2>2. Len(f) = 0 \/ (1 \in DOMAIN f /\ Len(f) \in DOMAIN f)
    OBVIOUS
  <2>3. \A i \in DOMAIN f : f[i] # NoNode
    BY NodesAssumption
  <2> QED
    BY <2>1, <2>2, <2>3 DEF Spells
<1>3. ASSUME NEW n \in Nodes, level[n] = NoLevel
      PROVE  next[n] = NoNode /\ previous[n] = NoNode
  BY <1>3 DEF LevelIInv, DetachedIsBare
<1> QED
  BY <1>1, <1>2, <1>3 DEF LinksReciprocal

(* There are n numbers from 1 to n.                                        *)
LEMMA CountToN ==
  ASSUME NEW n \in Nat
  PROVE  IsFiniteSet(1 .. n) /\ Cardinality(1 .. n) = n
<1>1. \A b \in Int : /\ IsFiniteSet(1 .. b)
                     /\ Cardinality(1 .. b) = IF 1 > b THEN 0 ELSE b - 1 + 1
  BY FS_Interval
<1> QED
  BY <1>1

(* A sequence that a level spells has no node twice, so it is no longer than
   there are nodes.                                                        *)
LEMMA SpelledIsShort ==
  ASSUME NEW l \in PriceLevels, NEW f \in Seq(Nodes), Spells(l, f)
  PROVE  Len(f) \in Nat /\ Len(f) <= Cardinality(Nodes) /\ Cardinality(Nodes) \in Nat
<1>1. IsFiniteSet(1 .. Len(f)) /\ Cardinality(1 .. Len(f)) = Len(f)
  BY CountToN
<1>2. f \in Injection(1 .. Len(f), Nodes)
  BY DEF Spells, Injection, IsInjective
<1>3. Cardinality(1 .. Len(f)) <= Cardinality(Nodes)
  BY <1>2, FS_Injection, NodesAssumption DEF ExistsInjection
<1> QED
  BY <1>1, <1>3, FS_CardinalityType, NodesAssumption

(* __iter__ follows the links along the sequence they spell.               *)
LEMMA WalkIsSpelled ==
  ASSUME NEW l \in PriceLevels, NEW f \in Seq(Nodes), Spells(l, f)
  PROVE  Walk(l) = f
<1> DEFINE N == Cardinality(Nodes)
           D == 1 .. N + 1
           Step(t) == [k \in D |-> IF k = 1 THEN head[l]
                                   ELSE IF t[k - 1] = NoNode THEN NoNode ELSE next[t[k - 1]]]
           w == [k \in D |-> IF k <= Len(f) THEN f[k] ELSE NoNode]
<1>1. Len(f) \in Nat /\ Len(f) <= N /\ N \in Nat
  BY SpelledIsShort
<1>2. /\ head[l] = IF Len(f) = 0 THEN NoNode ELSE f[1]
      /\ \A k \in 1 .. Len(f) : /\ f[k] # NoNode
                                 /\ next[f[k]] = IF k = Len(f) THEN NoNode ELSE f[k + 1]
  BY NodesAssumption DEF Spells
<1> HIDE DEF N
<1>3. Step(w) = w
  <2>1. ASSUME NEW k \in D PROVE Step(w)[k] = w[k]
    <3>1. CASE k = 1
      BY <1>1, <1>2, <3>1
    <3>2. CASE k # 1
      <4>1. k \in Int /\ k - 1 \in D
        BY <1>1, <3>2
      <4>2. w[k - 1] = IF k - 1 <= Len(f) THEN f[k - 1] ELSE NoNode
        BY <4>1
      <4>3. CASE k - 1 <= Len(f)
        <5>1. k - 1 \in 1 .. Len(f) /\ (k - 1) + 1 = k
          BY <1>1, <3>2, <4>1, <4>3
        <5>2. f[k - 1] # NoNode /\ next[f[k - 1]] = IF k - 1 = Len(f) THEN NoNode ELSE f[k]
          BY <1>2, <5>1
        <5>3. k - 1 = Len(f) <=> ~(k <= Len(f))
          BY <1>1, <4>1, <4>3
        <5> QED
          BY <3>2, <4>2, <4>3, <5>2, <5>3
      <4>4. CASE ~(k - 1 <= Len(f))
        <5>1. ~(k <= Len(f))
          BY <1>1, <4>1, <4>4
        <5> QED
          BY <3>2, <4>2, <4>4, <5>1
      <4> QED
        BY <4>3, <4>4
    <3> QED
      BY <3>1, <3>2
  <2>2. Step(w) = [k \in D |-> Step(w)[k]] /\ w = [k \in D |-> w[k]]
    OBVIOUS
  <2> HIDE DEF Step, w
  <2> QED
    BY <2>1, <2>2, Zenon
<1>4. ASSUME NEW t, t = Step(t) PROVE t = w
  <2> DEFINE Bad == {k \in D : t[k] # w[k]}
             R == {e \in D \X D : e[1] < e[2]}
  <2>1. SUFFICES ASSUME Bad # {} PROVE FALSE
    BY <1>4
  <2>2. IsFiniteSet(Bad) /\ Bad \subseteq D
    <3>1. N + 1 \in Nat
      BY <1>1
    <3>2. IsFiniteSet(D)
      BY <3>1, CountToN
    <3>3. Bad \subseteq D
      OBVIOUS
    <3> QED
      BY <3>2, <3>3, FS_Subset
  <2>3. \A x \in D, y \in D : <<x, y>> \in R <=> x < y
    OBVIOUS
  <2> HIDE DEF R, Bad
  <2>4. \A x, y \in Bad : x # y => <<x, y>> \in R \/ <<y, x>> \in R
    BY <1>1, <2>2, <2>3
  <2>5. \A x, y, z \in Bad : <<x, y>> \in R /\ <<y, z>> \in R => <<x, z>> \in R
    BY <1>1, <2>2, <2>3
  <2>6. PICK m \in Bad : \A n \in Bad : n # m => <<m, n>> \in R
    BY <2>1, <2>2, <2>4, <2>5, FirstExists
  <2>7. m \in D /\ m \in Int /\ t[m] # w[m]
    BY <1>1, <2>2 DEF Bad
  <2>8. m # 1 => m - 1 \in D /\ t[m - 1] = w[m - 1]
    <3> SUFFICES ASSUME m # 1 PROVE m - 1 \in D /\ t[m - 1] = w[m - 1]
      OBVIOUS
    <3>1. m - 1 \in D /\ ~(m < m - 1) /\ m - 1 # m
      BY <1>1, <2>7
    <3>2. m - 1 \notin Bad
      BY <2>3, <2>6, <2>7, <3>1
    <3> QED
      BY <3>1, <3>2 DEF Bad
  <2>9. t[m] = Step(t)[m] /\ w[m] = Step(w)[m]
    BY <1>3, <1>4
  <2> HIDE DEF w
  <2>10. Step(t)[m] = Step(w)[m]
    BY <2>7, <2>8
  <2> QED
    BY <2>7, <2>9, <2>10
<1> DEFINE nth == CHOOSE t : t = Step(t)
<1>5. nth = w
  BY <1>3, <1>4
<1> DEFINE met == {k \in D : nth[k] # NoNode}
<1>6. Walk(l) = [k \in 1 .. Cardinality(met) |-> nth[k]]
  BY DEF Walk, N
<1> HIDE DEF nth
<1>7. met = 1 .. Len(f)
  BY <1>1, <1>2, <1>5
<1> HIDE DEF met
<1>8. Cardinality(met) = Len(f)
  BY <1>1, <1>7, CountToN
<1>9. Walk(l) = [k \in 1 .. Len(f) |-> f[k]]
  BY <1>1, <1>5, <1>6, <1>8
<1> QED
  BY <1>9

(* The queue of the abstract level is the one the links spell.             *)
SpelledIsWalked ==
  \A l \in PriceLevels, f \in Seq(Nodes) : Spells(l, f) => Walk(l) = f

(* The sequence a level spells holds its members, each once.               *)
LEMMA WalkIsExact == LevelIInv => AggregatesExact
<1> SUFFICES ASSUME LevelIInv, NEW l \in PriceLevels
             PROVE  /\ ToSet(Walk(l)) = {n \in Nodes : level[n] = l}
                    /\ order_count[l] = Len(Walk(l))
                    /\ total_quantity[l] = MapThenSumSet(LAMBDA n : remaining[n], ToSet(Walk(l)))
  BY DEF AggregatesExact
<1>1. PICK f \in Seq(Nodes) : Spells(l, f)
  BY DEF LevelIInv
<1>2. Walk(l) = f
  BY <1>1, WalkIsSpelled
<1>3. ToSet(f) = Members(l)
  <2>1. \A i \in DOMAIN f : f[i] \in Nodes /\ level[f[i]] = l
    BY <1>1 DEF Spells
  <2>2. \A n \in Nodes : level[n] = l => \E i \in DOMAIN f : f[i] = n
    BY <1>1 DEF Spells
  <2> QED
    BY <2>1, <2>2 DEF Members, ToSet
<1>4. \A S : MapThenSumSet(LAMBDA n : remaining[n], S) = Total([n \in S |-> remaining[n]], S)
  BY DEF MapThenSumSet, MapThenFoldSet, Total, SumOf, SumStep, AnyOf
<1>5. Total([n \in Members(l) |-> remaining[n]], Members(l)) = Total(remaining, Members(l))
  <2> DEFINE M == Members(l)
             v == [n \in M |-> remaining[n]]
  <2>1. IsFiniteSet(M) /\ \A n \in M : remaining[n] \in Int
    BY NodesAssumption, FS_Subset DEF Members, LevelIInv, LevelTypeOK
  <2>2. \A n \in M : v[n] = remaining[n]
    OBVIOUS
  <2> HIDE DEF M, v
  <2>3. Total(v, M) = Total(remaining, M)
    BY <2>1, <2>2, TotalSame
  <2> QED
    BY <2>3 DEF M, v
<1>6. total_quantity[l] = MapThenSumSet(LAMBDA n : remaining[n], Members(l))
  BY <1>4, <1>5 DEF LevelIInv, TotalsExact
<1>7. order_count[l] = Len(f)
  BY <1>1 DEF Spells
<1> QED
  BY <1>2, <1>3, <1>6, <1>7 DEF Members

(* A level the call does not name is the same queue afterwards.            *)
LEMMA OthersKeepTheirQueue ==
  ASSUME LevelIInv, SpelledIsWalked, SpelledIsWalked',
         NEW l \in PriceLevels, NEW k \in PriceLevels, k # l,
         \/ UNCHANGED links
         \/ \E n \in Nodes : \/ RemoveNode(l, n)
                             \/ \E q \in Quantities : AppendNode(l, n, q),
         total_quantity'[k] = total_quantity[k]
  PROVE  AsLevel(k)' = AsLevel(k)
<1>1. PICK f \in Seq(Nodes) : Spells(k, f)
  BY DEF LevelIInv
<1>2. Spells(k, f)'
  BY <1>1, QuantityStepsSpell, RemoveSpells, AppendSpells
<1>3. Walk(k) = f /\ Walk(k)' = f
  BY <1>1, <1>2 DEF SpelledIsWalked
<1>4. order_count[k] = Len(f) /\ order_count'[k] = Len(f)
  BY <1>1, <1>2 DEF Spells
<1> QED
  BY <1>3, <1>4 DEF AsLevel

(* append is the abstract Enqueue, remove the abstract Dequeue, and a change
   of quantity moves the total alone.                                      *)
LEMMA StepIsQueueStep ==
  ASSUME LevelIInv, LevelTypeOK', SpelledIsWalked, SpelledIsWalked', LevelNext
  PROVE  \E l \in PriceLevels :
           LevelStep(l) /\ \A k \in PriceLevels \ {l} : AsLevel(k)' = AsLevel(k)
<1>1. /\ order_count \in [PriceLevels -> Int]
      /\ total_quantity \in [PriceLevels -> Int]
      /\ remaining \in [Nodes -> Nat]
      /\ level \in [Nodes -> PriceLevels \cup {NoLevel}]
  BY DEF LevelIInv, LevelTypeOK
<1>2. ASSUME NEW l \in PriceLevels, NEW n \in Nodes, RemoveNode(l, n)
      PROVE  LevelStep(l) /\ \A k \in PriceLevels \ {l} : AsLevel(k)' = AsLevel(k)
  <2>1. /\ order_count' = [order_count EXCEPT ![l] = @ - 1]
        /\ total_quantity' = [total_quantity EXCEPT ![l] = @ - remaining[n]]
    BY <1>2 DEF RemoveNode
  <2>2. \A k \in PriceLevels \ {l} : AsLevel(k)' = AsLevel(k)
    BY <1>1, <1>2, <2>1, OthersKeepTheirQueue
  <2>3. PICK f \in Seq(Nodes) : Spells(l, f)
    BY DEF LevelIInv
  <2>4. PICK p \in DOMAIN f : f[p] = n /\ Spells(l, RemoveAt(f, p))'
    BY <1>2, <2>3, RemoveSpells
  <2>5. RemoveAt(f, p) \in Seq(Nodes)
    BY RemoveAtFacts
  <2>6. Walk(l) = f /\ Walk(l)' = RemoveAt(f, p)
    BY <2>3, <2>4, <2>5 DEF SpelledIsWalked
  <2>7. AsLevel(l)' = Dequeue(AsLevel(l), p, remaining[Walk(l)[p]])
    BY <1>1, <2>1, <2>4, <2>6 DEF AsLevel, Dequeue
  <2> QED
    BY <2>2, <2>6, <2>7 DEF LevelStep
<1>3. ASSUME NEW l \in PriceLevels, NEW n \in Nodes, NEW q \in Quantities,
             AppendNode(l, n, q)
      PROVE  LevelStep(l) /\ \A k \in PriceLevels \ {l} : AsLevel(k)' = AsLevel(k)
  <2>1. /\ order_count' = [order_count EXCEPT ![l] = @ + 1]
        /\ total_quantity' = [total_quantity EXCEPT ![l] = @ + q]
        /\ remaining' = [remaining EXCEPT ![n] = q]
    BY <1>3 DEF AppendNode
  <2>2. \A k \in PriceLevels \ {l} : AsLevel(k)' = AsLevel(k)
    BY <1>1, <1>3, <2>1, OthersKeepTheirQueue
  <2>3. PICK f \in Seq(Nodes) : Spells(l, f)
    BY DEF LevelIInv
  <2>4. Spells(l, Append(f, n))'
    BY <1>3, <2>3, AppendSpells
  <2>5. Append(f, n) \in Seq(Nodes)
    OBVIOUS
  <2>6. Walk(l) = f /\ Walk(l)' = Append(f, n)
    BY <2>3, <2>4, <2>5 DEF SpelledIsWalked
  <2>7. AsLevel(l)' = Enqueue(AsLevel(l), n, remaining'[n])
    BY <1>1, <2>1, <2>6 DEF AsLevel, Enqueue
  <2> QED
    BY <2>2, <2>7 DEF LevelStep
<1>4. ASSUME NEW l \in PriceLevels, NEW n \in Nodes, NEW q \in Quantities,
             Consume(l, n, q) \/ Resize(l, n, q)
      PROVE  LevelStep(l) /\ \A k \in PriceLevels \ {l} : AsLevel(k)' = AsLevel(k)
  <2>1. /\ level[n] = l /\ UNCHANGED links
        /\ \A k \in PriceLevels \ {l} : total_quantity'[k] = total_quantity[k]
    <3>1. CASE Consume(l, n, q)
      BY <1>1, <3>1 DEF Consume, Consumable
    <3>2. CASE Resize(l, n, q)
      BY <1>1, <3>2 DEF Resize
    <3> QED
      BY <1>4, <3>1, <3>2
  <2>2. \A k \in PriceLevels \ {l} : AsLevel(k)' = AsLevel(k)
    BY <2>1, OthersKeepTheirQueue
  <2>3. remaining'[n] = remaining[n] => total_quantity'[l] = total_quantity[l]
    <3>1. q \in Int /\ q > 0 /\ remaining[n] \in Int /\ total_quantity[l] \in Int
      BY <1>1, QuantitiesAssumption
    <3> QED
      BY <1>1, <1>4, <3>1 DEF Consume, Resize, Difference
  <2>4. Walk(l)' = Walk(l) /\ order_count'[l] = order_count[l]
    <3>1. PICK f \in Seq(Nodes) : Spells(l, f)
      BY DEF LevelIInv
    <3>2. Spells(l, f)'
      BY <2>1, <3>1, QuantityStepsSpell
    <3> QED
      BY <2>1, <3>1, <3>2 DEF SpelledIsWalked, links
  <2>5. AsLevel(l)' = [AsLevel(l) EXCEPT !.total = total_quantity'[l]]
    BY <2>4 DEF AsLevel
  <2>6. remaining'[n] = remaining[n] => AsLevel(l)' = AsLevel(l)
    BY <2>3, <2>4 DEF AsLevel
  <2> QED
    BY <2>1, <2>2, <2>5, <2>6 DEF LevelStep
<1> QED
  BY <1>2, <1>3, <1>4 DEF LevelNext

(* The lists are well formed after every call.                             *)
THEOREM LevelInvariant == LevelSpec => []LevelIInv
<1> QED
  BY LevelInitInv, LevelNextInv, PTL DEF LevelSpec

(* price_level.py keeps its links and counts within their types.           *)
THEOREM LevelTypeCorrect == LevelSpec => []LevelTypeOK
<1>1. LevelIInv => LevelTypeOK
  BY DEF LevelIInv
<1> QED
  BY <1>1, LevelInvariant, PTL

(* The links of price_level.py are reciprocal, for any number of nodes and
   levels and any sequence of calls.                                       *)
THEOREM LinksAreReciprocal == LevelSpec => []LinksReciprocal
<1> QED
  BY SpelledIsReciprocal, LevelInvariant, PTL

(* What __iter__ yields is every node of the level, in the number order_count
   says, and total_quantity is the sum of what is left of their orders.    *)
THEOREM AggregatesAreExact == LevelSpec => []AggregatesExact
<1> QED
  BY WalkIsExact, LevelInvariant, PTL

(* Every call of price_level.py does to the list, to its total and to its
   count what the queue of module Levels promises the book, and leaves every
   other level alone.                                                      *)
THEOREM ListsImplementQueues == LevelSpec => ImplementsLevels
<1>1. SpelledIsWalked
  BY WalkIsSpelled DEF SpelledIsWalked
<1>2. LevelIInv /\ LevelIInv' /\ SpelledIsWalked /\ SpelledIsWalked' /\ [LevelNext]_levelVars =>
        [\E l \in PriceLevels :
           LevelStep(l) /\ \A k \in PriceLevels \ {l} : AsLevel(k)' = AsLevel(k)]_levelVars
  BY StepIsQueueStep DEF LevelIInv
<1> QED
  BY <1>1, <1>2, LevelInvariant, PTL DEF LevelSpec, ImplementsLevels
=============================================================================
