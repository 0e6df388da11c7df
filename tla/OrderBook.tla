----------------------------- MODULE OrderBook ------------------------------
(***************************************************************************)
(* backend/limitx/engine/order_book.py: the price-time-priority book of    *)
(* one symbol.  A command that matches is not one step here: each turn of  *)
(* the loop of _execute_accepted is an action, with `incoming` the order   *)
(* the loop works for, so the invariants are checked between any two       *)
(* trades of a sweep and not only between commands.  While a command is in *)
(* progress no other one starts: a book has a single caller.               *)
(*                                                                         *)
(* A price level is a queue of module Levels; the linked list below it is  *)
(* the subject of module PriceLevel.  Of the event stream only its         *)
(* numbering is kept: `sequence` advances by the number of events a step   *)
(* emits.                                                                  *)
(***************************************************************************)
EXTENDS Domain, Levels, FiniteSetsExt

CONSTANTS
  OrderIds,           \* the order ids clients may use
  Accounts,           \* the trading accounts
  Prices,             \* the valid prices, in ticks
  StpPolicy,          \* the self-trade policy of the book
  Requests,           \* the order contents clients may submit
  RiskRequests,       \* those a risk gateway may refuse before the matcher
  ModifyQuantities,   \* the new quantities a modification may ask for
  ModifyPrices,       \* the new prices it may ask for
  NoOrder,            \* "this id was never recorded"
  None,               \* no order is being executed; a command names no account
  MaxSequence         \* bound: no command starts once this many events exist

Request ==
  [account : Accounts, side : Side, type : OrderType, tif : TimeInForce,
   price : Prices \cup {NoPrice}, quantity : Nat]

Order ==
  [account : Accounts, side : Side, type : OrderType, tif : TimeInForce,
   price : Prices \cup {NoPrice}, quantity : Nat,
   remaining : Nat, filled : Nat, status : OrderStatus, priority : Nat]

ASSUME FiniteAssumption == IsFiniteSet(OrderIds)
ASSUME PricesAssumption == Prices \subseteq Nat \ {0}
ASSUME PolicyAssumption == StpPolicy \in SelfTradePolicy
ASSUME RequestsAssumption == Requests \subseteq Request /\ RiskRequests \subseteq Request
ASSUME ModifyAssumption ==
  ModifyQuantities \subseteq Nat /\ ModifyPrices \subseteq Prices \cup {NoPrice}
ASSUME SentinelsAssumption ==
  NoOrder \notin Order /\ None \notin OrderIds /\ None \notin Accounts

VARIABLES
  orders,             \* every order the book has recorded, live or done
  live_orders,        \* the ids of the resting orders
  live_order_counts,  \* how many each account has resting, as cached
  book,               \* the price level of each side and price
  index,              \* the prices of each side that have a level
  sequence,           \* the number of the last event
  trades,             \* every trade, oldest first
  incoming            \* the order _execute_accepted works for, or None

vars == <<orders, live_orders, live_order_counts, book, index, sequence,
          trades, incoming>>

-----------------------------------------------------------------------------
(* The price index.                                                        *)

BestPrice(side, p) ==
  p \in index[side] /\ \A q \in index[side] : q = p \/ Better(side, p, q)

(* Mutant: an equal price does not cross.                                  *)
CrossesBookStrictly(order) ==
  \E p \in index[Opposite(order.side)] : Crosses(order, p) /\ p # order.price

(* _crosses against the best opposing price: the best price is the one     *)
(* that crosses first, so it crosses iff some indexed price does.          *)
CrossesBook(order) ==
  \E p \in index[Opposite(order.side)] : Crosses(order, p)

(* The live orders of a side in the order a sweep meets them, as places.   *)
Places(side) ==
  UNION {{p} \X DOMAIN book[side][p].fifo : p \in index[side]}

Occupant(side, place) == orders[book[side][place[1]].fifo[place[2]]]

NoLater(side, a, b) ==
  Better(side, a[1], b[1]) \/ (a[1] = b[1] /\ a[2] <= b[2])

(* Mutant: a fill-or-kill order counts what lies behind its own order.     *)
AvailableIgnoringOwn(order) ==
  LET side == Opposite(order.side)
  IN MapThenSumSet(LAMBDA a : Occupant(side, a).remaining,
                   {a \in Places(side) : Crosses(order, a[1])})

AvailableLiquidity(order) ==
  LET side == Opposite(order.side)
      Own(a) == /\ StpPolicy = "CANCEL_TAKER"
                /\ Occupant(side, a).account = order.account
      crossing == {a \in Places(side) : Crosses(order, a[1])}
      reached == {a \in crossing :
                    \A b \in crossing : NoLater(side, b, a) => ~Own(b)}
  IN MapThenSumSet(LAMBDA a : Occupant(side, a).remaining, reached)

-----------------------------------------------------------------------------
(* Submission.                                                             *)

Known(id) == orders[id] # NoOrder

(* Mutant: the id of an order that is done may be used again.              *)
InvalidIfLive(id, r) ==
  \/ id \in live_orders
  \/ r.quantity <= 0
  \/ r.type = "LIMIT" /\ r.price = NoPrice
  \/ r.type = "MARKET" /\ r.tif \notin {"IOC", "FOK"}

Invalid(id, r) ==
  \/ Known(id)
  \/ r.quantity <= 0
  \/ r.type = "LIMIT" /\ r.price = NoPrice
  \/ r.type = "MARKET" /\ r.tif \notin {"IOC", "FOK"}

Refused(id, r) ==
  \/ Invalid(id, r)
  \/ r.tif = "POST_ONLY" /\ CrossesBook(r)
  \/ r.tif = "FOK" /\ AvailableLiquidity(r) < r.quantity

NewOrder(r, status, n) ==
  [account |-> r.account, side |-> r.side, type |-> r.type, tif |-> r.tif,
   price |-> r.price, quantity |-> r.quantity, remaining |-> r.quantity,
   filled |-> 0, status |-> status, priority |-> n]

CanStart == incoming = None /\ sequence < MaxSequence

(* A refused submission leaves one event and no order: the id stays free.  *)
RejectSubmit(id, r) ==
  /\ CanStart
  /\ Refused(id, r)
  /\ sequence' = sequence + 1
  /\ UNCHANGED <<orders, live_orders, live_order_counts, book, index, trades,
                 incoming>>

Accept(id, r) ==
  /\ CanStart
  /\ ~Refused(id, r)
  /\ orders' = [orders EXCEPT ![id] = NewOrder(r, "ACCEPTED", sequence + 1)]
  /\ incoming' = id
  /\ sequence' = sequence + 1
  /\ UNCHANGED <<live_orders, live_order_counts, book, index, trades>>

(* A refusal by the risk gateway records the order: the id is used up.     *)
RejectByRisk(id, r) ==
  /\ CanStart
  /\ orders' = IF Known(id) THEN orders
               ELSE [orders EXCEPT ![id] = NewOrder(r, "REJECTED", 0)]
  /\ sequence' = sequence + 1
  /\ UNCHANGED <<live_orders, live_order_counts, book, index, trades, incoming>>

-----------------------------------------------------------------------------
(* Leaving and joining the book.                                           *)

(* Mutant: the count of an account never goes down.                        *)
NotDecremented(counts, account) == counts

Decremented(counts, account) ==
  [counts EXCEPT ![account] = IF @ > 1 THEN @ - 1 ELSE 0]

LevelOf(o) == book[o.side][o.price]

(* The order at place i of its level leaves the book.                      *)
Unlink(id, i) ==
  LET o == orders[id]
      level == Dequeue(LevelOf(o), i, o.remaining)
  IN /\ LevelOf(o).fifo[i] = id
     /\ book' = [book EXCEPT ![o.side][o.price] = level]
     /\ index' = [index EXCEPT ![o.side] =
                    IF level.count = 0 THEN @ \ {o.price} ELSE @]
     /\ live_orders' = live_orders \ {id}
     /\ live_order_counts' = Decremented(live_order_counts, o.account)

(* get_or_create and append.                                               *)
Rest(id) ==
  LET o == orders[id]
      level == IF o.price \in index[o.side] THEN book[o.side][o.price]
               ELSE EmptyLevel
  IN /\ book' = [book EXCEPT ![o.side][o.price] = Enqueue(level, id, o.remaining)]
     /\ index' = [index EXCEPT ![o.side] = @ \cup {o.price}]
     /\ live_orders' = live_orders \cup {id}
     /\ live_order_counts' = [live_order_counts EXCEPT ![o.account] = @ + 1]

-----------------------------------------------------------------------------
(* The matching loop.                                                      *)

Opposing == Opposite(orders[incoming].side)

Executing == incoming # None /\ orders[incoming].remaining > 0

(* The loop is about to meet the first order of the best level, at p.      *)
Meets(p) ==
  /\ Executing
  /\ BestPrice(Opposing, p)
  /\ Crosses(orders[incoming], p)

Maker(p) == Head(book[Opposing][p].fifo)

OwnMaker(p) ==
  /\ StpPolicy = "CANCEL_TAKER"
  /\ orders[Maker(p)].account = orders[incoming].account

PreventSelfTrade ==
  /\ \E p \in Prices : Meets(p) /\ OwnMaker(p)
  /\ orders' = [orders EXCEPT ![incoming].status = "CANCELLED"]
  /\ incoming' = None
  /\ sequence' = sequence + 2
  /\ UNCHANGED <<live_orders, live_order_counts, book, index, trades>>

TradeQuantity(p) == Smaller(orders[incoming].remaining, orders[Maker(p)].remaining)

(* Mutant: an order that is used up stays partially filled.                *)
FilledInPart(o, quantity) ==
  [o EXCEPT !.remaining = @ - quantity, !.filled = @ + quantity,
            !.status = "PARTIALLY_FILLED"]

Filled(o, quantity) ==
  [o EXCEPT !.remaining = @ - quantity, !.filled = @ + quantity,
            !.status = IF o.remaining = quantity THEN "FILLED"
                       ELSE "PARTIALLY_FILLED"]

Executes(p) ==
  /\ Meets(p) /\ ~OwnMaker(p)
  /\ orders' = [orders EXCEPT ![Maker(p)] = Filled(@, TradeQuantity(p)),
                              ![incoming] = Filled(@, TradeQuantity(p))]
  /\ trades' = Append(trades, [maker |-> Maker(p), taker |-> incoming,
                               price |-> p, quantity |-> TradeQuantity(p)])
  /\ sequence' = sequence + 3
  /\ UNCHANGED incoming

(* The maker keeps its place with what is left of it.                      *)
TradePartOfMaker(p) ==
  /\ Executes(p)
  /\ orders[Maker(p)].remaining > TradeQuantity(p)
  /\ book' = [book EXCEPT ![Opposing][p].total = @ - TradeQuantity(p)]
  /\ UNCHANGED <<live_orders, live_order_counts, index>>

(* consume, then remove, and the level goes with its last order.           *)
TradeAllOfMaker(p) ==
  /\ Executes(p)
  /\ orders[Maker(p)].remaining = TradeQuantity(p)
  /\ Unlink(Maker(p), 1)

Trade == \E p \in Prices : TradePartOfMaker(p) \/ TradeAllOfMaker(p)

NeverRests(o) == o.type = "MARKET" \/ o.tif \in {"IOC", "FOK"}

CompleteFilled ==
  /\ incoming # None
  /\ orders[incoming].remaining = 0
  /\ incoming' = None
  /\ sequence' = sequence + 1
  /\ UNCHANGED <<orders, live_orders, live_order_counts, book, index, trades>>

(* Mutant: only market orders have their remainder cancelled.              *)
CancelMarketRemainder ==
  /\ Executing /\ ~CrossesBook(orders[incoming])
  /\ orders[incoming].type = "MARKET"
  /\ orders' = [orders EXCEPT ![incoming].status = "CANCELLED"]
  /\ incoming' = None
  /\ sequence' = sequence + 2
  /\ UNCHANGED <<live_orders, live_order_counts, book, index, trades>>

CancelRemainder ==
  /\ Executing /\ ~CrossesBook(orders[incoming])
  /\ NeverRests(orders[incoming])
  /\ orders' = [orders EXCEPT ![incoming].status = "CANCELLED"]
  /\ incoming' = None
  /\ sequence' = sequence + 2
  /\ UNCHANGED <<live_orders, live_order_counts, book, index, trades>>

RestRemainder ==
  /\ Executing /\ ~CrossesBook(orders[incoming])
  /\ ~NeverRests(orders[incoming])
  /\ Rest(incoming)
  /\ incoming' = None
  /\ sequence' = sequence + 1
  /\ UNCHANGED <<orders, trades>>

Match == PreventSelfTrade \/ Trade \/ CompleteFilled \/ CancelRemainder \/ RestRemainder

-----------------------------------------------------------------------------
(* Cancellation and modification.  `who` is the account the command names, *)
(* None when it names none.                                                *)

MayTouch(id, who) == id \in live_orders /\ who \in {None, orders[id].account}

Cancel(id, who) ==
  /\ CanStart
  /\ MayTouch(id, who)
  /\ \E i \in DOMAIN LevelOf(orders[id]).fifo : Unlink(id, i)
  /\ orders' = [orders EXCEPT ![id].status = "CANCELLED"]
  /\ sequence' = sequence + 2
  /\ UNCHANGED <<trades, incoming>>

RejectCancel(id, who) ==
  /\ CanStart
  /\ ~MayTouch(id, who)
  /\ sequence' = sequence + 1
  /\ UNCHANGED <<orders, live_orders, live_order_counts, book, index, trades,
                 incoming>>

(* Mutant: a post-only order may be moved into a trade.                    *)
ModifiableAnywhere(id, who, quantity, price) ==
  MayTouch(id, who) /\ price # NoPrice /\ quantity > orders[id].filled

(* Mutant: a new price that is no price is taken.                          *)
ModifiableToNoPrice(id, who, quantity, price) ==
  /\ MayTouch(id, who)
  /\ quantity > orders[id].filled
  /\ ~(/\ orders[id].tif = "POST_ONLY"
       /\ CrossesBook([orders[id] EXCEPT !.price = price]))

Modifiable(id, who, quantity, price) ==
  /\ MayTouch(id, who)
  /\ price # NoPrice
  /\ quantity > orders[id].filled
  /\ ~(/\ orders[id].tif = "POST_ONLY"
       /\ CrossesBook([orders[id] EXCEPT !.price = price]))

RejectModify(id, who, quantity, price) ==
  /\ CanStart
  /\ ~Modifiable(id, who, quantity, price)
  /\ sequence' = sequence + 1
  /\ UNCHANGED <<orders, live_orders, live_order_counts, book, index, trades,
                 incoming>>

(* Mutant: a larger quantity keeps its place.                              *)
LosesPriorityByPrice(o, quantity, price) == price # o.price

LosesPriority(o, quantity, price) == price # o.price \/ quantity > o.quantity

(* Mutant: what is already filled is forgotten.                            *)
ResizedAfresh(o, quantity) ==
  [o EXCEPT !.quantity = quantity, !.remaining = quantity]

Resized(o, quantity) ==
  [o EXCEPT !.quantity = quantity, !.remaining = quantity - o.filled]

(* A smaller quantity at the same price keeps the order's place.           *)
ModifyInPlace(id, who, quantity, price) ==
  LET o == orders[id]
  IN /\ CanStart
     /\ Modifiable(id, who, quantity, price)
     /\ ~LosesPriority(o, quantity, price)
     /\ orders' = [orders EXCEPT ![id] = Resized(o, quantity)]
     /\ book' = [book EXCEPT ![o.side][o.price].total =
                   @ + Resized(o, quantity).remaining - o.remaining]
     /\ sequence' = sequence + 2
     /\ UNCHANGED <<live_orders, live_order_counts, index, trades, incoming>>

(* Mutant: the order keeps its old priority at the back of its new queue.  *)
RequeuedAsOfOld(o, quantity, price, n) ==
  [Resized(o, quantity) EXCEPT
     !.price = price,
     !.status = IF o.filled > 0 THEN "PARTIALLY_FILLED" ELSE "ACCEPTED"]

Requeued(o, quantity, price, n) ==
  [Resized(o, quantity) EXCEPT
     !.price = price, !.priority = n,
     !.status = IF o.filled > 0 THEN "PARTIALLY_FILLED" ELSE "ACCEPTED"]

(* Anything else leaves the book and is executed like a new order.         *)
ModifyAndRequeue(id, who, quantity, price) ==
  LET o == orders[id]
  IN /\ CanStart
     /\ Modifiable(id, who, quantity, price)
     /\ LosesPriority(o, quantity, price)
     /\ \E i \in DOMAIN LevelOf(orders[id]).fifo : Unlink(id, i)
     /\ orders' = [orders EXCEPT ![id] = Requeued(o, quantity, price, sequence + 1)]
     /\ incoming' = id
     /\ sequence' = sequence + 1
     /\ UNCHANGED trades

-----------------------------------------------------------------------------
Init ==
  /\ orders = [id \in OrderIds |-> NoOrder]
  /\ live_orders = {}
  /\ live_order_counts = [a \in Accounts |-> 0]
  /\ book = [s \in Side |-> [p \in Prices |-> EmptyLevel]]
  /\ index = [s \in Side |-> {}]
  /\ sequence = 0
  /\ trades = << >>
  /\ incoming = None

Command ==
  \E id \in OrderIds :
    \/ \E r \in Requests : Accept(id, r) \/ RejectSubmit(id, r)
    \/ \E r \in RiskRequests : RejectByRisk(id, r)
    \/ \E who \in Accounts \cup {None} : Cancel(id, who) \/ RejectCancel(id, who)
    \/ \E who \in Accounts \cup {None}, q \in ModifyQuantities, p \in ModifyPrices :
         \/ ModifyInPlace(id, who, q, p)
         \/ ModifyAndRequeue(id, who, q, p)
         \/ RejectModify(id, who, q, p)

Next == Command \/ Match

Spec == Init /\ [][Next]_vars

-----------------------------------------------------------------------------
(* What must hold.                                                         *)

Fifo(s, p) == book[s][p].fifo

TypeOK ==
  /\ orders \in [OrderIds -> Order \cup {NoOrder}]
  /\ live_orders \in SUBSET OrderIds
  /\ live_order_counts \in [Accounts -> Nat]
  /\ book \in [Side -> [Prices -> [fifo : Seq(OrderIds), total : Int, count : Int]]]
  /\ index \in [Side -> SUBSET Prices]
  /\ sequence \in Nat
  /\ trades \in Seq([maker : OrderIds, taker : OrderIds, price : Prices,
                     quantity : Nat])
  /\ incoming \in OrderIds \cup {None}

(* An order rests exactly where its side and price say, once, and a level
   is in the index exactly while it holds an order.                        *)
QueuedOrdersAreLive ==
  \A s \in Side, p \in Prices : \A i \in DOMAIN Fifo(s, p) :
    /\ Fifo(s, p)[i] \in live_orders
    /\ orders[Fifo(s, p)[i]].side = s
    /\ orders[Fifo(s, p)[i]].price = p

LiveOrdersAreQueued ==
  \A id \in live_orders :
    /\ Known(id)
    /\ orders[id].price \in Prices
    /\ \E i \in DOMAIN LevelOf(orders[id]).fifo : LevelOf(orders[id]).fifo[i] = id

LevelsAreIndexed ==
  \A s \in Side, p \in Prices :
    /\ p \in index[s] <=> Fifo(s, p) # << >>
    /\ book[s][p].count = Len(Fifo(s, p))

(* Within a level the orders stand by increasing priority, in every state:
   a modified order that kept its place did so by right, one that lost it
   went to the back.                                                       *)
FifoByPriority ==
  \A s \in Side, p \in Prices : \A i, j \in DOMAIN Fifo(s, p) :
    i < j => orders[Fifo(s, p)[i]].priority < orders[Fifo(s, p)[j]].priority

(* The map of live orders, the levels, the price index and the queue order
   tell one story after every step, inside a sweep too (assert_invariants
   looks only between commands, and only in audit mode).                   *)
BookConsistent ==
  /\ QueuedOrdersAreLive
  /\ LiveOrdersAreQueued
  /\ LevelsAreIndexed
  /\ FifoByPriority

LevelTotalsExact ==
  \A s \in Side, p \in Prices :
    book[s][p].total =
      MapThenSumSet(LAMBDA i : orders[Fifo(s, p)[i]].remaining, DOMAIN Fifo(s, p))

LiveCountsExact ==
  \A a \in Accounts :
    live_order_counts[a] = Cardinality({id \in live_orders : orders[id].account = a})

(* The resting book is never crossed, even between two trades of a sweep.  *)
Uncrossed ==
  \A p \in index["BUY"], q \in index["SELL"] : p < q

(* An order is in the book, being executed, or done - and what is in the
   book could still trade.  No order is lost on the way (a requeue takes it
   out of the book before it is matched again).                            *)
NoOrderLost ==
  \A id \in OrderIds : Known(id) =>
    /\ id \in live_orders =>
         /\ id # incoming
         /\ orders[id].remaining > 0
         /\ ~NeverRests(orders[id])
    /\ orders[id].status \notin Terminal <=>
         \/ id \in live_orders
         \/ id = incoming /\ orders[id].remaining > 0

(* Quantity is conserved: what an order has filled is what the trade log
   says it traded as maker or taker, and the rest is still to do.  And the
   numbers the book caches follow: the quantity of a level, which depth()
   publishes, is that of its orders after every partial fill, removal and
   resize, and the count of an account, which the risk check reads, is the
   number of orders it has resting, whichever of the four ways one leaves.  *)
QuantitiesAddUp ==
  /\ \A id \in OrderIds : Known(id) =>
       /\ orders[id].filled + orders[id].remaining = orders[id].quantity
       /\ orders[id].filled =
            MapThenSumSet(LAMBDA k : trades[k].quantity,
                          {k \in DOMAIN trades : id \in {trades[k].maker, trades[k].taker}})
  /\ LevelTotalsExact
  /\ LiveCountsExact

(* A fill-or-kill order that was accepted is filled to the last lot when
   its command ends: the liquidity count made before acceptance and the
   sweep made after it agree, self-trade prevention included.              *)
FillOrKillAllOrNothing ==
  incoming = None =>
    \A id \in OrderIds :
      Known(id) /\ orders[id].tif = "FOK" /\ orders[id].status # "REJECTED" =>
        orders[id].status = "FILLED"

(* A post-only order never takes, whatever modifications move its price.   *)
PostOnlyNeverTakes ==
  \A k \in DOMAIN trades : orders[trades[k].taker].tif # "POST_ONLY"

(* m is the resting order that price-time priority puts first.             *)
FirstInPriority(m) ==
  \A n \in live_orders \ {m} :
    orders[n].side = orders[m].side =>
      \/ Better(orders[m].side, orders[m].price, orders[n].price)
      \/ orders[m].price = orders[n].price /\ orders[m].priority < orders[n].priority

(* Every trade is with the order price-time priority puts first, at that
   order's price, within the taker's own limit, for a positive quantity that
   neither side exceeds.                                                   *)
PriceTimePriority ==
  [][Len(trades') > Len(trades) =>
       LET t == trades'[Len(trades')]
       IN /\ Len(trades') = Len(trades) + 1
          /\ t.maker \in live_orders /\ FirstInPriority(t.maker)
          /\ t.price = orders[t.maker].price
          /\ orders[t.taker].side # orders[t.maker].side
          /\ Crosses(orders[t.taker], t.price)
          /\ t.quantity > 0
          /\ t.quantity <= orders[t.maker].remaining
          /\ t.quantity <= orders[t.taker].remaining]_vars

(* An order that is done stays as it is: no late cancel, modification, fill
   or reuse of its id changes it or brings it back.                        *)
TerminalIsFinal ==
  [][\A id \in OrderIds :
       Known(id) /\ orders[id].status \in Terminal /\ id # incoming =>
         orders'[id] = orders[id] /\ id \notin live_orders']_vars

(* What a turn of the loop has to take from.                               *)
Left == Cardinality(live_orders) + orders[incoming].remaining

(* Every command comes to its end and gives the event loop its only thread
   back: until it does one of the turns applies, and each takes quantity or
   an order away or is the last.                                           *)
CommandsEnd ==
  /\ [](incoming # None => ENABLED Match)
  /\ [][incoming # None => (incoming' = None \/ Left' < Left)]_vars
=============================================================================
