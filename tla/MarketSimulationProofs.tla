---------------------- MODULE MarketSimulationProofs -----------------------
(***************************************************************************)
(* Simulations take the gateway's own steps, so what ExchangeProofs says   *)
(* of it holds here too.  On that rests what simulations ask of a book,    *)
(* what becomes of their orders, and what the scan says of the events.     *)
(***************************************************************************)
EXTENDS MarketSimulation, ExchangeProofs

-----------------------------------------------------------------------------
(* What the book's steps do to what simulations and the scan read.         *)

(* An order keeps account, side and type, and never has less filled.       *)
LEMMA RecordKept ==
  ASSUME BookInv, [B!Next]_(B!vars), NEW id \in OrderIds, orders[id] # NoOrder
  PROVE  /\ orders'[id] # NoOrder
         /\ orders'[id].account = orders[id].account
         /\ orders'[id].side = orders[id].side
         /\ orders'[id].type = orders[id].type
         /\ orders[id].filled \in Nat
         /\ orders'[id].filled \in Nat /\ orders[id].filled <= orders'[id].filled
<1>1. orders[id] \in B!Order /\ orders[id].filled \in Nat
  <2>1. orders[id] \in B!Order
    BY B!Types, BookAssumptions DEF BookInv, B!IInv, B!Known
  <2> QED
    BY <2>1 DEF B!Order
<1>2. /\ B!Kept(orders[id], orders'[id])
      /\ B!Trade \/ orders'[id].filled = orders[id].filled
  BY B!OrderKept, BookAssumptions DEF BookInv, B!Known
<1>3. ASSUME NEW p \in Prices, B!Executes(p)
      PROVE  orders'[id].filled \in Nat /\ orders[id].filled <= orders'[id].filled
  <2> DEFINE m == B!Maker(p)
             q == B!TradeQuantity(p)
  <2>1. /\ orders'[m] = B!Filled(orders[m], q)
        /\ orders'[incoming] = B!Filled(orders[incoming], q)
        /\ id # m /\ id # incoming => orders'[id] = orders[id]
    BY <1>3, B!ExecutesFacts, BookAssumptions DEF BookInv
  <2>2. q \in Nat /\ q <= orders[m].remaining /\ q <= orders[incoming].remaining
    BY <1>3, B!MakerFacts, BookAssumptions DEF BookInv, B!Executes
  <2> HIDE DEF m, q
  <2>3. CASE id = m \/ id = incoming
    <3>1. orders'[id] = B!Filled(orders[id], q) /\ q <= orders[id].remaining
      BY <2>1, <2>2, <2>3
    <3>2. B!Filled(orders[id], q).filled = orders[id].filled + q
      BY <1>1, <2>2, <3>1, B!FilledFacts, BookAssumptions
    <3> QED
      BY <1>1, <2>2, <3>1, <3>2
  <2> QED
    BY <1>1, <2>1, <2>3
<1> QED
  BY <1>1, <1>2, <1>3 DEF B!Kept, B!Trade, B!TradePartOfMaker, B!TradeAllOfMaker

(* An order that is cancelled, and not in execution, stays cancelled.      *)
LEMMA CancelledStays ==
  ASSUME BookInv, [B!Next]_(B!vars), NEW id \in OrderIds, orders[id] # NoOrder,
         orders[id].status = "CANCELLED", id # incoming
  PROVE  orders'[id] = orders[id]
<1>1. id \notin live_orders
  BY DEF BookInv, B!IInv, B!OrdersOK, B!Known, B!Terminal
<1> QED
  BY <1>1, B!DoneStaysDone, BookAssumptions DEF BookInv, B!Known

(* A command records at most the order it brings, never trades, and adds no
   price to the index before its order is matched.                         *)
LEMMA CommandChanges ==
  ASSUME BookInv, NEW c \in Command, Process(c)
  PROVE  /\ incoming = None /\ trades' = trades
         /\ \A s \in Side : index'[s] \subseteq index[s]
         /\ \A id \in OrderIds :
              orders[id] = NoOrder /\ orders'[id] # NoOrder => c.kind = "NEW" /\ id = c.id
         /\ incoming' # None =>
              \/ /\ c.kind = "NEW" /\ incoming' = c.id
                 /\ orders'[c.id] = B!NewOrder(c.order, "ACCEPTED", sequence + 1)
              \/ /\ c.kind = "MODIFY" /\ incoming' = c.id
                 /\ orders'[c.id].status # "CANCELLED"
<1>1. /\ orders \in B!Orders /\ index \in [Side -> SUBSET Prices]
      /\ \A id \in live_orders : id \in OrderIds /\ orders[id] # NoOrder
  BY B!Types, BookFacts, BookAssumptions
  DEF BookInv, B!IInv, B!TypeOK, BookTyped, B!Side, Side
<1>2. c.id \in OrderIds
  BY DEF Command, NewCommand, CancelCommand, ModifyCommand
<1>3. ASSUME NEW id, NEW new, orders' = [orders EXCEPT ![id] = new]
      PROVE  \A x \in OrderIds : x # id => orders'[x] = orders[x]
  BY <1>1, <1>3 DEF B!Orders
<1>4. ASSUME NEW id, NEW new, id \in OrderIds, orders' = [orders EXCEPT ![id] = new]
      PROVE  orders'[id] = new
  BY <1>1, <1>4 DEF B!Orders
<1>5. ASSUME NEW id, NEW i, Book!Unlink(id, i)
      PROVE  \A s \in Side : index'[s] \subseteq index[s]
  BY <1>1, <1>5 DEF Book!Unlink
<1>6. CASE c.kind = "NEW" /\ Submit(c.id, c.order)
  <2>1. /\ incoming = None /\ trades' = trades /\ index' = index
    BY <1>6 DEF Submit, Book!Accept, Book!RejectSubmit, Book!RejectByRisk, Book!CanStart
  <2>2. /\ incoming' # None => incoming' = c.id /\ Book!Accept(c.id, c.order)
        /\ \/ orders' = orders
           \/ orders' = [orders EXCEPT ![c.id] = Book!NewOrder(c.order, "ACCEPTED", sequence + 1)]
           \/ orders' = [orders EXCEPT ![c.id] = Book!NewOrder(c.order, "REJECTED", 0)]
    BY <1>6 DEF Submit, Book!Accept, Book!RejectSubmit, Book!RejectByRisk, Book!CanStart
  <2>3. \A id \in OrderIds : orders[id] = NoOrder /\ orders'[id] # NoOrder => id = c.id
    BY <1>3, <2>2
  <2>4. Book!Accept(c.id, c.order) =>
          orders'[c.id] = Book!NewOrder(c.order, "ACCEPTED", sequence + 1)
    BY <1>2, <1>4 DEF Book!Accept
  <2>5. Book!NewOrder(c.order, "ACCEPTED", sequence + 1) =
          B!NewOrder(c.order, "ACCEPTED", sequence + 1)
    BY DEF Book!NewOrder, B!NewOrder
  <2> QED
    BY <1>6, <2>1, <2>2, <2>3, <2>4, <2>5
<1>7. CASE /\ c.kind = "CANCEL"
           /\ Book!Cancel(c.id, c.who) \/ Book!RejectCancel(c.id, c.who)
  <2>1. incoming = None /\ incoming' = None /\ trades' = trades
    BY <1>7 DEF Book!Cancel, Book!RejectCancel, Book!CanStart
  <2>2. \A s \in Side : index'[s] \subseteq index[s]
    BY <1>5, <1>7 DEF Book!Cancel, Book!RejectCancel
  <2>3. \/ orders' = orders
        \/ /\ c.id \in live_orders
           /\ orders' = [orders EXCEPT ![c.id] = [orders[c.id] EXCEPT !.status = "CANCELLED"]]
    BY <1>7 DEF Book!Cancel, Book!RejectCancel, Book!MayTouch
  <2>4. \A id \in OrderIds : orders[id] = NoOrder => orders'[id] = orders[id]
    BY <1>1, <1>3, <2>3
  <2> QED
    BY <2>1, <2>2, <2>4
<1>8. CASE /\ c.kind = "MODIFY"
           /\ \/ Book!ModifyInPlace(c.id, c.who, c.quantity, c.price)
              \/ Book!ModifyAndRequeue(c.id, c.who, c.quantity, c.price)
              \/ Book!RejectModify(c.id, c.who, c.quantity, c.price)
  <2>1. /\ incoming = None /\ trades' = trades
        /\ \A s \in Side : index'[s] \subseteq index[s]
    BY <1>5, <1>8 DEF Book!ModifyInPlace, Book!ModifyAndRequeue, Book!RejectModify, Book!CanStart
  <2>2. \/ orders' = orders /\ incoming' = None
        \/ /\ c.id \in live_orders /\ incoming' = None
           /\ orders' = [orders EXCEPT ![c.id] = Book!Resized(orders[c.id], c.quantity)]
        \/ /\ c.id \in live_orders /\ incoming' = c.id
           /\ Book!ModifyAndRequeue(c.id, c.who, c.quantity, c.price)
           /\ orders' = [orders EXCEPT ![c.id] =
                           Book!Requeued(orders[c.id], c.quantity, c.price, sequence + 1)]
    BY <1>8 DEF Book!ModifyInPlace, Book!ModifyAndRequeue, Book!RejectModify, Book!CanStart,
                Book!Modifiable, Book!MayTouch
  <2>3. \A id \in OrderIds : orders[id] = NoOrder => orders'[id] = orders[id]
    BY <1>1, <1>3, <2>2
  <2>4. incoming' # None => incoming' = c.id /\ orders'[c.id].status # "CANCELLED"
    <3> SUFFICES ASSUME incoming' # None
                 PROVE  incoming' = c.id /\ orders'[c.id].status # "CANCELLED"
      OBVIOUS
    <3>1. /\ incoming' = c.id /\ c.id \in live_orders
          /\ Book!Modifiable(c.id, c.who, c.quantity, c.price)
          /\ orders' = [orders EXCEPT ![c.id] =
                           Book!Requeued(orders[c.id], c.quantity, c.price, sequence + 1)]
      BY <2>2 DEF Book!ModifyAndRequeue
    <3> DEFINE o == orders[c.id]
               n == sequence + 1
    <3>2. /\ o \in B!Order /\ c.quantity \in Nat /\ c.quantity > o.filled
          /\ c.price \in Prices \cup {NoPrice} /\ n \in Nat
      <4>1. o \in B!Order
        BY <3>1, B!LiveFacts, BookAssumptions DEF BookInv
      <4>2. c.quantity \in Nat /\ c.price \in Prices \cup {NoPrice}
        BY <1>8 DEF Command, NewCommand, CancelCommand, ModifyCommand
      <4>3. c.quantity > o.filled
        BY <3>1 DEF Book!Modifiable
      <4>4. n \in Nat
        BY DEF BookInv, B!IInv, B!TypeOK
      <4> QED
        BY <4>1, <4>2, <4>3, <4>4
    <3>3. orders'[c.id] = B!Requeued(o, c.quantity, c.price, n)
      BY <1>2, <1>4, <3>1 DEF Book!Requeued, Book!Resized, B!Requeued, B!Resized
    <3> HIDE DEF o, n
    <3>4. B!NoPrice = NoPrice
      BY DEF B!NoPrice, NoPrice
    <3>5. B!Requeued(o, c.quantity, c.price, n).status \in {"ACCEPTED", "PARTIALLY_FILLED"}
      BY <3>2, <3>4, B!RequeuedFacts, BookAssumptions
    <3> QED
      BY <3>1, <3>3, <3>5
  <2> QED
    BY <1>8, <2>1, <2>3, <2>4
<1> QED
  BY <1>6, <1>7, <1>8 DEF Process

(* A turn of the matching: it records nothing, leaves the order in execution
   in execution or ends, and puts its price into the index if it may rest.
   It fills the order by a price it crosses, or it ends; and a cancellation
   is of what was left of the order.                                       *)
LEMMA MatchChanges ==
  ASSUME BookInv, B!Match
  PROVE  /\ incoming # None /\ incoming' \in {incoming, None}
         /\ \A id \in OrderIds : orders[id] = NoOrder => orders'[id] = NoOrder
         /\ orders'[incoming].price = orders[incoming].price
         /\ \A s \in Side : index'[s] \subseteq index[s] \cup
              {p \in {orders[incoming].price} :
                 s = orders[incoming].side /\ orders[incoming].type = "LIMIT"}
         /\ sequence < sequence'
         /\ \/ trades' = trades /\ orders'[incoming] = orders[incoming] /\ incoming' = None
            \/ /\ trades' = trades /\ incoming' = None
               /\ orders'[incoming] = [orders[incoming] EXCEPT !.status = "CANCELLED"]
               /\ orders[incoming].remaining > 0
            \/ \E m \in live_orders, q \in Nat \ {0},
                  p \in index[Opposite(orders[incoming].side)] :
                 /\ Trades(m, q, p) /\ Crosses(orders[incoming], p)
                 /\ orders'[incoming].filled = orders[incoming].filled + q
                 /\ orders'[incoming].status # "CANCELLED"
<1>1. /\ orders \in B!Orders /\ index \in [Side -> SUBSET Prices]
      /\ sequence \in Nat
      /\ \A id \in live_orders : id \in OrderIds /\ orders[id] # NoOrder
  BY B!Types, BookFacts, BookAssumptions
  DEF BookInv, B!IInv, B!TypeOK, BookTyped, B!Side, Side
<1>2. incoming # None
  BY DEF B!Match, B!PreventSelfTrade, B!Trade, B!TradePartOfMaker, B!TradeAllOfMaker,
         B!Executes, B!CompleteFilled, B!CancelRemainder, B!RestRemainder, B!Meets, B!Executing
<1>3. /\ incoming \in OrderIds /\ incoming \notin live_orders /\ orders[incoming] # NoOrder
      /\ orders[incoming] \in B!Order /\ orders[incoming].side \in Side
      /\ orders[incoming].type \in {"LIMIT", "MARKET"}
  <2>1. /\ incoming \in OrderIds /\ incoming \notin live_orders /\ orders[incoming] # NoOrder
        /\ orders[incoming] \in B!Order
    BY <1>2, B!IncomingFacts, BookAssumptions DEF BookInv, B!Known
  <2> QED
    BY <2>1 DEF B!Order, B!Side, Side, B!OrderType
<1>4. ASSUME NEW new, orders' = [orders EXCEPT ![incoming] = new]
      PROVE  /\ orders'[incoming] = new
             /\ \A id \in OrderIds : id # incoming => orders'[id] = orders[id]
  BY <1>1, <1>3, <1>4 DEF B!Orders
<1>5. CASE B!PreventSelfTrade \/ B!CancelRemainder
  <2> DEFINE new == [orders[incoming] EXCEPT !.status = "CANCELLED"]
  <2>1. /\ orders' = [orders EXCEPT ![incoming] = new]
        /\ trades' = trades /\ incoming' = None /\ index' = index
        /\ orders[incoming].remaining > 0
        /\ sequence' = sequence + 2
    BY <1>5 DEF B!PreventSelfTrade, B!CancelRemainder, B!Meets, B!Executing
  <2>2. new.price = orders[incoming].price
    BY <1>3 DEF B!Order
  <2> HIDE DEF new
  <2>3. /\ orders'[incoming] = new
        /\ \A id \in OrderIds : orders[id] = NoOrder => orders'[id] = NoOrder
    BY <1>3, <1>4, <2>1
  <2>4. /\ \A id \in OrderIds : orders[id] = NoOrder => orders'[id] = NoOrder
        /\ orders'[incoming].price = orders[incoming].price
        /\ \A s \in Side : index'[s] \subseteq index[s]
        /\ sequence < sequence'
    BY <1>1, <2>1, <2>2, <2>3
  <2> QED
    BY <1>2, <2>1, <2>3, <2>4 DEF new
<1>6. CASE B!CompleteFilled
  <2>1. orders' = orders /\ trades' = trades /\ incoming' = None /\ index' = index
        /\ sequence' = sequence + 1
    BY <1>6 DEF B!CompleteFilled
  <2> QED
    BY <1>1, <1>2, <2>1
<1>7. CASE B!RestRemainder
  <2>1. /\ orders' = orders /\ trades' = trades /\ incoming' = None
        /\ index' = [index EXCEPT ![orders[incoming].side] = @ \cup {orders[incoming].price}]
        /\ orders[incoming].type # "MARKET"
        /\ sequence' = sequence + 1
    BY <1>7 DEF B!RestRemainder, B!Rest, B!NeverRests
  <2>2. orders[incoming].type = "LIMIT"
    BY <1>3, <2>1
  <2>3. \A s \in Side : index'[s] \subseteq index[s] \cup
              {p \in {orders[incoming].price} :
                 s = orders[incoming].side /\ orders[incoming].type = "LIMIT"}
    BY <1>1, <1>3, <2>1, <2>2
  <2>4. sequence < sequence'
    BY <1>1, <2>1
  <2> QED
    BY <1>2, <2>1, <2>3, <2>4
<1>8. ASSUME NEW p \in Prices, B!TradePartOfMaker(p) \/ B!TradeAllOfMaker(p)
      PROVE  /\ incoming' = incoming
             /\ \A id \in OrderIds : orders[id] = NoOrder => orders'[id] = NoOrder
             /\ orders'[incoming].price = orders[incoming].price
             /\ \A s \in Side : index'[s] \subseteq index[s]
             /\ sequence < sequence'
             /\ \E m \in live_orders, q \in Nat \ {0},
                   r \in index[Opposite(orders[incoming].side)] :
                  /\ Trades(m, q, r) /\ Crosses(orders[incoming], r)
                  /\ orders'[incoming].filled = orders[incoming].filled + q
                  /\ orders'[incoming].status # "CANCELLED"
  <2> DEFINE m == B!Maker(p)
             q == B!TradeQuantity(p)
  <2>1. B!Executes(p) /\ B!Meets(p)
    BY <1>8 DEF B!TradePartOfMaker, B!TradeAllOfMaker, B!Executes
  <2>2. /\ orders'[incoming] = B!Filled(orders[incoming], q)
        /\ \A x \in OrderIds : orders'[x] # NoOrder <=> orders[x] # NoOrder
        /\ orders'[incoming].price = orders[incoming].price
        /\ sequence' = sequence + 3 /\ incoming' = incoming
    BY <1>3, <2>1, B!ExecutesFacts, BookAssumptions DEF BookInv, B!Known
  <2>3. p \in index[Opposite(orders[incoming].side)] /\ Crosses(orders[incoming], p)
    BY <2>1 DEF B!Meets, B!BestPrice, B!Opposing, B!Opposite, Opposite, B!Crosses, Crosses
  <2>4. Trades(m, q, p)
    BY <1>8, TradeFacts
  <2>5. \A s \in Side : index'[s] \subseteq index[s]
    BY <1>1, <1>8 DEF B!TradePartOfMaker, B!TradeAllOfMaker, B!Unlink
  <2>6. m \in live_orders /\ q \in Nat \ {0} /\ q <= orders[incoming].remaining
    BY <2>4 DEF Trades
  <2> HIDE DEF m, q
  <2>7. /\ B!Filled(orders[incoming], q).filled = orders[incoming].filled + q
        /\ B!Filled(orders[incoming], q).status # "CANCELLED"
    <3>1. B!Filled(orders[incoming], q).status =
            IF orders[incoming].remaining = q THEN "FILLED" ELSE "PARTIALLY_FILLED"
      BY <1>3, <2>6, B!FilledFacts, BookAssumptions
    <3>2. B!Filled(orders[incoming], q).filled = orders[incoming].filled + q
      BY <1>3, <2>6, B!FilledFacts, BookAssumptions
    <3> QED
      BY <3>1, <3>2
  <2>8. sequence < sequence'
    BY <1>1, <2>2
  <2>9. /\ Trades(m, q, p) /\ Crosses(orders[incoming], p)
        /\ orders'[incoming].filled = orders[incoming].filled + q
        /\ orders'[incoming].status # "CANCELLED"
    BY <2>2, <2>3, <2>4, <2>7
  <2> QED
    BY <2>2, <2>3, <2>5, <2>6, <2>8, <2>9
<1>9. CASE B!Trade
  <2>1. PICK p \in Prices : B!TradePartOfMaker(p) \/ B!TradeAllOfMaker(p)
    BY <1>9 DEF B!Trade
  <2> QED
    BY <1>2, <1>8, <2>1
<1> QED
  BY <1>5, <1>6, <1>7, <1>9 DEF B!Match

-----------------------------------------------------------------------------
(* Scenarios and what their agents make up.                                *)

(* A scenario that forces a side forces the one its center moves for.      *)
LEMMA ScenarioFacts ==
  ASSUME NEW key \in ScenarioKeys
  PROVE  /\ SCENARIOS[key].drift \in Int /\ SCENARIOS[key].forced \subseteq Side
         /\ SCENARIOS[key].forced # {} /\ SCENARIOS[key].drift > 0
              => "BUY" \in SCENARIOS[key].forced
         /\ SCENARIOS[key].forced # {} /\ SCENARIOS[key].drift < 0
              => "SELL" \in SCENARIOS[key].forced
<1>1. key \in {"normal", "high_volatility", "liquidity_shock", "large_buy_sweep",
               "large_sell_sweep", "one_sided_flow", "flash_selloff"}
  BY ScenariosAssumption DEF SCENARIOS
<1> QED
  BY <1>1 DEF SCENARIOS, Scenario, Side

(* The center after so many steps of one drift, and where it goes next.    *)
LEMMA DriftedOn ==
  ASSUME NEW d \in Int, NEW k \in Nat
  PROVE  /\ Drifted(Opening, d * k) \in Nat /\ Drifted(Opening, d * k) >= LowestCenter
         /\ Drifted(Drifted(Opening, d * k), d) = Drifted(Opening, d * (k + 1))
         /\ d >= 0 => Drifted(Opening, d * (k + 1)) >= Drifted(Opening, d * k)
         /\ d <= 0 => Drifted(Opening, d * (k + 1)) <= Drifted(Opening, d * k)
         /\ Drifted(Opening, d * 0) = Opening
<1> DEFINE m == d * k
<1>1. /\ m \in Int /\ d * (k + 1) = m + d /\ d * 0 = 0
      /\ d >= 0 => m >= 0
      /\ Opening \in Nat /\ Opening > LowestCenter
  BY OpeningAssumption
<1> HIDE DEF m
<1>2. /\ Drifted(Opening, m) \in Nat /\ Drifted(Opening, m) >= LowestCenter
      /\ Drifted(Drifted(Opening, m), d) = Drifted(Opening, m + d)
      /\ d >= 0 => Drifted(Opening, m + d) >= Drifted(Opening, m)
      /\ d <= 0 => Drifted(Opening, m + d) <= Drifted(Opening, m)
      /\ Drifted(Opening, 0) = Opening
  BY <1>1 DEF Drifted, LowestCenter
<1> QED
  BY <1>1, <1>2 DEF m

(* What an order that a simulation made up is like.                        *)
MadeUp(o, center, forced) ==
  /\ o.quantity > 0
  /\ o.type = "LIMIT" =>
       \E d \in NoiseOffsets \cup MakerOffsets : o.price = Quoted(o.side, center, d)
  /\ o.type = "MARKET" => o.tif = "IOC" /\ (forced # {} => o.side \in forced)

(* Limit orders are quoted around the center.                              *)
LEMMA LimitOrdersMade ==
  ASSUME NEW agent \in Agent, NEW tif \in TimeInForce, NEW sides \in SUBSET Side,
         NEW offsets \in SUBSET (NoiseOffsets \cup MakerOffsets), NEW center, NEW forced,
         \A s \in Side, d \in offsets : Quoted(s, center, d) \in Prices \cup {NoPrice},
         NEW o \in LimitOrders(agent, tif, sides, offsets, center)
  PROVE  o \in AnyRequest /\ MadeUp(o, center, forced)
<1>1. PICK s \in sides, d \in offsets, q \in Sizes[agent] :
        o = [account |-> agent, side |-> s, type |-> "LIMIT", tif |-> tif,
             price |-> Quoted(s, center, d), quantity |-> q]
  BY DEF LimitOrders
<1>2. q \in Nat \ {0} /\ agent \in Accounts /\ s \in Side
  BY SizesAssumption, AgentsAssumption
<1> DEFINE price == Quoted(s, center, d)
<1>3. price \in Prices \cup {NoPrice} /\ d \in NoiseOffsets \cup MakerOffsets
  BY <1>2
<1>4. o.side = s /\ o.type = "LIMIT" /\ o.price = price /\ o.quantity = q
  BY <1>1
<1>5. MadeUp(o, center, forced)
  BY <1>2, <1>3, <1>4 DEF MadeUp
<1> HIDE DEF price
<1>6. o \in AnyRequest
  BY <1>1, <1>2, <1>3 DEF AnyRequest, OrderType, price
<1> QED
  BY <1>5, <1>6

(* Market orders are of the side that is forced.                           *)
LEMMA MarketOrdersMade ==
  ASSUME NEW agent \in Agent, NEW sides \in SUBSET Side, NEW forced \in SUBSET Side,
         NEW center, NEW o \in MarketOrders(agent, sides, forced)
  PROVE  o \in AnyRequest /\ MadeUp(o, center, forced)
<1>1. PICK s \in (IF forced = {} THEN sides ELSE forced), q \in Sizes[agent] :
        o = [account |-> agent, side |-> s, type |-> "MARKET", tif |-> "IOC",
             price |-> NoPrice, quantity |-> q]
  BY DEF MarketOrders
<1>2. q \in Nat \ {0} /\ agent \in Accounts /\ s \in Side /\ (forced # {} => s \in forced)
  BY SizesAssumption, AgentsAssumption
<1>3. o.side = s /\ o.type = "MARKET" /\ o.tif = "IOC" /\ o.quantity = q
  BY <1>1
<1>4. MadeUp(o, center, forced)
  BY <1>2, <1>3 DEF MadeUp
<1>5. o \in AnyRequest
  BY <1>1, <1>2 DEF AnyRequest, OrderType, TimeInForce
<1> QED
  BY <1>4, <1>5

(* So the order of every agent is one that the gateway takes.              *)
LEMMA OrdersMade ==
  ASSUME NEW agent \in Agent, NEW step, NEW center, NEW forced \in SUBSET Side, NEW log,
         \A s \in Side, d \in NoiseOffsets \cup MakerOffsets :
           Quoted(s, center, d) \in Prices \cup {NoPrice},
         NEW o \in OrdersOf(agent, step, center, forced, log)
  PROVE  o \in AnyRequest /\ MadeUp(o, center, forced)
<1>1. CASE agent = "noise"
  <2>1. o \in LimitOrders(agent, "GTC", Side, NoiseOffsets, center)
    BY <1>1 DEF OrdersOf
  <2> QED
    BY <2>1, LimitOrdersMade DEF TimeInForce
<1>2. CASE agent = "maker"
  <2> DEFINE sides == {IF step % 2 = 0 THEN "BUY" ELSE "SELL"}
  <2>1. o \in LimitOrders(agent, "POST_ONLY", sides, MakerOffsets, center)
    BY <1>2 DEF OrdersOf
  <2>2. sides \subseteq Side
    BY DEF Side
  <2> HIDE DEF sides
  <2> QED
    BY <2>1, <2>2, LimitOrdersMade DEF TimeInForce
<1>3. CASE agent \in {"momentum", "taker", "whale"}
  <2> DEFINE whales == {IF step % 3 = 0 THEN "BUY" ELSE "SELL"}
  <2>1. \/ o \in MarketOrders(agent, MomentumSides(log), forced)
        \/ o \in MarketOrders(agent, Side, forced)
        \/ o \in MarketOrders(agent, whales, forced)
    BY <1>3 DEF OrdersOf
  <2>2. whales \subseteq Side /\ MomentumSides(log) \subseteq Side
    BY DEF Side, MomentumSides
  <2> HIDE DEF whales
  <2> QED
    BY <2>1, <2>2, MarketOrdersMade
<1> QED
  BY <1>1, <1>2, <1>3 DEF Agent

-----------------------------------------------------------------------------
(* What holds of simulations between any two steps: where a simulation is,
   and that what it asked is a command that it made up or the cancellation of
   an order in its owner's name.                                           *)
SeedSet == {SeedCommands[k] : k \in DOMAIN SeedCommands}

ASimulation ==
  [scenario : ScenarioKeys \cup {"none"}, step_number : Nat, id_counter : Nat, center : Nat]

Drift == IF Running THEN SCENARIOS[simulation.scenario].drift ELSE 0

SimulationOK ==
  /\ simulation \in ASimulation
  /\ simulation.step_number <= MaxSteps
  /\ simulation.id_counter <= simulation.step_number
  /\ Running => simulation.scenario \in ScenarioKeys /\ simulations > 0
  /\ simulation.center = Drifted(Opening, Drift * simulation.step_number)
  /\ simulations \in Nat /\ visits \in Nat /\ simulations + visits <= MaxCompany
  /\ pending \in Seq(SeedSet)
  /\ pending # << >> => simulation.step_number = 0

AskedOK ==
  asked # None =>
    /\ Running /\ asked \in Command
    /\ \/ /\ asked.kind = "CANCEL"
          /\ orders[asked.id] # NoOrder /\ orders[asked.id].account = asked.who
       \/ /\ asked.kind = "NEW"
          /\ \E agent \in Agent : asked.id = <<agent, simulation.id_counter>>
          /\ simulation.id_counter > 0
          /\ MadeUp(asked.order, simulation.center, Forced)

(* The steps of the market, by what they do to the book.                   *)
Cleared ==
  /\ Reset
  /\ asked = None /\ asked' = None /\ events' = {} /\ visits' = 0
  /\ \/ simulations' = 0 /\ simulation' = NoSimulation
     \/ simulations' = 1 /\ \E key \in ScenarioKeys : simulation' = Begun(key)

Commanded(c) ==
  /\ Process(c) /\ events' = events \cup CommandEvents(c)
  /\ UNCHANGED <<simulation, simulations>>
  /\ \/ c = asked /\ asked # None /\ asked' = None /\ UNCHANGED <<visits, pending>>
     \/ /\ c \in Commands /\ asked' = asked /\ pending' = pending
        /\ simulations > 0 => simulations + visits < MaxCompany
        /\ visits' = Smaller(visits + 1, MaxCompany)
     \/ /\ pending # << >> /\ c = Head(pending) /\ pending' = Tail(pending)
        /\ UNCHANGED <<visits, asked>>

Matched ==
  /\ Match /\ events' = events \cup MatchEvents
  /\ UNCHANGED simulationVars

Quiet ==
  /\ UNCHANGED <<bookVars, pending, simulation, asked, simulations, events>>
  /\ settled' = settled \/ settled < Len(trades)
  /\ \/ visits' = visits
     \/ /\ simulations > 0 => simulations + visits < MaxCompany
        /\ visits' = Smaller(visits + 1, MaxCompany)

(* Every step is one of these, and one that the gateway may take.          *)
LEMMA MarketMoves ==
  ASSUME IInv, AskedOK, [MarketNext]_marketVars
  PROVE  /\ GatewayStep
         /\ \/ Cleared
            \/ \E key \in ScenarioKeys : StartOn(key)
            \/ NextCommand
            \/ \E c \in Command : Commanded(c)
            \/ Matched
            \/ Quiet
<1>1. pending \in Seq(NewCommand) /\ Typed
  BY DEF IInv, Typed
<1>2. ASSUME NEW key \in ScenarioKeys, StartAfresh(key)
      PROVE  GatewayStep /\ Cleared
  BY <1>2 DEF StartAfresh, GatewayStep, Cleared
<1>3. CASE ResetBook
  BY <1>3 DEF ResetBook, GatewayStep, Cleared
<1>4. ASSUME \/ \E key \in ScenarioKeys : StartOn(key)
             \/ NextCommand
      PROVE  GatewayStep
  BY <1>4 DEF StartOn, NextCommand, GatewayStep
<1>5. ASSUME NEW c \in Command, Run(c), \/ c = asked /\ RunAsked
                                        \/ /\ c \in Commands /\ UNCHANGED <<simulation, asked, simulations>>
                                           /\ simulations > 0 => simulations + visits < MaxCompany
                                           /\ visits' = Smaller(visits + 1, MaxCompany)
      PROVE  GatewayStep /\ Commanded(c)
  <2>1. Served(c) /\ pending' = pending
    BY <1>5 DEF Run, Serve, Served
  <2>2. Commanded(c)
    BY <1>5, <2>1 DEF Run, Serve, RunAsked, Commanded
  <2> QED
    BY <2>1, <2>2 DEF GatewayStep
<1>6. CASE RunAsked
  <2>1. asked \in Command /\ Run(asked)
    BY <1>6 DEF RunAsked, AskedOK
  <2> QED
    BY <1>5, <1>6, <2>1
<1>7. CASE Visit
  <2>1. ASSUME NEW l \in OtherLimits, ConfigureRisk(l) /\ UNCHANGED events
        PROVE  GatewayStep /\ Quiet
    BY <1>7, <2>1 DEF Visit, ConfigureRisk, Quiet, GatewayStep
  <2>2. ASSUME NEW c \in Commands, Run(c)
        PROVE  \E d \in Command : GatewayStep /\ Commanded(d)
    <3>1. c \in Command
      BY CommandsAssumption
    <3> QED
      BY <1>5, <1>7, <2>2, <3>1 DEF Visit
  <2> QED
    BY <1>7, <2>1, <2>2 DEF Visit
<1>8. ASSUME Seed, events' = events \cup CommandEvents(Head(pending)), UNCHANGED simulationVars
      PROVE  GatewayStep /\ \E c \in Command : Commanded(c)
  <2>1. Head(pending) \in Command
    BY <1>1, <1>8, ServedIsCommand DEF Seed
  <2>2. Commanded(Head(pending)) /\ Served(Head(pending))
    BY <1>8 DEF Seed, Commanded, simulationVars, Served
  <2> QED
    BY <2>1, <2>2 DEF GatewayStep
<1>9. ASSUME Match, events' = events \cup MatchEvents, UNCHANGED simulationVars
      PROVE  GatewayStep /\ Matched
  BY <1>9 DEF GatewayStep, Matched
<1>10. ASSUME Settle, UNCHANGED <<events, simulationVars>>
       PROVE  GatewayStep /\ Quiet
  BY <1>10 DEF Settle, SettleRisk, GatewayStep, Quiet, simulationVars
<1>11. CASE UNCHANGED marketVars
  <2>1. UNCHANGED vars /\ Quiet
    BY <1>11 DEF marketVars, simulationVars, vars, gatewayVars, Quiet
  <2> QED
    BY <2>1 DEF GatewayStep
<1> QED
  BY <1>2, <1>3, <1>4, <1>6, <1>7, <1>8, <1>9, <1>10, <1>11 DEF MarketNext, Proceed

(* A simulation that begins is where it began.                             *)
LEMMA BegunFacts ==
  ASSUME NEW key \in ScenarioKeys
  PROVE  /\ NoSimulation \in ASimulation /\ Begun(key) \in ASimulation
         /\ Begun(key).scenario = key
         /\ \A s \in {NoSimulation, Begun(key)} :
              s.step_number = 0 /\ s.id_counter = 0 /\ s.center = Opening
<1>1. /\ NoSimulation \in ASimulation
      /\ NoSimulation.step_number = 0 /\ NoSimulation.id_counter = 0
      /\ NoSimulation.center = Opening
  BY OpeningAssumption DEF NoSimulation, ASimulation
<1> HIDE DEF NoSimulation
<1>2. [NoSimulation EXCEPT !.scenario = key] =
        [scenario |-> key, step_number |-> NoSimulation.step_number,
         id_counter |-> NoSimulation.id_counter, center |-> NoSimulation.center]
  BY <1>1 DEF ASimulation
<1>3. Begun(key) = [scenario |-> key, step_number |-> 0, id_counter |-> 0, center |-> Opening]
  BY <1>1, <1>2 DEF Begun
<1> QED
  BY <1>1, <1>3, OpeningAssumption DEF ASimulation

(* A simulation that has nothing behind it is where its center opened.     *)
LEMMA AtItsBeginning ==
  ASSUME simulation \in ASimulation, simulation.step_number = 0,
         simulation.center = Opening, Running => simulation.scenario \in ScenarioKeys
  PROVE  simulation.center = Drifted(Opening, Drift * simulation.step_number)
<1>1. Drift \in Int
  BY ScenarioFacts DEF Drift
<1> HIDE DEF Drift
<1> QED
  BY <1>1, DriftedOn

(* And so in the next state.                                               *)
LEMMA AtItsBeginningNext ==
  (simulation \in ASimulation /\ simulation.step_number = 0 /\
   simulation.center = Opening /\ (Running => simulation.scenario \in ScenarioKeys))' =>
    (simulation.center = Drifted(Opening, Drift * simulation.step_number))'
  BY AtItsBeginning, PTL

(* What next_command does to the simulation.                               *)
LEMMA CommandMade ==
  ASSUME IInv, SimulationOK, NextCommand
  PROVE  /\ simulation' \in ASimulation /\ Running /\ Running'
         /\ simulation'.scenario = simulation.scenario
         /\ simulation'.step_number = simulation.step_number + 1
         /\ simulation'.step_number \in 1 .. MaxSteps
         /\ simulation'.center = Drifted(simulation.center, Drift)
         /\ Drift' = Drift /\ Drift \in Int /\ Forced' = Forced /\ Forced \subseteq Side
         /\ asked = None /\ Idle
         /\ UNCHANGED <<vars, simulations, visits, events>>
         /\ \/ /\ simulation'.id_counter = simulation.id_counter
               /\ \E id \in live_orders : asked' = CancelOf(id)
            \/ /\ simulation'.id_counter = simulation.id_counter + 1
               /\ \E agent \in Agent :
                    \E o \in OrdersOf(agent, simulation'.step_number, simulation'.center,
                                      Forced, trades) :
                      asked' = [kind |-> "NEW", id |-> <<agent, simulation'.id_counter>>,
                                order |-> o]
<1> DEFINE step == simulation.step_number + 1
           center == Drifted(simulation.center, SCENARIOS[simulation.scenario].drift)
           moved == [simulation EXCEPT !.step_number = step, !.center = center]
           n == simulation.id_counter + 1
<1>1. /\ Running /\ asked = None /\ Idle /\ simulation.step_number < MaxSteps
      /\ UNCHANGED <<vars, simulations, visits, events>>
      /\ \/ simulation' = moved /\ \E id \in live_orders : asked' = CancelOf(id)
         \/ /\ simulation' = [moved EXCEPT !.id_counter = n]
            /\ \E agent \in Agent :
                 \E o \in OrdersOf(agent, step, center, Forced, trades) :
                   asked' = [kind |-> "NEW", id |-> <<agent, n>>, order |-> o]
  BY DEF NextCommand, Numbered, Forced
<1>2. /\ simulation \in ASimulation /\ simulation.scenario \in ScenarioKeys
      /\ simulation.step_number \in Nat /\ simulation.id_counter \in Nat
      /\ simulation.center \in Nat
  BY <1>1 DEF SimulationOK, ASimulation
<1>3. Drift = SCENARIOS[simulation.scenario].drift /\ Drift \in Int /\ Forced \subseteq Side
  BY <1>1, <1>2, ScenarioFacts DEF Drift, Forced
<1>4. center \in Nat /\ step \in 1 .. MaxSteps /\ n \in Nat /\ center = Drifted(simulation.center, Drift)
  BY <1>1, <1>2, <1>3, MarketBoundsAssumption DEF Drifted, LowestCenter
<1> HIDE DEF center, step, n
<1>5. /\ moved \in ASimulation /\ moved.scenario = simulation.scenario
      /\ moved.step_number = step /\ moved.center = center
      /\ moved.id_counter = simulation.id_counter
  <2> DEFINE stepped == [simulation EXCEPT !.step_number = step]
  <2>1. /\ stepped \in ASimulation /\ stepped.scenario = simulation.scenario
        /\ stepped.step_number = step /\ stepped.id_counter = simulation.id_counter
    <3>1. step \in Nat
      BY <1>4
    <3> QED
      BY <1>2, <3>1 DEF ASimulation
  <2> HIDE DEF stepped
  <2>2. LET s == [stepped EXCEPT !.center = center]
        IN /\ s \in ASimulation /\ s.scenario = simulation.scenario
           /\ s.step_number = step /\ s.center = center
           /\ s.id_counter = simulation.id_counter
    BY <1>4, <2>1 DEF ASimulation
  <2> QED
    BY <2>2 DEF stepped
<1> HIDE DEF moved
<1>6. LET s == [moved EXCEPT !.id_counter = n]
      IN /\ s \in ASimulation /\ s.scenario = simulation.scenario
         /\ s.step_number = step /\ s.center = center /\ s.id_counter = n
  BY <1>4, <1>5 DEF ASimulation
<1>7. /\ simulation' \in ASimulation /\ simulation'.scenario = simulation.scenario
      /\ simulation'.step_number = step /\ simulation'.center = center
  BY <1>1, <1>5, <1>6
<1>8. simulation' # NoSimulation
  <2>1. NoSimulation.step_number = 0 /\ step > 0
    BY <1>4 DEF NoSimulation
  <2> QED
    BY <1>7, <2>1
<1>9. Running' /\ Drift' = Drift /\ Forced' = Forced
  BY <1>1, <1>7, <1>8 DEF Running, Drift, Forced
<1> QED
  BY <1>1, <1>3, <1>4, <1>5, <1>6, <1>7, <1>9 DEF step, n

(* The seeds are a sequence of themselves.                                 *)
LEMMA SeedsInTurn == SeedCommands \in Seq(SeedSet)
  BY SeedAssumption DEF SeedSet

(* Where a simulation is, after every step.                                *)
LEMMA SimulationStep ==
  ASSUME IInv, SimulationOK, AskedOK, [MarketNext]_marketVars
  PROVE  SimulationOK'
<1> USE MarketBoundsAssumption
<1>1. ASSUME simulation' = simulation, simulations' = simulations,
             \/ visits' = visits
             \/ /\ simulations > 0 => simulations + visits < MaxCompany
                /\ visits' = Smaller(visits + 1, MaxCompany),
             pending' = pending \/ (pending # << >> /\ pending' = Tail(pending))
      PROVE  SimulationOK'
  <2>1. visits' \in Nat /\ simulations + visits' <= MaxCompany
    BY <1>1 DEF SimulationOK, Smaller
  <2>2. pending' \in Seq(SeedSet)
    BY <1>1 DEF SimulationOK
  <2> QED
    BY <1>1, <2>1, <2>2 DEF SimulationOK, Running, Drift
<1>2. CASE Cleared
  <2>1. /\ simulation' \in ASimulation /\ simulation'.step_number = 0
        /\ simulation'.id_counter = 0 /\ simulation'.center = Opening
        /\ Running' => simulation'.scenario \in ScenarioKeys /\ simulations' > 0
    <3>1. CASE simulations' = 0 /\ simulation' = NoSimulation
      <4>1. ~Running'
        BY <3>1 DEF Running
      <4>2. /\ NoSimulation \in ASimulation /\ NoSimulation.step_number = 0
            /\ NoSimulation.id_counter = 0 /\ NoSimulation.center = Opening
        BY OpeningAssumption DEF NoSimulation, ASimulation
      <4> QED
        BY <3>1, <4>1, <4>2
    <3>2. ASSUME NEW key \in ScenarioKeys, simulations' = 1, simulation' = Begun(key)
          PROVE  /\ simulation' \in ASimulation /\ simulation'.step_number = 0
                 /\ simulation'.id_counter = 0 /\ simulation'.center = Opening
                 /\ Running' => simulation'.scenario \in ScenarioKeys /\ simulations' > 0
      BY <3>2, BegunFacts
    <3> QED
      BY <1>2, <3>1, <3>2 DEF Cleared
  <2>2. (simulation.center = Drifted(Opening, Drift * simulation.step_number))'
    BY <2>1, AtItsBeginningNext
  <2>3. /\ simulations' \in {0, 1} /\ visits' = 0 /\ pending' = SeedCommands
    BY <1>2 DEF Cleared, Reset
  <2>4. /\ simulations' \in Nat /\ visits' \in Nat /\ simulations' + visits' <= MaxCompany
        /\ simulation'.step_number <= MaxSteps
        /\ simulation'.id_counter <= simulation'.step_number
    <3>1. simulation'.step_number = 0 /\ simulation'.id_counter = 0
      BY <2>1
    <3>2. /\ simulations' \in Nat /\ visits' \in Nat /\ simulations' + visits' <= MaxCompany
      <4>1. (simulations' = 0 \/ simulations' = 1) /\ visits' = 0
        BY <2>3
      <4> QED
        BY ONLY <4>1, MarketBoundsAssumption
    <3>3. simulation'.step_number <= MaxSteps /\ simulation'.id_counter <= simulation'.step_number
      BY <3>1
    <3> QED
      BY <3>2, <3>3
  <2>5. pending' \in Seq(SeedSet) /\ (pending' # << >> => simulation'.step_number = 0)
    BY <2>1, <2>3, SeedsInTurn
  <2>6. Running' => simulation'.scenario \in ScenarioKeys /\ simulations' > 0
    BY <2>1
  <2> QED
    BY <2>1, <2>2, <2>4, <2>5, <2>6, Zenon DEF SimulationOK
<1>3. ASSUME NEW key \in ScenarioKeys, StartOn(key)
      PROVE  SimulationOK'
  <2>1. /\ simulation' = Begun(key) /\ simulations' = simulations + 1 /\ visits' = visits
        /\ pending' = pending /\ simulations + visits < MaxCompany
    BY <1>3 DEF StartOn, vars, gatewayVars
  <2>2. /\ simulation' \in ASimulation /\ simulation'.step_number = 0
        /\ simulation'.id_counter = 0 /\ simulation'.center = Opening
        /\ simulation'.scenario \in ScenarioKeys
    BY <2>1, BegunFacts
  <2>3. (simulation.center = Drifted(Opening, Drift * simulation.step_number))'
    BY <2>2, AtItsBeginningNext
  <2> QED
    BY <2>1, <2>2, <2>3 DEF SimulationOK
<1>4. CASE NextCommand
  <2>1. /\ simulation' \in ASimulation /\ simulation'.scenario = simulation.scenario
        /\ simulation'.step_number = simulation.step_number + 1
        /\ simulation'.step_number \in 1 .. MaxSteps
        /\ simulation'.center = Drifted(simulation.center, Drift)
        /\ Drift' = Drift /\ Drift \in Int /\ Running
        /\ simulation'.id_counter \in {simulation.id_counter, simulation.id_counter + 1}
        /\ pending = << >> /\ pending' = pending /\ simulations' = simulations /\ visits' = visits
    BY <1>4, CommandMade DEF Idle, vars, gatewayVars
  <2>2. simulation'.center = Drifted(Opening, Drift * simulation'.step_number)
    <3>1. simulation.step_number \in Nat
      BY DEF SimulationOK, ASimulation
    <3> QED
      BY <2>1, <3>1, DriftedOn DEF SimulationOK
  <2>3. simulation'.id_counter <= simulation'.step_number
    BY <2>1 DEF SimulationOK, ASimulation
  <2> QED
    BY <2>1, <2>2, <2>3 DEF SimulationOK
<1>5. ASSUME NEW c \in Command, Commanded(c)
      PROVE  SimulationOK'
  BY <1>1, <1>5 DEF Commanded
<1>6. CASE Matched
  BY <1>1, <1>6 DEF Matched, Match, gatewayVars, simulationVars
<1>7. CASE Quiet
  BY <1>1, <1>7 DEF Quiet
<1> QED
  BY <1>2, <1>3, <1>4, <1>5, <1>6, <1>7, MarketMoves

(* A command of the market moves the book, and so does a turn.             *)
LEMMA MarketBook ==
  ASSUME IInv, (\E c \in Command : Commanded(c)) \/ Matched \/ Quiet
  PROVE  [B!Next]_(B!vars)
<1>1. ASSUME NEW c \in Command, Commanded(c)
      PROVE  [B!Next]_(B!vars)
  BY <1>1, ProcessMoves DEF Commanded, B!Next
<1>2. CASE Matched
  BY <1>2, MatchMoves DEF Matched, Match, Turn, B!Next, IInv
<1>3. CASE Quiet
  BY <1>3 DEF Quiet, bookVars, B!vars
<1> QED
  BY <1>1, <1>2, <1>3

(* What was asked for stays right while the book moves.                    *)
LEMMA AskedKept ==
  ASSUME IInv, AskedOK, [B!Next]_(B!vars), simulation' = simulation,
         asked' \in {None, asked}
  PROVE  AskedOK'
<1> SUFFICES ASSUME asked' # None
             PROVE  AskedOK'
  BY DEF AskedOK
<1>1. asked' = asked /\ asked # None /\ Running' = Running /\ Forced' = Forced
  BY DEF Running, Forced
<1>2. CASE asked.kind = "CANCEL"
  <2>1. asked.id \in OrderIds /\ orders[asked.id] # NoOrder
    BY <1>1, <1>2 DEF AskedOK, Command, NewCommand, CancelCommand, ModifyCommand
  <2>2. /\ orders'[asked.id] # NoOrder
        /\ orders'[asked.id].account = orders[asked.id].account
    BY <2>1, RecordKept DEF IInv
  <2> QED
    BY <1>1, <1>2, <2>2 DEF AskedOK
<1>3. CASE asked.kind = "NEW"
  BY <1>1, <1>3 DEF AskedOK
<1> QED
  BY <1>1, <1>2, <1>3 DEF AskedOK

(* What next_command asks for is right.                                    *)
LEMMA AskedMade ==
  ASSUME IInv, SimulationOK, NextCommand
  PROVE  AskedOK'
<1>1. /\ Running /\ Running' /\ Forced' = Forced /\ Forced \subseteq Side
      /\ simulation'.scenario = simulation.scenario
      /\ simulation'.step_number = simulation.step_number + 1
      /\ simulation'.step_number \in 1 .. MaxSteps
      /\ simulation'.center = Drifted(simulation.center, Drift)
      /\ Drift' = Drift /\ Drift \in Int
      /\ orders' = orders
      /\ \/ \E id \in live_orders : asked' = CancelOf(id)
         \/ /\ simulation'.id_counter = simulation.id_counter + 1
            /\ \E agent \in Agent :
                 \E o \in OrdersOf(agent, simulation'.step_number, simulation'.center,
                                   Forced, trades) :
                   asked' = [kind |-> "NEW", id |-> <<agent, simulation'.id_counter>>,
                             order |-> o]
  BY CommandMade DEF vars, bookVars
<1>2. ASSUME NEW id \in live_orders, asked' = CancelOf(id)
      PROVE  AskedOK'
  <2>1. id \in OrderIds /\ orders[id] # NoOrder /\ orders[id].account \in Accounts
    BY BookFacts DEF IInv, BookTyped, OrdersTyped
  <2>2. /\ asked' \in Command /\ asked'.kind = "CANCEL" /\ asked'.id = id
        /\ asked'.who = orders[id].account
    BY <1>2, <2>1 DEF CancelOf, Command, CancelCommand
  <2> QED
    BY <1>1, <2>1, <2>2 DEF AskedOK
<1>3. ASSUME NEW agent \in Agent,
             NEW o \in OrdersOf(agent, simulation'.step_number, simulation'.center,
                                Forced, trades),
             asked' = [kind |-> "NEW", id |-> <<agent, simulation'.id_counter>>, order |-> o],
             simulation'.id_counter = simulation.id_counter + 1
      PROVE  AskedOK'
  <2> DEFINE n == simulation'.id_counter
             center == simulation'.center
  <2>1. n \in 1 .. MaxSteps
    BY <1>1, <1>3, MarketBoundsAssumption DEF SimulationOK, ASimulation
  <2>2. <<agent, n>> \in OrderIds
    BY <2>1, AgentsAssumption
  <2>3. center = Drifted(Opening, Drift * simulation'.step_number)
    BY <1>1, DriftedOn DEF SimulationOK, ASimulation
  <2>4. \A s \in Side, d \in NoiseOffsets \cup MakerOffsets :
          Quoted(s, center, d) \in Prices \cup {NoPrice}
    BY <1>1, <2>3, QuotesAssumption DEF Drift, SimulationOK
  <2>5. o \in AnyRequest /\ MadeUp(o, center, Forced)
    BY <1>1, <1>3, <2>4, OrdersMade
  <2> HIDE DEF center, n
  <2>6. /\ asked'.kind = "NEW" /\ asked'.id = <<agent, n>> /\ asked'.order = o
        /\ asked' \in Command
    BY <1>3, <2>2, <2>5 DEF Command, NewCommand, AnyRequest, n
  <2>7. n > 0
    BY <2>1
  <2> QED
    BY <1>1, <2>5, <2>6, <2>7 DEF AskedOK, n, center
<1> QED
  BY <1>1, <1>2, <1>3

(* What a simulation asked for is right after every step.                  *)
LEMMA AskedStep ==
  ASSUME IInv, SimulationOK, AskedOK, [MarketNext]_marketVars
  PROVE  AskedOK'
<1>1. CASE Cleared
  BY <1>1 DEF Cleared, AskedOK
<1>2. ASSUME NEW key \in ScenarioKeys, StartOn(key)
      PROVE  AskedOK'
  BY <1>2 DEF StartOn, AskedOK
<1>3. CASE NextCommand
  BY <1>3, AskedMade
<1>4. ASSUME (\E c \in Command : Commanded(c)) \/ Matched \/ Quiet
      PROVE  AskedOK'
  <2>1. [B!Next]_(B!vars)
    BY <1>4, MarketBook
  <2>2. simulation' = simulation /\ asked' \in {None, asked}
    BY <1>4 DEF Commanded, Matched, simulationVars, Quiet
  <2> QED
    BY <2>1, <2>2, AskedKept
<1> QED
  BY <1>1, <1>2, <1>3, <1>4, MarketMoves

-----------------------------------------------------------------------------
(* The ids of the orders on the book.                                      *)
ClientIds == {c.id : c \in {d \in Commands : d.kind = "NEW"}}

(* The number of the last id that a simulation has put to use.             *)
Used ==
  IF asked # None /\ asked.kind = "NEW" THEN simulation.id_counter - 1
  ELSE simulation.id_counter

(* Of the ids of agents those are taken that the only simulation used, and
   those that others made up.                                              *)
IdsOK ==
  simulations <= 1 =>
    \A id \in Agent \X (1 .. MaxSteps) :
      orders[id] # NoOrder => id[2] <= Used \/ (visits > 0 /\ id \in ClientIds)

(* A visit counts.                                                         *)
LEMMA VisitsCount ==
  ASSUME SimulationOK, visits' = Smaller(visits + 1, MaxCompany)
  PROVE  visits' > 0
<1>1. visits \in Nat /\ MaxCompany \in Nat \ {0}
  BY MarketBoundsAssumption DEF SimulationOK
<1> QED
  BY <1>1 DEF Smaller

(* An id that is new on the book is one of these after every command.      *)
LEMMA IdsCommanded ==
  ASSUME IInv, SimulationOK, AskedOK, IdsOK, NEW c \in Command, Commanded(c)
  PROVE  IdsOK'
<1> SUFFICES ASSUME simulations' <= 1, NEW id \in Agent \X (1 .. MaxSteps),
                    orders'[id] # NoOrder
             PROVE  id[2] <= Used' \/ (visits' > 0 /\ id \in ClientIds)
  BY DEF IdsOK
<1>1. /\ id \in OrderIds /\ id[2] \in Nat /\ simulation' = simulation
      /\ simulation.id_counter \in Nat /\ simulations' = simulations
  BY AgentsAssumption DEF Commanded, SimulationOK, ASimulation
<1>2. Used \in Int /\ Used' \in Int /\ Used <= Used'
  BY <1>1 DEF Used, Commanded
<1>3. visits > 0 => visits' > 0
  BY VisitsCount DEF Commanded
<1>4. CASE orders[id] # NoOrder
  BY <1>1, <1>2, <1>3, <1>4 DEF IdsOK
<1>5. CASE orders[id] = NoOrder
  <2>1. c.kind = "NEW" /\ id = c.id
    BY <1>1, <1>5, CommandChanges DEF IInv, Commanded
  <2>2. CASE c = asked /\ asked # None /\ asked' = None
    <3>1. PICK agent \in Agent : id = <<agent, simulation.id_counter>>
      BY <2>1, <2>2 DEF AskedOK
    <3>2. id[2] = simulation.id_counter
      BY <3>1
    <3>3. Used' = simulation.id_counter
      BY <1>1, <2>2 DEF Used
    <3> QED
      BY <1>1, <3>2, <3>3
  <2>3. CASE c \in Commands /\ visits' = Smaller(visits + 1, MaxCompany)
    BY <2>1, <2>3, VisitsCount DEF ClientIds
  <2>4. CASE pending # << >> /\ c = Head(pending)
    <3>1. pending \in Seq(SeedSet)
      BY DEF SimulationOK
    <3>2. c \in SeedSet
      BY <2>4, <3>1
    <3>3. c.id \notin Agent \X (1 .. MaxSteps)
      BY <3>2, SeedsAssumption DEF SeedSet
    <3> QED
      BY <2>1, <3>3
  <2> QED
    BY <2>2, <2>3, <2>4 DEF Commanded
<1> QED
  BY <1>4, <1>5

(* And after every step.                                                   *)
LEMMA IdsStep ==
  ASSUME IInv, SimulationOK, AskedOK, IdsOK, [MarketNext]_marketVars
  PROVE  IdsOK'
<1>1. CASE Cleared
  <2>1. \A id \in Agent \X (1 .. MaxSteps) : orders'[id] = NoOrder
    BY <1>1, AgentsAssumption DEF Cleared, Reset
  <2> QED
    BY <2>1 DEF IdsOK
<1>2. ASSUME NEW key \in ScenarioKeys, StartOn(key)
      PROVE  IdsOK'
  <2> SUFFICES ASSUME simulations' <= 1, NEW id \in Agent \X (1 .. MaxSteps),
                      orders'[id] # NoOrder
               PROVE  visits' > 0 /\ id \in ClientIds
    BY DEF IdsOK
  <2>1. /\ asked = None /\ simulations' = simulations + 1 /\ visits' = visits
        /\ orders' = orders
    BY <1>2 DEF StartOn, vars, bookVars
  <2>2. simulations = 0
    BY <2>1 DEF SimulationOK
  <2>3. simulation = NoSimulation
    BY <2>2 DEF SimulationOK, Running
  <2>4. Used = 0
    BY <2>1, <2>3 DEF Used, NoSimulation
  <2>5. id[2] > 0 /\ id[2] \in Nat
    OBVIOUS
  <2> QED
    BY <2>1, <2>2, <2>4, <2>5 DEF IdsOK
<1>3. CASE NextCommand
  <2>1. /\ simulation'.id_counter \in Int /\ simulation.id_counter \in Int
        /\ asked = None /\ orders' = orders /\ simulations' = simulations /\ visits' = visits
        /\ \/ simulation'.id_counter = simulation.id_counter /\ asked'.kind # "NEW"
           \/ simulation'.id_counter = simulation.id_counter + 1
    BY <1>3, CommandMade DEF vars, bookVars, CancelOf, SimulationOK, ASimulation
  <2>2. Used' \in Int /\ Used \in Int /\ Used <= Used'
    BY <2>1 DEF Used
  <2>3. \A id \in Agent \X (1 .. MaxSteps) : id[2] \in Int
    OBVIOUS
  <2> QED
    BY <2>1, <2>2, <2>3 DEF IdsOK
<1>4. ASSUME NEW c \in Command, Commanded(c)
      PROVE  IdsOK'
  BY <1>4, IdsCommanded
<1>5. CASE Matched \/ Quiet
  <2>1. /\ simulation' = simulation /\ asked' = asked /\ simulations' = simulations
        /\ visits > 0 => visits' > 0
    BY <1>5, VisitsCount DEF Matched, simulationVars, Quiet
  <2>2. Used' = Used
    BY <2>1 DEF Used
  <2>3. \A id \in Agent \X (1 .. MaxSteps) : orders[id] = NoOrder => orders'[id] = NoOrder
    <3>1. CASE Matched
      <4>1. B!Match
        BY <3>1, MatchMoves DEF Matched, Match, Turn
      <4> QED
        BY <4>1, MatchChanges, AgentsAssumption DEF IInv
    <3>2. CASE Quiet
      BY <3>2 DEF Quiet, bookVars
    <3> QED
      BY <1>5, <3>1, <3>2
  <2> QED
    BY <2>1, <2>2, <2>3 DEF IdsOK
<1> QED
  BY <1>1, <1>2, <1>3, <1>4, <1>5, MarketMoves

-----------------------------------------------------------------------------
(* A book with the seeds and at most one simulation.                       *)
Alone == simulations <= 1 /\ visits = 0

Sides == IF Running THEN Forced ELSE {}

(* On its own side of the center.                                          *)
Behind(side, price) ==
  IF side = "BUY" THEN price < simulation.center ELSE price > simulation.center

(* What rests stands behind the center, unless the center moves over it.   *)
RestsBehind ==
  /\ Drift >= 0 => \A p \in index["BUY"] : p < simulation.center
  /\ Drift <= 0 => \A p \in index["SELL"] : p > simulation.center

ComesFromBehind(o) ==
  /\ o.type = "LIMIT" => Behind(o.side, o.price)
  /\ o.type = "MARKET" => Running /\ (Sides # {} => o.side \in Sides)

AloneOK ==
  Alone =>
    /\ asked # None => Idle /\ (asked.kind = "CANCEL" => asked.id \in live_orders)
    /\ RestsBehind
    /\ incoming # None => ComesFromBehind(orders[incoming])
    /\ ~Running => trades = << >>
    /\ Sides # {} => \A k \in DOMAIN trades : orders[trades[k].taker].side \in Sides

(* Takers keep their sides.                                                *)
LEMMA TakersKept ==
  ASSUME IInv, [B!Next]_(B!vars), NEW S,
         \A k \in DOMAIN trades : orders[trades[k].taker].side \in S
  PROVE  \A k \in DOMAIN trades : orders'[trades[k].taker].side \in S
<1> SUFFICES ASSUME NEW k \in DOMAIN trades
             PROVE  orders'[trades[k].taker].side \in S
  OBVIOUS
<1>1. trades[k].taker \in OrderIds
  <2> DEFINE R == [maker : OrderIds, taker : OrderIds, price : Prices, quantity : Nat]
  <2>1. trades \in Seq(R)
    BY BookFacts DEF IInv, BookTyped
  <2> HIDE DEF R
  <2>2. trades[k] \in R
    BY <2>1
  <2> QED
    BY <2>2 DEF R
<1>2. orders[trades[k].taker] # NoOrder
  BY DEF IInv, TradersOK, Logged
<1> QED
  BY <1>1, <1>2, RecordKept DEF IInv

(* A side on which something crosses an order from behind the center is the
   one the center moves for; if a side is forced, it is this one.          *)
LEMMA CrossedByDrift ==
  ASSUME IInv, SimulationOK, RestsBehind, NEW o, o.side \in Side, o.type = "LIMIT",
         o.price \in Nat, Behind(o.side, o.price),
         NEW p \in index[Opposite(o.side)], Crosses(o, p)
  PROVE  /\ Running
         /\ o.side = "BUY" => Drift > 0
         /\ o.side = "SELL" => Drift < 0
         /\ Sides # {} => o.side \in Sides
<1>1. Drift \in Int /\ simulation.center \in Nat /\ p \in Nat
  <2>1. Drift \in Int
    BY ScenarioFacts DEF Drift, SimulationOK
  <2>2. index \in [Side -> SUBSET Prices] /\ Opposite(o.side) \in Side
    BY B!Types, BookAssumptions DEF IInv, BookInv, B!IInv, B!TypeOK, B!Side, Side, Opposite
  <2> QED
    BY <2>1, <2>2, BookAssumption DEF SimulationOK, ASimulation
<1>2. o.side = "BUY" => Drift > 0
  BY <1>1 DEF Behind, RestsBehind, Crosses, Opposite
<1>3. o.side = "SELL" => Drift < 0
  BY <1>1 DEF Behind, RestsBehind, Crosses, Opposite
<1>4. Running
  BY <1>2, <1>3 DEF Drift, Side
<1>5. Sides # {} => o.side \in Sides
  <2>1. simulation.scenario \in ScenarioKeys
    BY <1>4 DEF SimulationOK
  <2> QED
    BY <1>2, <1>3, <1>4, <2>1, ScenarioFacts DEF Drift, Sides, Forced, Side
<1> QED
  BY <1>2, <1>3, <1>4, <1>5

(* A turn of the matching on a book that a simulation has for itself.      *)
LEMMA AloneMatched ==
  ASSUME IInv, SimulationOK, AloneOK, Matched
  PROVE  AloneOK'
<1> SUFFICES ASSUME Alone
             PROVE  /\ asked' = None
                    /\ RestsBehind'
                    /\ (incoming # None => ComesFromBehind(orders[incoming]))'
                    /\ ~Running' => trades' = << >>
                    /\ Sides' # {} => \A k \in DOMAIN trades' :
                                         orders'[trades'[k].taker].side \in Sides'
  BY DEF AloneOK, Alone, Matched, simulationVars
<1>1. B!Match /\ [B!Next]_(B!vars)
  BY MatchMoves DEF Matched, Match, Turn, B!Next
<1>2. /\ incoming # None /\ incoming' \in {incoming, None}
      /\ orders'[incoming].price = orders[incoming].price
      /\ \A s \in Side : index'[s] \subseteq index[s] \cup
           {p \in {orders[incoming].price} :
              s = orders[incoming].side /\ orders[incoming].type = "LIMIT"}
      /\ \/ trades' = trades
         \/ \E m \in live_orders, q \in Nat \ {0},
               p \in index[Opposite(orders[incoming].side)] :
              Trades(m, q, p) /\ Crosses(orders[incoming], p)
  BY <1>1, MatchChanges DEF IInv
<1>3. /\ incoming \in OrderIds /\ orders[incoming] # NoOrder
      /\ orders[incoming].side \in Side /\ orders[incoming].type \in {"LIMIT", "MARKET"}
      /\ orders[incoming].price \in Nat
  <2>1. incoming \in OrderIds /\ orders[incoming] # NoOrder /\ orders[incoming] \in B!Order
    BY <1>2, B!IncomingFacts, BookAssumptions DEF IInv, BookInv, B!Known
  <2>2. /\ orders[incoming].side \in Side /\ orders[incoming].type \in {"LIMIT", "MARKET"}
        /\ orders[incoming].price \in Prices \cup {0}
    BY <2>1 DEF B!Order, B!Side, Side, B!OrderType, B!NoPrice
  <2>3. Prices \subseteq Nat /\ 0 \in Nat
    BY BookAssumption
  <2> QED
    BY <2>1, <2>2, <2>3
<1>4. /\ orders'[incoming].side = orders[incoming].side
      /\ orders'[incoming].type = orders[incoming].type
  BY <1>1, <1>3, RecordKept DEF IInv
<1>5. /\ simulation' = simulation /\ asked' = asked /\ Running' = Running
      /\ Drift' = Drift /\ Sides' = Sides
  BY DEF Matched, simulationVars, Running, Drift, Sides, Forced
<1>6. RestsBehind /\ ComesFromBehind(orders[incoming])
  BY <1>2 DEF AloneOK
<1>7. asked' = None
  BY <1>2, <1>5 DEF AloneOK, Idle, AtRest
<1>8. RestsBehind'
  BY <1>2, <1>3, <1>5, <1>6 DEF RestsBehind, ComesFromBehind, Behind, Side
<1>9. (incoming # None => ComesFromBehind(orders[incoming]))'
  BY <1>2, <1>4, <1>5, <1>6 DEF ComesFromBehind, Behind
<1>10. ASSUME trades' # trades
       PROVE  Running /\ (Sides # {} => orders[incoming].side \in Sides)
  <2>1. PICK p \in index[Opposite(orders[incoming].side)] : Crosses(orders[incoming], p)
    BY <1>2, <1>10
  <2>2. CASE orders[incoming].type = "MARKET"
    BY <1>6, <2>2 DEF ComesFromBehind
  <2>3. CASE orders[incoming].type = "LIMIT"
    <3>1. Behind(orders[incoming].side, orders[incoming].price)
      BY <1>6, <2>3 DEF ComesFromBehind
    <3> QED
      BY <1>3, <1>6, <2>1, <2>3, <3>1, CrossedByDrift
  <2> QED
    BY <1>3, <2>2, <2>3
<1>11. ~Running' => trades' = << >>
  BY <1>5, <1>10 DEF AloneOK
<1>12. ASSUME Sides' # {}
       PROVE  \A k \in DOMAIN trades' : orders'[trades'[k].taker].side \in Sides'
  <2>1. \A k \in DOMAIN trades : orders'[trades[k].taker].side \in Sides
    BY <1>1, <1>5, <1>12, TakersKept DEF AloneOK
  <2>2. CASE trades' = trades
    BY <1>5, <2>1, <2>2
  <2>3. ASSUME NEW m \in live_orders, NEW q \in Nat \ {0}, NEW p, Trades(m, q, p)
        PROVE  \A k \in DOMAIN trades' : orders'[trades'[k].taker].side \in Sides'
    <3> DEFINE R == [maker : OrderIds, taker : OrderIds, price : Prices, quantity : Nat]
               t == [maker |-> m, taker |-> incoming, price |-> p, quantity |-> q]
    <3>1. trades' = Append(trades, t) /\ trades \in Seq(R) /\ t \in R /\ t.taker = incoming
      BY <1>3, <2>3, BookFacts DEF Trades, IInv, BookTyped
    <3> HIDE DEF R, t
    <3>2. /\ DOMAIN trades = 1 .. Len(trades) /\ Len(trades) \in Nat
          /\ DOMAIN trades' = 1 .. Len(trades) + 1
          /\ \A k \in DOMAIN trades : trades'[k] = trades[k]
          /\ trades'[Len(trades) + 1] = t
      BY <3>1
    <3>3. orders'[incoming].side \in Sides
      <4>1. Len(trades') # Len(trades)
        BY <3>1
      <4> QED
        BY <1>4, <1>5, <1>10, <1>12, <4>1
    <3>4. \A k \in DOMAIN trades' : k \in DOMAIN trades \/ k = Len(trades) + 1
      BY <3>2
    <3> QED
      BY <1>5, <2>1, <3>1, <3>2, <3>3, <3>4
  <2> QED
    BY <1>2, <2>2, <2>3
<1> QED
  BY <1>7, <1>8, <1>9, <1>11, <1>12

(* What the simulation or the seed brings comes from behind the center.    *)
LEMMA BroughtFromBehind ==
  ASSUME IInv, SimulationOK, AskedOK, NEW c \in Command, c.kind = "NEW",
         \/ c = asked /\ asked # None
         \/ pending # << >> /\ c = Head(pending)
  PROVE  ComesFromBehind(c.order)
<1>1. simulation.center \in Nat /\ simulation.center > 0
  <2>1. Drift \in Int /\ simulation.step_number \in Nat /\ simulation.center \in Nat
    BY ScenarioFacts DEF Drift, SimulationOK, ASimulation
  <2>2. simulation.center >= LowestCenter
    BY <2>1, DriftedOn DEF SimulationOK
  <2> QED
    BY <2>1, <2>2 DEF LowestCenter
<1>2. c.order.side \in Side
  BY DEF Command, NewCommand, CancelCommand, ModifyCommand
<1>3. CASE c = asked /\ asked # None
  <2>1. Running /\ MadeUp(c.order, simulation.center, Forced)
    BY <1>3 DEF AskedOK
  <2>2. ASSUME c.order.type = "LIMIT"
        PROVE  Behind(c.order.side, c.order.price)
    <3>1. PICK d \in NoiseOffsets \cup MakerOffsets :
            c.order.price = Quoted(c.order.side, simulation.center, d)
      BY <2>1, <2>2 DEF MadeUp
    <3>2. d \in Nat /\ d > 0
      BY <3>1, OffsetsAssumption
    <3> QED
      BY <1>1, <1>2, <3>1, <3>2 DEF Quoted, Behind, Side, NoPrice
  <2> QED
    BY <2>1, <2>2 DEF ComesFromBehind, MadeUp, Sides
<1>4. CASE pending # << >> /\ c = Head(pending)
  <2>1. c \in SeedSet
    BY <1>4 DEF SimulationOK
  <2>2. /\ c.order.type = "LIMIT"
        /\ IF c.order.side = "BUY" THEN c.order.price < Opening ELSE c.order.price > Opening
    BY <2>1, SeedsAssumption DEF SeedSet
  <2>3. simulation.center = Opening
    <3>1. Drift \in Int /\ simulation.step_number = 0
      BY <1>4, ScenarioFacts DEF Drift, SimulationOK
    <3> QED
      BY <3>1, DriftedOn DEF SimulationOK
  <2> QED
    BY <2>2, <2>3 DEF ComesFromBehind, Behind
<1> QED
  BY <1>3, <1>4

(* A command on a book that a simulation has for itself.                   *)
LEMMA AloneCommanded ==
  ASSUME IInv, SimulationOK, AskedOK, AloneOK, NEW c \in Command, Commanded(c)
  PROVE  AloneOK'
<1> SUFFICES ASSUME Alone'
             PROVE  /\ asked' = None
                    /\ RestsBehind'
                    /\ (incoming # None => ComesFromBehind(orders[incoming]))'
                    /\ ~Running' => trades' = << >>
                    /\ Sides' # {} => \A k \in DOMAIN trades' :
                                         orders'[trades'[k].taker].side \in Sides'
  BY DEF AloneOK
<1>1. /\ [B!Next]_(B!vars) /\ simulation' = simulation
      /\ Running' = Running /\ Drift' = Drift /\ Sides' = Sides
  BY MarketBook DEF Commanded, Running, Drift, Sides, Forced
<1>2. /\ Alone
      /\ \/ c = asked /\ asked # None /\ asked' = None
         \/ pending # << >> /\ c = Head(pending) /\ asked' = asked
  <2>1. ASSUME visits' = Smaller(visits + 1, MaxCompany)
        PROVE  FALSE
    <3>1. visits' > 0 /\ visits' = 0
      BY <2>1, VisitsCount DEF Alone
    <3> QED
      BY <3>1
  <2>2. simulations' = simulations
    BY DEF Commanded
  <2> QED
    BY <2>1, <2>2 DEF Commanded, Alone
<1>3. asked' = None
  BY <1>2 DEF AloneOK, Idle
<1>4. /\ trades' = trades
      /\ \A s \in Side : index'[s] \subseteq index[s]
      /\ incoming' # None =>
           \/ /\ c.kind = "NEW" /\ incoming' = c.id
              /\ orders'[c.id] = B!NewOrder(c.order, "ACCEPTED", sequence + 1)
           \/ c.kind = "MODIFY"
  BY CommandChanges DEF IInv, Commanded
<1>5. c.kind # "MODIFY"
  <2>1. CASE pending # << >> /\ c = Head(pending)
    <3>1. c \in NewCommand
      BY <2>1 DEF IInv, Typed
    <3> QED
      BY <3>1 DEF NewCommand
  <2> QED
    BY <1>2, <2>1 DEF AskedOK
<1>6. RestsBehind'
  BY <1>1, <1>2, <1>4 DEF AloneOK, RestsBehind, Side
<1>7. (incoming # None => ComesFromBehind(orders[incoming]))'
  <2> SUFFICES ASSUME incoming' # None
               PROVE  (ComesFromBehind(orders[incoming]))'
    OBVIOUS
  <2>1. /\ c.kind = "NEW" /\ incoming' = c.id
        /\ orders'[c.id] = B!NewOrder(c.order, "ACCEPTED", sequence + 1)
    BY <1>4, <1>5
  <2>2. /\ orders'[c.id].side = c.order.side /\ orders'[c.id].type = c.order.type
        /\ orders'[c.id].price = c.order.price
    BY <2>1 DEF B!NewOrder
  <2>3. ComesFromBehind(c.order)
    BY <1>2, <2>1, BroughtFromBehind
  <2> QED
    BY <1>1, <2>1, <2>2, <2>3 DEF ComesFromBehind, Behind
<1>8. ~Running' => trades' = << >>
  BY <1>1, <1>2, <1>4 DEF AloneOK
<1>9. ASSUME Sides' # {}
      PROVE  \A k \in DOMAIN trades' : orders'[trades'[k].taker].side \in Sides'
  <2>1. \A k \in DOMAIN trades : orders'[trades[k].taker].side \in Sides
    BY <1>1, <1>2, <1>9, TakersKept DEF AloneOK
  <2> QED
    BY <1>1, <1>4, <2>1
<1> QED
  BY <1>3, <1>6, <1>7, <1>8, <1>9

(* And every other step.                                                   *)
LEMMA AloneStep ==
  ASSUME IInv, SimulationOK, AskedOK, AloneOK, [MarketNext]_marketVars
  PROVE  AloneOK'
<1>1. CASE Cleared
  <2>1. /\ asked' = None /\ incoming' = None /\ trades' = << >>
        /\ \A s \in Side : index'[s] = {}
    BY <1>1 DEF Cleared, Reset, Idle, AtRest
  <2>2. DOMAIN trades' = {}
    BY <2>1
  <2> QED
    BY <2>1, <2>2 DEF AloneOK, RestsBehind, Side
<1>2. ASSUME NEW key \in ScenarioKeys, StartOn(key)
      PROVE  AloneOK'
  <2>1. /\ asked' = None /\ Idle /\ simulation' = Begun(key)
        /\ simulations' = simulations + 1 /\ UNCHANGED <<vars, visits>>
    BY <1>2 DEF StartOn
  <2> SUFFICES ASSUME Alone'
               PROVE  RestsBehind' /\ incoming' = None /\ trades' = << >>
    BY <2>1 DEF AloneOK
  <2>2. simulations = 0 /\ Alone
    BY <2>1 DEF SimulationOK, Alone
  <2>3. simulation = NoSimulation
    BY <2>2 DEF SimulationOK, Running
  <2>4. simulation.center = Opening /\ simulation'.center = Opening
    BY <2>1, <2>3, BegunFacts
  <2>5. RestsBehind /\ trades = << >> /\ Drift = 0
    BY <2>2, <2>3 DEF AloneOK, Running, Drift
  <2>6. RestsBehind'
    BY <2>1, <2>4, <2>5 DEF RestsBehind, vars, bookVars
  <2> QED
    BY <2>1, <2>5, <2>6 DEF Idle, AtRest, vars, bookVars
<1>3. CASE NextCommand
  <2>1. /\ Idle' /\ incoming' = None /\ asked = None
        /\ UNCHANGED <<orders, live_orders, index, trades, simulations, visits>>
        /\ Running /\ Running' /\ Drift' = Drift /\ Drift \in Int /\ Sides' = Sides
        /\ simulation'.step_number = simulation.step_number + 1
        /\ simulation'.center = Drifted(simulation.center, Drift)
        /\ asked'.kind = "CANCEL" => asked'.id \in live_orders
    BY <1>3, CommandMade
    DEF vars, bookVars, gatewayVars, Idle, AtRest, CancelOf, Sides, Forced
  <2> SUFFICES ASSUME Alone'
               PROVE  RestsBehind'
    BY <2>1 DEF AloneOK, Alone, Sides, Forced
  <2>2. RestsBehind
    BY <2>1 DEF AloneOK, Alone
  <2> DEFINE n == simulation.step_number
  <2>3. /\ simulation.center = Drifted(Opening, Drift * n) /\ n \in Nat
        /\ simulation.center \in Nat
    BY DEF SimulationOK, ASimulation
  <2> HIDE DEF n
  <2>4. /\ simulation'.center \in Int
        /\ Drift >= 0 => simulation'.center >= simulation.center
        /\ Drift <= 0 => simulation'.center <= simulation.center
    <3>1. /\ Drifted(Drifted(Opening, Drift * n), Drift) = Drifted(Opening, Drift * (n + 1))
          /\ Drifted(Opening, Drift * (n + 1)) \in Int
          /\ Drift >= 0 => Drifted(Opening, Drift * (n + 1)) >= Drifted(Opening, Drift * n)
          /\ Drift <= 0 => Drifted(Opening, Drift * (n + 1)) <= Drifted(Opening, Drift * n)
      <4>1. n + 1 \in Nat
        BY <2>3
      <4>2. Drift \in Int /\ n \in Nat
        BY <2>1, <2>3
      <4>3. /\ Drifted(Drifted(Opening, Drift * n), Drift) = Drifted(Opening, Drift * (n + 1))
            /\ Drift >= 0 => Drifted(Opening, Drift * (n + 1)) >= Drifted(Opening, Drift * n)
            /\ Drift <= 0 => Drifted(Opening, Drift * (n + 1)) <= Drifted(Opening, Drift * n)
        BY <4>2, DriftedOn, Zenon
      <4>4. Drifted(Opening, Drift * (n + 1)) \in Nat
        BY <4>1, <4>2, DriftedOn, Zenon
      <4> QED
        BY <4>3, <4>4
    <3> QED
      BY <2>1, <2>3, <3>1
  <2>5. \A s \in Side : index[s] \subseteq Nat
    <3>1. index \in [Side -> SUBSET Prices] /\ Prices \subseteq Nat
      BY BookAssumption, B!Types, BookAssumptions
      DEF IInv, BookInv, B!IInv, B!TypeOK, B!Side, Side
    <3> QED
      BY <3>1
  <2> QED
    BY <2>1, <2>2, <2>3, <2>4, <2>5 DEF RestsBehind, Side
<1>4. ASSUME NEW c \in Command, Commanded(c)
      PROVE  AloneOK'
  BY <1>4, AloneCommanded
<1>5. CASE Matched
  BY <1>5, AloneMatched
<1>6. CASE Quiet
  <2>1. /\ UNCHANGED <<orders, live_orders, index, trades, incoming, pending, simulation,
                       asked, simulations>>
        /\ settled' = settled \/ settled < Len(trades)
        /\ visits' = visits \/ visits' > 0
    BY <1>6, VisitsCount DEF Quiet, bookVars
  <2> SUFFICES ASSUME Alone'
               PROVE  /\ asked # None => Idle' /\ (asked.kind = "CANCEL" => asked.id \in live_orders)
                      /\ RestsBehind'
                      /\ incoming # None => (ComesFromBehind(orders[incoming]))'
                      /\ ~Running => trades = << >>
                      /\ Sides # {} => \A k \in DOMAIN trades : orders[trades[k].taker].side \in Sides
    BY <2>1 DEF AloneOK, Running, Sides, Forced
  <2>2. Alone
    BY <2>1 DEF Alone
  <2>3. asked # None => Idle'
    BY <2>1, <2>2 DEF AloneOK, Idle, AtRest
  <2>4. /\ RestsBehind' <=> RestsBehind
        /\ incoming # None =>
             ((ComesFromBehind(orders[incoming]))' <=> ComesFromBehind(orders[incoming]))
    BY <2>1 DEF RestsBehind, ComesFromBehind, Behind, Drift, Running, Sides, Forced
  <2> QED
    BY <2>2, <2>3, <2>4 DEF AloneOK
<1> QED
  BY <1>1, <1>2, <1>3, <1>4, <1>5, <1>6, MarketMoves

-----------------------------------------------------------------------------
(* The events that are scanned.                                            *)

(* The trades that were reported of a taker.                               *)
Sold(id) == {e \in events : e.type = "TRADE_EXECUTED" /\ e.id = id}

Quantities(S) == [e \in S |-> e.quantity]

(* An event is about a recorded order and has a number of the past; what is
   told of an account is of the one that placed the order.                 *)
EventOK(e) ==
  /\ e.id \in OrderIds /\ orders[e.id] # NoOrder
  /\ e.sequence \in 1 .. sequence
  /\ e.type \in {"ORDER_ACCEPTED", "TRADE_EXECUTED"} => e.account = orders[e.id].account
  /\ e.type = "TRADE_EXECUTED" => e.quantity \in Nat
  /\ e.type = "ORDER_CANCELLED" => orders[e.id].status = "CANCELLED"

(* No more was reported traded than an order has filled, and no order is
   cancelled twice.                                                        *)
EventsOK ==
  /\ IsFiniteSet(events)
  /\ \A e \in events : EventOK(e)
  /\ \A e, f \in events :
       e.type = "ORDER_CANCELLED" /\ f.type = "ORDER_CANCELLED" /\ e.id = f.id => e = f
  /\ \A id \in OrderIds : orders[id] # NoOrder =>
       Total(Quantities(Sold(id)), Sold(id)) <= orders[id].filled
  /\ incoming # None => orders[incoming].status # "CANCELLED"

(* What is reported traded of an order can be added up.                    *)
LEMMA SoldFacts ==
  ASSUME EventsOK, NEW S \in SUBSET events, \A e \in S : e.type = "TRADE_EXECUTED"
  PROVE  /\ IsFiniteSet(S)
         /\ \A e \in S : Quantities(S)[e] \in Nat
         /\ Total(Quantities(S), S) \in Nat
<1>1. IsFiniteSet(S)
  BY FS_Subset DEF EventsOK
<1>2. \A e \in S : Quantities(S)[e] \in Nat
  BY DEF EventsOK, EventOK, Quantities
<1> QED
  BY <1>1, <1>2, TotalNat

(* One more trade adds its quantity.                                       *)
LEMMA OneMoreSold ==
  ASSUME EventsOK, NEW S \in SUBSET events, \A e \in S : e.type = "TRADE_EXECUTED",
         NEW x, x \notin S, x.quantity \in Nat
  PROVE  Total(Quantities(S \cup {x}), S \cup {x}) = x.quantity + Total(Quantities(S), S)
<1> DEFINE f == Quantities(S \cup {x})
           g == Quantities(S)
<1>1. IsFiniteSet(S) /\ \A e \in S : g[e] \in Nat
  BY SoldFacts
<1>2. f[x] = x.quantity /\ \A e \in S : f[e] = g[e]
  BY DEF Quantities
<1> HIDE DEF f, g
<1>3. Total(f, S \cup {x}) = f[x] + Total(f, S)
  <2>1. f[x] \in Int /\ \A e \in S : f[e] \in Int
    BY <1>1, <1>2
  <2> QED
    BY <1>1, <2>1, TotalAdd
<1>4. Total(f, S) = Total(g, S)
  <2>1. \A e \in S : g[e] \in Int
    BY <1>1
  <2> QED
    BY <1>1, <1>2, <2>1, TotalSame
<1> QED
  BY <1>2, <1>3, <1>4 DEF f, g

(* Past events stay right while the book moves.                            *)
LEMMA PastEvents ==
  ASSUME IInv, EventsOK, [B!Next]_(B!vars), sequence' \in Nat, sequence <= sequence',
         NEW e \in events
  PROVE  (EventOK(e))'
<1>1. e.id \in OrderIds /\ orders[e.id] # NoOrder /\ e.sequence \in 1 .. sequence
  BY DEF EventsOK, EventOK
<1>2. orders'[e.id] # NoOrder /\ orders'[e.id].account = orders[e.id].account
  BY <1>1, RecordKept DEF IInv
<1>3. e.sequence \in 1 .. sequence'
  <2>1. sequence \in Nat
    BY DEF IInv, BookInv, B!IInv, B!TypeOK
  <2> QED
    BY <1>1, <2>1
<1>4. e.type = "ORDER_CANCELLED" => orders'[e.id].status = "CANCELLED"
  <2> SUFFICES ASSUME e.type = "ORDER_CANCELLED"
               PROVE  orders'[e.id].status = "CANCELLED"
    OBVIOUS
  <2>1. orders[e.id].status = "CANCELLED" /\ e.id # incoming
    BY <1>1, BookAssumption DEF EventsOK, EventOK
  <2> QED
    BY <1>1, <2>1, CancelledStays DEF IInv
<1> QED
  BY <1>1, <1>2, <1>3, <1>4 DEF EventsOK, EventOK

(* What a command reports before its first trade.                          *)
LEMMA CommandReports ==
  ASSUME IInv, IInv', NEW c \in Command, Commanded(c), sequence < sequence'
  PROVE  /\ \A e, f \in CommandEvents(c) : e = f
         /\ IsFiniteSet(CommandEvents(c))
         /\ \A e \in CommandEvents(c) :
              /\ (EventOK(e))' /\ e.sequence = sequence + 1
              /\ e.type # "TRADE_EXECUTED"
              /\ e.type = "ORDER_CANCELLED" => orders[e.id].status # "CANCELLED"
<1>1. /\ sequence \in Nat /\ sequence' \in Nat /\ sequence + 1 \in 1 .. sequence'
      /\ orders \in B!Orders /\ c.id \in OrderIds
  <2>1. sequence \in Nat /\ sequence' \in Nat /\ orders \in B!Orders
    BY B!Types, BookAssumptions DEF IInv, BookInv, B!IInv, B!TypeOK
  <2>2. c.id \in OrderIds
    BY DEF Command, NewCommand, CancelCommand, ModifyCommand
  <2> QED
    BY <2>1, <2>2
<1>2. CASE c.kind = "NEW" /\ incoming' = c.id
  <2>0. PICK e : e = Acceptance(c.id, c.order)
    OBVIOUS
  <2>1. CommandEvents(c) = {e}
    BY <1>2, <2>0 DEF CommandEvents
  <2>2. /\ e.type = "ORDER_ACCEPTED" /\ e.id = c.id /\ e.sequence = sequence + 1
        /\ e.account = c.order.account
    BY <2>0 DEF Acceptance
  <2>3. orders'[c.id] = B!NewOrder(c.order, "ACCEPTED", sequence + 1)
    <3>1. incoming' # None
      BY <1>1, <1>2, BookAssumption
    <3> QED
      BY <1>2, <3>1, CommandChanges DEF IInv, Commanded
  <2>4. orders'[c.id].account = c.order.account
    BY <2>3 DEF B!NewOrder
  <2>5. orders'[c.id] # NoOrder
    <3>1. incoming' # None
      BY <1>1, <1>2, BookAssumption
    <3> QED
      BY <1>2, <3>1, BookFactsPrimed DEF IInv, BookTyped
  <2>6. (EventOK(e))'
    BY <1>1, <2>2, <2>4, <2>5 DEF EventOK
  <2>7. IsFiniteSet({e})
    BY FS_Singleton
  <2> QED
    BY <2>1, <2>2, <2>6, <2>7
<1>3. CASE c.kind = "CANCEL" /\ Book!MayTouch(c.id, c.who)
  <2>0. PICK e : e = Cancellation(c.id)
    OBVIOUS
  <2>1. CommandEvents(c) = {e}
    BY <1>3, <2>0 DEF CommandEvents
  <2>2. e.type = "ORDER_CANCELLED" /\ e.id = c.id /\ e.sequence = sequence + 1
    BY <2>0 DEF Cancellation
  <2>3. c.id \in live_orders /\ Book!Cancel(c.id, c.who)
    BY <1>3 DEF Commanded, Process, Book!MayTouch, Book!RejectCancel
  <2>4. orders[c.id] # NoOrder /\ orders[c.id].status # "CANCELLED" /\ orders[c.id] \in B!Order
    <3>1. orders[c.id] # NoOrder /\ orders[c.id] \in B!Order
      BY <2>3, B!LiveFacts, BookAssumptions DEF IInv, BookInv, B!Known
    <3>2. orders[c.id].status \notin B!Terminal
      BY <1>1, <2>3, <3>1 DEF IInv, BookInv, B!IInv, B!OrdersOK, B!Known
    <3> QED
      BY <3>1, <3>2 DEF B!Terminal
  <2>5. orders'[c.id] # NoOrder /\ orders'[c.id].status = "CANCELLED"
    <3> DEFINE new == [orders[c.id] EXCEPT !.status = "CANCELLED"]
    <3>1. orders' = [orders EXCEPT ![c.id] = new]
      BY <2>3 DEF Book!Cancel
    <3>2. new \in B!Order /\ new.status = "CANCELLED"
      BY <2>4 DEF B!Order, B!OrderStatus
    <3> HIDE DEF new
    <3>3. orders'[c.id] = new
      BY <1>1, <3>1 DEF B!Orders
    <3> QED
      BY <3>2, <3>3, BookAssumptions DEF B!SentinelsAssumption
  <2>6. (EventOK(e))'
    BY <1>1, <2>2, <2>5 DEF EventOK
  <2>7. IsFiniteSet({e})
    BY FS_Singleton
  <2> QED
    BY <2>1, <2>2, <2>4, <2>6, <2>7
<1>4. CASE c.kind = "MODIFY" /\ Book!Modifiable(c.id, c.who, c.quantity, c.price)
  <2>0. PICK e : e = Modification(c.id)
    OBVIOUS
  <2>1. CommandEvents(c) = {e}
    BY <1>4, <2>0 DEF CommandEvents
  <2>2. e.type = "ORDER_MODIFIED" /\ e.id = c.id /\ e.sequence = sequence + 1
    BY <2>0 DEF Modification
  <2>3. orders[c.id] # NoOrder
    BY <1>4, BookFacts DEF IInv, BookTyped, Book!Modifiable, Book!MayTouch
  <2>4. orders'[c.id] # NoOrder
    BY <1>1, <2>3, MarketBook, RecordKept DEF IInv
  <2>5. (EventOK(e))'
    BY <1>1, <2>2, <2>4 DEF EventOK
  <2>6. IsFiniteSet({e})
    BY FS_Singleton
  <2> QED
    BY <2>1, <2>2, <2>5, <2>6
<1>5. CASE /\ ~(c.kind = "NEW" /\ incoming' = c.id)
           /\ ~(c.kind = "CANCEL" /\ Book!MayTouch(c.id, c.who))
           /\ ~(c.kind = "MODIFY" /\ Book!Modifiable(c.id, c.who, c.quantity, c.price))
  <2>1. CommandEvents(c) = {}
    BY <1>5 DEF CommandEvents
  <2> QED
    BY <2>1, FS_EmptySet
<1> QED
  BY <1>2, <1>3, <1>4, <1>5

(* Reports of anything but a trade are no news to what orders have filled. *)
LEMMA NothingSold ==
  ASSUME IInv, IInv', EventsOK, [B!Next]_(B!vars), sequence <= sequence', NEW N,
         events' = events \cup N, \A e, f \in N : e = f, IsFiniteSet(N),
         \A e \in N : /\ (EventOK(e))' /\ e.type # "TRADE_EXECUTED"
                      /\ e.type = "ORDER_CANCELLED" => orders[e.id].status # "CANCELLED",
         incoming' # None => orders'[incoming'].status # "CANCELLED"
  PROVE  EventsOK'
<1>1. sequence' \in Nat
  BY DEF IInv, BookInv, B!IInv, B!TypeOK
<1>2. \A e \in events' : (EventOK(e))'
  BY <1>1, PastEvents
<1>3. IsFiniteSet(events')
  BY FS_Union DEF EventsOK
<1>4. ASSUME NEW e \in events', NEW f \in events', e.type = "ORDER_CANCELLED",
             f.type = "ORDER_CANCELLED", e.id = f.id
      PROVE  e = f
  BY <1>4 DEF EventsOK, EventOK
<1>5. \A id : (Sold(id))' = Sold(id)
  BY DEF Sold
<1>6. ASSUME NEW id \in OrderIds, orders'[id] # NoOrder
      PROVE  (Total(Quantities(Sold(id)), Sold(id)) <= orders[id].filled)'
  <2> DEFINE S == Sold(id)
             sold == Total(Quantities(S), S)
  <2>1. (sold <= orders[id].filled)' <=> sold <= orders'[id].filled
    BY <1>5 DEF Quantities
  <2>2. sold \in Nat
    <3>1. S \in SUBSET events /\ \A e \in S : e.type = "TRADE_EXECUTED"
      BY DEF Sold
    <3> HIDE DEF S
    <3> QED
      BY <3>1, SoldFacts
  <2>3. CASE orders[id] # NoOrder
    <3>1. sold <= orders[id].filled
      BY <2>3 DEF EventsOK
    <3>2. /\ orders[id].filled \in Nat /\ orders'[id].filled \in Nat
          /\ orders[id].filled <= orders'[id].filled
      BY <2>3, RecordKept DEF IInv
    <3> HIDE DEF sold
    <3>3. sold <= orders'[id].filled
      BY <2>2, <3>1, <3>2
    <3> QED
      BY <2>1, <3>3 DEF sold
  <2>4. CASE orders[id] = NoOrder
    <3>1. S = {}
      BY <2>4 DEF Sold, EventsOK, EventOK
    <3>2. sold = 0
      BY <3>1, TotalEmpty
    <3>3. orders'[id].filled \in Nat
      <4>1. orders'[id] \in B!Order
        <5>1. orders' \in [OrderIds -> B!Order \cup {NoOrder}]
          BY DEF IInv, BookInv, B!IInv, B!TypeOK
        <5> QED
          BY <1>6, <5>1
      <4> QED
        BY <4>1 DEF B!Order
    <3> HIDE DEF sold
    <3>4. sold <= orders'[id].filled
      BY <3>2, <3>3
    <3> QED
      BY <2>1, <3>4 DEF sold
  <2> QED
    BY <2>3, <2>4
<1> QED
  BY <1>2, <1>3, <1>4, <1>6 DEF EventsOK

(* A trade is reported with what it fills.                                 *)
LEMMA TradeReported ==
  ASSUME IInv, IInv', EventsOK, B!Match, sequence < sequence',
         events' = events \cup MatchEvents,
         NEW m \in live_orders, NEW q \in Nat \ {0}, NEW p, Trades(m, q, p),
         orders'[incoming].filled = orders[incoming].filled + q,
         orders'[incoming].status # "CANCELLED", incoming' \in {incoming, None},
         \A id \in OrderIds : orders[id] = NoOrder => orders'[id] = NoOrder
  PROVE  EventsOK'
<1> DEFINE t == [maker |-> m, taker |-> incoming, price |-> p, quantity |-> q]
<1>0. PICK ev : ev = [type |-> "TRADE_EXECUTED", id |-> incoming, sequence |-> sequence + 1,
                      account |-> orders[incoming].account, price |-> p, quantity |-> q]
  OBVIOUS
<1>1. /\ sequence \in Nat /\ sequence' \in Nat /\ [B!Next]_(B!vars)
      /\ incoming \in OrderIds /\ orders[incoming] # NoOrder
  <2>1. sequence \in Nat /\ sequence' \in Nat
    BY DEF IInv, BookInv, B!IInv, B!TypeOK
  <2>2. incoming \in OrderIds /\ orders[incoming] # NoOrder
    BY BookFacts DEF IInv, BookTyped, Trades
  <2> QED
    BY <2>1, <2>2 DEF B!Next
<1>2. MatchEvents = {ev}
  <2> DEFINE R == [maker : OrderIds, taker : OrderIds, price : Prices, quantity : Nat]
  <2>1. trades \in Seq(R) /\ trades' = Append(trades, t)
    BY BookFacts DEF IInv, BookTyped, Trades
  <2>2. t \in R
    BY <1>1, BookFacts DEF IInv, BookTyped, Trades
  <2> HIDE DEF R
  <2>3. trades' # trades /\ trades'[Len(trades')] = t
    <3> HIDE DEF t
    <3>1. Len(trades') = Len(trades) + 1 /\ Len(trades) \in Nat
          /\ trades'[Len(trades) + 1] = t
      BY <2>1, <2>2
    <3>2. trades' # trades
      BY <3>1
    <3> QED
      BY <3>1, <3>2
  <2>4. TradeReport(t) = ev
    BY <1>0 DEF TradeReport
  <2> HIDE DEF t
  <2> QED
    BY <2>3, <2>4 DEF MatchEvents
<1>3. /\ ev.type = "TRADE_EXECUTED" /\ ev.id = incoming /\ ev.sequence = sequence + 1
      /\ ev.account = orders[incoming].account /\ ev.quantity = q
  BY <1>0
<1>4. (EventOK(ev))'
  <2>1. /\ orders'[incoming] # NoOrder
        /\ orders'[incoming].account = orders[incoming].account
    BY <1>1, RecordKept DEF IInv
  <2>2. sequence + 1 \in 1 .. sequence'
    BY <1>1
  <2> QED
    BY <1>1, <1>3, <2>1, <2>2 DEF EventOK
<1>5. \A e \in events' : (EventOK(e))'
  BY <1>1, <1>2, <1>4, PastEvents
<1>6. IsFiniteSet(events')
  BY <1>2, FS_AddElement DEF EventsOK
<1>7. \A e, f \in events' :
        e.type = "ORDER_CANCELLED" /\ f.type = "ORDER_CANCELLED" /\ e.id = f.id => e = f
  BY <1>2, <1>3 DEF EventsOK
<1>8. incoming' # None => orders'[incoming'].status # "CANCELLED"
  OBVIOUS
<1>9. ASSUME NEW id \in OrderIds, orders'[id] # NoOrder
      PROVE  (Total(Quantities(Sold(id)), Sold(id)) <= orders[id].filled)'
  <2> DEFINE S == Sold(id)
             sold == Total(Quantities(S), S)
  <2>1. /\ orders[id] # NoOrder /\ orders[id].filled \in Nat /\ orders'[id].filled \in Nat
        /\ orders[id].filled <= orders'[id].filled
    BY <1>1, <1>9, RecordKept DEF IInv
  <2>2. sold <= orders[id].filled
    BY <2>1 DEF EventsOK
  <2>3. S \in SUBSET events /\ (\A e \in S : e.type = "TRADE_EXECUTED") /\ ev \notin S
    BY <1>1, <1>3 DEF Sold, EventsOK, EventOK
  <2>4. S' = IF id = incoming THEN S \cup {ev} ELSE S
    BY <1>2, <1>3 DEF Sold
  <2> HIDE DEF S
  <2>5. sold \in Nat
    BY <2>3, SoldFacts
  <2>6. CASE id # incoming
    <3>1. sold' = sold
      BY <2>4, <2>6 DEF Quantities
    <3> HIDE DEF sold
    <3>2. sold <= orders'[id].filled
      BY <2>1, <2>2, <2>5
    <3> QED
      BY <3>1, <3>2 DEF sold, S
  <2>7. CASE id = incoming
    <3>1. sold' = Total(Quantities(S \cup {ev}), S \cup {ev})
      BY <2>4, <2>7 DEF Quantities
    <3>2. Total(Quantities(S \cup {ev}), S \cup {ev}) = q + sold
      <4>1. ev.quantity \in Nat
        BY <1>3
      <4> QED
        BY <1>3, <2>3, <4>1, OneMoreSold
    <3> HIDE DEF sold
    <3>3. q + sold <= orders'[id].filled
      BY <2>1, <2>2, <2>5, <2>7
    <3>4. sold' <= orders'[id].filled
      BY <3>1, <3>2, <3>3
    <3> QED
      BY <3>4 DEF sold, S
  <2> QED
    BY <2>6, <2>7
<1> QED
  BY <1>5, <1>6, <1>7, <1>8, <1>9 DEF EventsOK

(* The events stay right after every step.                                 *)
LEMMA EventsStep ==
  ASSUME IInv, IInv', AskedOK, EventsOK, [MarketNext]_marketVars
  PROVE  EventsOK'
<1>1. sequence \in Nat /\ sequence' \in Nat
  BY DEF IInv, BookInv, B!IInv, B!TypeOK
<1>2. CASE Cleared
  <2>1. /\ events' = {} /\ incoming' = None /\ IsFiniteSet({})
        /\ \A id \in OrderIds : orders'[id] = NoOrder
    BY <1>2, FS_EmptySet DEF Cleared, Reset, Idle, AtRest
  <2> QED
    BY <2>1 DEF EventsOK
<1>3. ASSUME UNCHANGED <<orders, incoming, sequence, events>>
      PROVE  EventsOK'
  <2>1. \A id : (Sold(id))' = Sold(id)
    BY <1>3 DEF Sold
  <2>2. \A e \in events : (EventOK(e))' <=> EventOK(e)
    BY <1>3 DEF EventOK
  <2>3. \A id : (Total(Quantities(Sold(id)), Sold(id)))' = Total(Quantities(Sold(id)), Sold(id))
    BY <2>1 DEF Quantities
  <2> QED
    BY <1>3, <2>2, <2>3 DEF EventsOK
<1>4. ASSUME (\E key \in ScenarioKeys : StartOn(key)) \/ NextCommand \/ Quiet
      PROVE  EventsOK'
  <2>1. UNCHANGED <<orders, incoming, sequence, events>>
    BY <1>4 DEF StartOn, NextCommand, Quiet, vars, bookVars
  <2> QED
    BY <1>3, <2>1
<1>5. ASSUME NEW c \in Command, Commanded(c)
      PROVE  EventsOK'
  <2>1. [B!Next]_(B!vars) /\ sequence < sequence'
    BY <1>1, <1>5, MarketBook, ProcessMoves, CommandsNumberEvents DEF Commanded
  <2>2. /\ events' = events \cup CommandEvents(c)
        /\ \A e, f \in CommandEvents(c) : e = f
        /\ IsFiniteSet(CommandEvents(c))
        /\ \A e \in CommandEvents(c) :
              /\ (EventOK(e))' /\ e.type # "TRADE_EXECUTED"
              /\ e.type = "ORDER_CANCELLED" => orders[e.id].status # "CANCELLED"
    BY <1>5, <2>1, CommandReports DEF Commanded
  <2>3. incoming' # None => orders'[incoming'].status # "CANCELLED"
    <3>1. B!NewOrder(c.order, "ACCEPTED", sequence + 1).status = "ACCEPTED"
      BY DEF B!NewOrder
    <3>2. incoming' # None =>
             \/ incoming' = c.id /\ orders'[c.id] = B!NewOrder(c.order, "ACCEPTED", sequence + 1)
             \/ incoming' = c.id /\ orders'[c.id].status # "CANCELLED"
      BY <1>5, CommandChanges DEF IInv, Commanded
    <3> QED
      BY <3>1, <3>2
  <2>4. sequence <= sequence'
    BY <1>1, <2>1
  <2> QED
    BY <2>1, <2>2, <2>3, <2>4, NothingSold
<1>6. CASE Matched
  <2>1. /\ B!Match /\ [B!Next]_(B!vars) /\ events' = events \cup MatchEvents
    BY <1>6, MatchMoves DEF Matched, Match, Turn, B!Next
  <2>2. /\ incoming # None /\ incoming' \in {incoming, None}
        /\ \A id \in OrderIds : orders[id] = NoOrder => orders'[id] = NoOrder
        /\ sequence < sequence'
        /\ \/ trades' = trades /\ orders'[incoming] = orders[incoming] /\ incoming' = None
           \/ /\ trades' = trades /\ incoming' = None
              /\ orders'[incoming] = [orders[incoming] EXCEPT !.status = "CANCELLED"]
           \/ \E p : \E m \in live_orders, q \in Nat \ {0} :
                /\ Trades(m, q, p)
                /\ orders'[incoming].filled = orders[incoming].filled + q
                /\ orders'[incoming].status # "CANCELLED"
    BY <2>1, MatchChanges DEF IInv
  <2>3. /\ orders[incoming].status # "CANCELLED" /\ incoming \in OrderIds
        /\ orders[incoming] # NoOrder /\ sequence <= sequence'
    BY <1>1, <2>2, BookFacts DEF EventsOK, IInv, BookTyped
  <2>4. CASE trades' = trades /\ orders'[incoming] = orders[incoming] /\ incoming' = None
    <3>1. MatchEvents = {} /\ IsFiniteSet({})
      BY <2>3, <2>4, FS_EmptySet DEF MatchEvents
    <3> QED
      BY <2>1, <2>3, <2>4, <3>1, NothingSold
  <2>5. CASE /\ trades' = trades /\ incoming' = None
             /\ orders'[incoming] = [orders[incoming] EXCEPT !.status = "CANCELLED"]
    <3>0. PICK e : e = Cancellation(incoming)
      OBVIOUS
    <3>1. e.type = "ORDER_CANCELLED" /\ e.id = incoming /\ e.sequence = sequence + 1
      BY <3>0 DEF Cancellation
    <3>2. orders'[incoming] # NoOrder /\ orders'[incoming].status = "CANCELLED"
      <4>1. orders'[incoming] # NoOrder
        BY <2>1, <2>3, RecordKept DEF IInv
      <4>2. orders[incoming] \in B!Order
        BY <2>2, B!IncomingFacts, BookAssumptions DEF IInv, BookInv
      <4> QED
        BY <2>5, <4>1, <4>2 DEF B!Order
    <3>3. MatchEvents = {e} /\ IsFiniteSet({e})
      BY <2>5, <3>0, <3>2, FS_Singleton DEF MatchEvents
    <3>4. (EventOK(e))'
      <4>1. sequence + 1 \in 1 .. sequence'
        BY <1>1, <2>2
      <4> QED
        BY <2>3, <3>1, <3>2, <4>1 DEF EventOK
    <3> QED
      BY <2>1, <2>3, <2>5, <3>1, <3>3, <3>4, NothingSold
  <2>6. ASSUME NEW m \in live_orders, NEW q \in Nat \ {0}, NEW p, Trades(m, q, p),
               orders'[incoming].filled = orders[incoming].filled + q,
               orders'[incoming].status # "CANCELLED"
        PROVE  EventsOK'
    BY <2>1, <2>2, <2>6, TradeReported
  <2> QED
    BY <2>2, <2>4, <2>5, <2>6
<1> QED
  BY <1>2, <1>4, <1>5, <1>6, MarketMoves

(* What is left of a sum is no more than the sum.                          *)
LEMMA TotalMonotone ==
  ASSUME NEW S, IsFiniteSet(S), NEW f, \A x \in S : f[x] \in Nat, NEW T \in SUBSET S
  PROVE  Total(f, T) <= Total(f, S)
<1> DEFINE Good == {U \in SUBSET S : T \subseteq U => Total(f, T) <= Total(f, U)}
<1>1. \A U \in SUBSET S : IsFiniteSet(U) /\ Total(f, U) \in Nat
  <2> TAKE U \in SUBSET S
  <2>1. IsFiniteSet(U)
    BY FS_Subset
  <2> QED
    BY <2>1, TotalNat
<1>2. ASSUME NEW U \in SUBSET S, \A V \in SUBSET U : V # U => V \in Good
      PROVE  U \in Good
  <2> SUFFICES ASSUME T \subseteq U
               PROVE  Total(f, T) <= Total(f, U)
    OBVIOUS
  <2>1. CASE U = T
    BY <1>1, <2>1
  <2>2. CASE U # T
    <3>1. PICK x \in U : x \notin T
      BY <2>2
    <3>2. Total(f, U) = f[x] + Total(f, U \ {x})
      <4>1. \A y \in U : f[y] \in Int
        OBVIOUS
      <4> QED
        BY <1>1, <4>1, TotalRemove
    <3>3. U \ {x} \in Good /\ T \subseteq U \ {x} /\ U \ {x} \in SUBSET S
      BY <1>2, <3>1
    <3>4. Total(f, T) <= Total(f, U \ {x})
      BY <3>3
    <3> HIDE DEF Good
    <3>5. f[x] \in Nat /\ Total(f, U \ {x}) \in Nat /\ Total(f, T) \in Nat
      BY <1>1, <3>3
    <3> QED
      BY <3>2, <3>4, <3>5
  <2> QED
    BY <2>1, <2>2
<1> HIDE DEF Good
<1>3. \A U \in SUBSET S : U \in Good
  <2>1. Good \in SUBSET SUBSET S
    BY DEF Good
  <2> QED
    BY <1>2, <2>1, SubsetInduction
<1> QED
  BY <1>3 DEF Good

(* The last of some events are some.                                       *)
LEMMA LastExists ==
  ASSUME IInv, EventsOK, NEW S \in SUBSET events, S # {}, NEW n \in Nat \ {0}
  PROVE  LastOf(S, n) # {}
<1> DEFINE N == {e.sequence : e \in S}
<1>1. N \in SUBSET (1 .. sequence) /\ N # {} /\ sequence \in Nat
  BY DEF EventsOK, EventOK, IInv, BookInv, B!IInv, B!TypeOK
<1>2. PICK e \in S : \A f \in S : f.sequence <= e.sequence
  <2>1. Max(N) \in N /\ \A x \in N : x <= Max(N)
    <3> HIDE DEF N
    <3> QED
      BY <1>1, MaxIn
  <2> QED
    BY <2>1
<1>3. {f \in S : f.sequence > e.sequence} = {}
  <2>1. \A f \in S : f.sequence \in Int
    BY <1>1
  <2> QED
    BY <1>2, <2>1
<1>4. Cardinality({}) = 0 /\ 0 < n
  BY FS_EmptySet
<1> QED
  BY <1>2, <1>3, <1>4 DEF LastOf

(* An account has no more cancellations in the window than orders there, but
   for the one that is charged with those of earlier orders.                *)
LEMMA CancelsAreOfAdds ==
  ASSUME EventsOK, NEW recent \in SUBSET events, NEW account
  PROVE  LET adds == Adds(recent, account)
             cancels == About(recent, "ORDER_CANCELLED", account)
         IN /\ IsFiniteSet(adds) /\ Cardinality(adds) \in Nat
            /\ Cardinality(cancels) \in Nat
            /\ account # Unknown => Cardinality(cancels) <= Cardinality(adds)
<1> DEFINE A == Adds(recent, account)
           C == About(recent, "ORDER_CANCELLED", account)
           f == [e \in C |-> CHOOSE x \in A : x.id = e.id]
<1>1. IsFiniteSet(A)
  <2>1. A \in SUBSET events
    BY DEF Adds, OfType
  <2> QED
    BY <2>1, FS_Subset DEF EventsOK
<1>2. ASSUME account # Unknown, NEW e \in C
      PROVE  f[e] \in A /\ f[e].id = e.id
  BY <1>2 DEF About, Orders
<1>3. \A e, g \in C : e.id = g.id => e = g
  BY DEF About, OfType, EventsOK
<1>4. IsFiniteSet(C)
  <2>1. C \in SUBSET events
    BY DEF About, OfType
  <2> QED
    BY <2>1, FS_Subset DEF EventsOK
<1> HIDE DEF A, C
<1>5. ASSUME account # Unknown
      PROVE  Cardinality(C) <= Cardinality(A)
  <2>1. f \in [C -> A] /\ \A e, g \in C : f[e] = f[g] => e = g
    BY <1>2, <1>3, <1>5
  <2> HIDE DEF f
  <2>2. f \in Injection(C, A)
    BY <2>1 DEF Injection, IsInjective
  <2> QED
    BY <1>1, <2>2, FS_Injection
<1>6. Cardinality(A) \in Nat /\ Cardinality(C) \in Nat
  BY <1>1, <1>4, FS_CardinalityType
<1> QED
  BY <1>1, <1>5, <1>6 DEF A, C

(* What an account may be accused of, on the events of a scan.             *)
IsCharged(recent, account, e) ==
  \/ orders[e.id].account = account
  \/ account = Unknown /\ ~Placed(recent, e.id)

(* What an account is accused of is about its orders, or Unknown's.        *)
LEMMA WhoseEvents ==
  ASSUME EventsOK, NEW recent \in SUBSET events, NEW account, NEW type
  PROVE  /\ \A e \in Adds(recent, account) : e \in recent /\ orders[e.id].account = account
         /\ \A e \in About(recent, type, account) :
              e \in recent /\ IsCharged(recent, account, e)
<1>1. \A e \in Adds(recent, account) : e \in recent /\ orders[e.id].account = account
  BY DEF Adds, OfType, EventsOK, EventOK
<1>2. ASSUME NEW e \in About(recent, type, account)
      PROVE  e \in recent /\ IsCharged(recent, account, e)
  <2>1. /\ e \in recent
        /\ \/ \E x \in Adds(recent, account) : x.id = e.id
           \/ account = Unknown /\ ~Placed(recent, e.id)
    BY DEF About, OfType, Orders
  <2> QED
    BY <1>1, <2>1 DEF IsCharged
<1> QED
  BY <1>1, <1>2

(* Of some events one is the first.                                        *)
LEMMA EarliestExists ==
  ASSUME NEW S, IsFiniteSet(S), S # {}, \A e \in S : e.sequence \in Int
  PROVE  \E e \in S : \A f \in S : e.sequence <= f.sequence
<1> DEFINE R == {x \in S \X S : x[1].sequence <= x[2].sequence}
<1>1. \A x, y \in S : <<x, y>> \in R <=> x.sequence <= y.sequence
  OBVIOUS
<1> HIDE DEF R
<1>2. /\ \A x, y \in S : x # y => <<x, y>> \in R \/ <<y, x>> \in R
      /\ \A x, y, z \in S : <<x, y>> \in R /\ <<y, z>> \in R => <<x, z>> \in R
  BY <1>1
<1>3. PICK e \in S : \A f \in S : f # e => <<e, f>> \in R
  BY <1>2, FirstExists
<1>4. ASSUME NEW f \in S
      PROVE  e.sequence <= f.sequence
  <2>1. CASE f = e
    BY <2>1
  <2>2. CASE f # e
    <3>1. <<e, f>> \in R
      BY <2>2, <1>3
    <3> QED
      BY <3>1, <1>1
  <2> QED
    BY <2>1, <2>2
<1> QED
  BY <1>4

(* The sum of the code is this sum.                                        *)
LEMMA SumOfQuantities ==
  ASSUME NEW S
  PROVE  MapThenSumSet(LAMBDA e : e.quantity, S) = Total(Quantities(S), S)
<1> DEFINE F(g) == [s \in SUBSET S |-> IF s = {} THEN 0
                                    ELSE AnyOf(s).quantity + g[s \ {AnyOf(s)}]]
           G(g) == [s \in SUBSET S |-> SumStep(g, Quantities(S), s)]
<1>1. ASSUME NEW g
      PROVE  F(g) = G(g)
  <2>1. \A s \in SUBSET S : s # {} => Quantities(S)[AnyOf(s)] = AnyOf(s).quantity
    BY AnyOfIn DEF Quantities
  <2> QED
    BY <2>1 DEF SumStep
<1>2. (CHOOSE g : g = F(g)) = (CHOOSE g : g = G(g))
  <2>1. \A g : g = F(g) <=> g = G(g)
    BY <1>1, Zenon
  <2> HIDE DEF F, G
  <2> QED
    BY <2>1
<1>3. MapThenSumSet(LAMBDA e : e.quantity, S) = (CHOOSE g : g = F(g))[S]
  BY DEF MapThenSumSet, MapThenFoldSet, AnyOf
<1>4. Total(Quantities(S), S) = (CHOOSE g : g = G(g))[S]
  BY DEF Total, SumOf
<1> QED
  BY <1>2, <1>3, <1>4

(* What is told of a sweep: its first event, and its quantities together.  *)
FirstTold(sweep) == CHOOSE e \in sweep : \A f \in sweep : e.sequence <= f.sequence

AllTold(sweep) == MapThenSumSet(LAMBDA e : e.quantity, sweep)

(* What is told of a sweep was filled by its order.                        *)
LEMMA SweepsAreFilled ==
  ASSUME IInv, EventsOK, NEW recent \in SUBSET events, NEW id,
         NEW sweep, sweep = {e \in OfType(recent, "TRADE_EXECUTED") : e.id = id}, sweep # {}
  PROVE  /\ FirstTold(sweep).account = orders[id].account
         /\ AllTold(sweep) \in Nat /\ AllTold(sweep) <= orders[id].filled
<1>1. /\ sweep \in SUBSET Sold(id) /\ Sold(id) \in SUBSET events
      /\ \A e \in Sold(id) : e.type = "TRADE_EXECUTED"
      /\ \A e \in sweep : e.type = "TRADE_EXECUTED"
  BY DEF OfType, Sold
<1>2. id \in OrderIds /\ orders[id] # NoOrder
  BY <1>1 DEF Sold, EventsOK, EventOK
<1>3. \A e \in sweep : e.account = orders[id].account /\ e.sequence \in 1 .. sequence
  BY <1>1 DEF Sold, EventsOK, EventOK
<1>4. \E e \in sweep : \A f \in sweep : e.sequence <= f.sequence
  <2>1. sequence \in Nat
    BY DEF IInv, BookInv, B!IInv, B!TypeOK
  <2>2. IsFiniteSet(sweep) /\ \A e \in sweep : e.sequence \in Int
    BY <1>1, <1>3, <2>1, SoldFacts
  <2> QED
    BY <2>2, EarliestExists
<1>5. AllTold(sweep) = Total(Quantities(sweep), sweep)
  BY SumOfQuantities DEF AllTold
<1>6. Total(Quantities(sweep), sweep) \in Nat
  BY <1>1, SoldFacts
<1>7. Total(Quantities(sweep), sweep) <= Total(Quantities(Sold(id)), Sold(id))
  <2> DEFINE S == Sold(id)
             f == Quantities(S)
             g == Quantities(sweep)
  <2>1. IsFiniteSet(S) /\ \A e \in S : f[e] \in Nat
    BY <1>1, SoldFacts
  <2>2. sweep \in SUBSET S /\ \A e \in sweep : g[e] = f[e]
    BY <1>1 DEF Quantities
  <2> HIDE DEF S, f, g
  <2>3. IsFiniteSet(sweep)
    BY <2>1, <2>2, FS_Subset
  <2>4. Total(g, sweep) = Total(f, sweep)
    <3>1. \A e \in sweep : f[e] \in Int
      BY <2>1, <2>2
    <3> QED
      BY <2>2, <2>3, <3>1, TotalSame
  <2>5. Total(f, sweep) <= Total(f, S)
    BY <2>1, <2>2, TotalMonotone
  <2> QED
    BY <2>4, <2>5 DEF S, f, g
<1>8. Total(Quantities(sweep), sweep) <= orders[id].filled
  <2>1. Total(Quantities(Sold(id)), Sold(id)) <= orders[id].filled
    BY <1>2 DEF EventsOK
  <2>2. Total(Quantities(Sold(id)), Sold(id)) \in Nat
    BY <1>1, SoldFacts
  <2>3. orders[id].filled \in Nat
    <3>1. orders[id] \in B!Order
      BY <1>2, B!Types, BookAssumptions DEF IInv, BookInv, B!IInv, B!Known
    <3> QED
      BY <3>1 DEF B!Order
  <2> QED
    BY <1>6, <1>7, <2>1, <2>2, <2>3
<1>9. FirstTold(sweep) \in sweep
  BY <1>4 DEF FirstTold
<1> QED
  BY <1>3, <1>5, <1>6, <1>8, <1>9

(* What an alert says is so.                                               *)
Grounded(alert) ==
  /\ alert.evidence # {}
  /\ alert.participant # Unknown => alert.count <= alert.of
  /\ \A e \in alert.evidence :
       /\ IsCharged(Recent(events, sequence), alert.participant, e)
       /\ e.sequence > sequence - Window
       /\ alert.rule = "SPOOFING_LIKE_QUICK_CANCEL" => orders[e.id].status = "CANCELLED"
       /\ alert.rule = "LARGE_SWEEP" => alert.count <= orders[e.id].filled

(* An alert is what its rule made it.                                      *)
LEMMA AlertFacts ==
  ASSUME NEW rule, NEW participant, NEW evidence, NEW count, NEW of
  PROVE  LET alert == Alert(rule, participant, evidence, count, of)
         IN /\ alert.rule = rule /\ alert.participant = participant
            /\ alert.evidence = evidence /\ alert.count = count /\ alert.of = of
BY DEF Alert

(* The rules that look at what one account did.                            *)
LEMMA AccountRules ==
  ASSUME IInv, EventsOK, NEW recent, recent = Recent(events, sequence), NEW account,
         NEW alert \in HighCancelRatio(recent, account) \cup RapidReplacement(recent, account)
                         \cup SpoofingLike(recent, account) \cup LayeringLike(recent, account)
  PROVE  Grounded(alert)
<1> USE ThresholdsAssumption
<1>1. recent \in SUBSET events /\ \A e \in recent : e.sequence > sequence - Window
  BY DEF Recent
<1> DEFINE adds == Adds(recent, account)
           cancels == About(recent, "ORDER_CANCELLED", account)
<1>2. /\ \A e \in adds : e \in recent /\ orders[e.id].account = account
      /\ \A type : \A e \in About(recent, type, account) :
           e \in recent /\ IsCharged(recent, account, e)
  BY <1>1, WhoseEvents
<1>3. /\ IsFiniteSet(adds) /\ Cardinality(adds) \in Nat
      /\ Cardinality(cancels) \in Nat
      /\ account # Unknown => Cardinality(cancels) <= Cardinality(adds)
  BY <1>1, CancelsAreOfAdds
<1>0. \A e \in adds : IsCharged(recent, account, e)
  BY <1>2 DEF IsCharged
<1>4. \A S, n : LastOf(S, n) \subseteq S
  BY DEF LastOf
<1>5. ASSUME NEW S \in SUBSET recent, Cardinality(S) >= 1
      PROVE  /\ S # {} /\ Cardinality(S) \in Nat
             /\ \A n \in Nat \ {0} : LastOf(S, n) # {}
  <2>1. IsFiniteSet(S)
    BY <1>1, FS_Subset DEF EventsOK
  <2>2. Cardinality(S) \in Nat /\ S # {}
    BY <1>5, <2>1, FS_CardinalityType, FS_EmptySet
  <2> QED
    BY <1>1, <2>2, LastExists
<1>6. CASE alert \in HighCancelRatio(recent, account)
  <2> DEFINE evidence == LastOf(adds, 3) \cup LastOf(cancels, 3)
             n == Cardinality(cancels)
             m == Cardinality(adds)
  <2>1. alert = Alert("HIGH_CANCEL_RATIO", account, evidence, n, m) /\ alert.of >= Thresholds.adds
    BY <1>6 DEF HighCancelRatio
  <2>2. \A e \in evidence : e \in recent /\ IsCharged(recent, account, e)
    BY <1>0, <1>2, <1>4
  <2>3. (account # Unknown => n <= m) /\ m \in Nat
    BY <1>3
  <2> HIDE DEF evidence, n, m
  <2>4. /\ alert.rule = "HIGH_CANCEL_RATIO" /\ alert.participant = account
        /\ alert.evidence = evidence /\ alert.count = n /\ alert.of = m
    BY <2>1, AlertFacts
  <2>5. m >= 1
    BY <2>1, <2>3, <2>4
  <2>6. evidence # {}
    <3>1. adds \in SUBSET recent /\ Cardinality(adds) >= 1
      BY <1>2, <2>5 DEF m
    <3>2. LastOf(adds, 3) # {}
      BY <1>5, <3>1
    <3> QED
      BY <3>2 DEF evidence
  <2> QED
    BY <1>1, <2>2, <2>3, <2>4, <2>6 DEF Grounded
<1>7. CASE alert \in RapidReplacement(recent, account)
  <2> DEFINE replacements == About(recent, "ORDER_MODIFIED", account)
             n == Cardinality(replacements)
  <2>1. /\ alert = Alert("RAPID_REPLACEMENT", account, LastOf(replacements, 6), n, n)
        /\ alert.count >= Thresholds.replacements
    BY <1>7 DEF RapidReplacement
  <2>2. \A e \in replacements : e \in recent /\ IsCharged(recent, account, e)
    BY <1>2
  <2>3. n \in Nat
    <3>1. IsFiniteSet(replacements)
      <4>1. replacements \in SUBSET events
        BY <1>1, <2>2
      <4> QED
        BY <4>1, FS_Subset DEF EventsOK
    <3> QED
      BY <3>1, FS_CardinalityType
  <2> HIDE DEF n
  <2>4. /\ alert.rule = "RAPID_REPLACEMENT" /\ alert.participant = account
        /\ alert.evidence = LastOf(replacements, 6) /\ alert.count = n /\ alert.of = n
    BY <2>1, AlertFacts
  <2>5. n >= 1
    BY <2>1, <2>3, <2>4
  <2>6. LastOf(replacements, 6) # {}
    BY <1>5, <2>2, <2>5 DEF n
  <2>7. \A e \in alert.evidence : e \in recent /\ IsCharged(recent, account, e)
    BY <1>4, <2>2, <2>4
  <2> QED
    BY <1>1, <2>3, <2>4, <2>6, <2>7 DEF Grounded
<1>8. CASE alert \in SpoofingLike(recent, account)
  <2> DEFINE quick == QuickCancels(recent, account)
             n == Cardinality(quick)
  <2>1. /\ alert = Alert("SPOOFING_LIKE_QUICK_CANCEL", account, LastOf(quick, 6), n, n)
        /\ alert.count >= Thresholds.quick_cancels
    BY <1>8 DEF SpoofingLike
  <2>2. \A e \in quick : /\ e \in recent /\ IsCharged(recent, account, e)
                         /\ orders[e.id].status = "CANCELLED"
    <3> TAKE e \in quick
    <3>1. e \in adds
      BY DEF QuickCancels
    <3>2. PICK f \in recent : f.type = "ORDER_CANCELLED" /\ f.id = e.id
      BY DEF QuickCancels, OfType
    <3>3. orders[f.id].status = "CANCELLED"
      BY <1>1, <3>2 DEF EventsOK, EventOK
    <3> QED
      BY <1>0, <1>2, <3>1, <3>2, <3>3
  <2>3. n \in Nat
    <3>1. quick \in SUBSET events
      BY <1>1, <2>2
    <3>2. IsFiniteSet(quick)
      BY <3>1, FS_Subset DEF EventsOK
    <3> QED
      BY <3>2, FS_CardinalityType
  <2> HIDE DEF quick, n
  <2>4. /\ alert.rule = "SPOOFING_LIKE_QUICK_CANCEL" /\ alert.participant = account
        /\ alert.evidence = LastOf(quick, 6) /\ alert.count = n /\ alert.of = n
    BY <2>1, AlertFacts
  <2>5. n >= 1
    BY <2>1, <2>3, <2>4
  <2>6. LastOf(quick, 6) # {}
    BY <1>5, <2>2, <2>5 DEF n
  <2>7. \A e \in alert.evidence : /\ e \in recent /\ IsCharged(recent, account, e)
                                  /\ orders[e.id].status = "CANCELLED"
    BY <1>4, <2>2, <2>4
  <2> QED
    BY <1>1, <2>3, <2>4, <2>6, <2>7 DEF Grounded
<1>9. CASE alert \in LayeringLike(recent, account)
  <2> DEFINE limits_ == {e \in adds : e.limit}
             n == Cardinality(cancels)
             m == Cardinality(adds)
  <2>1. /\ alert = Alert("LAYERING_LIKE_BURST", account, LastOf(limits_, 6), n, m)
        /\ Cardinality(limits_) >= Thresholds.limit_adds
    BY <1>9 DEF LayeringLike
  <2>2. \A e \in limits_ : e \in recent /\ IsCharged(recent, account, e)
    BY <1>0, <1>2
  <2>3. (account # Unknown => n <= m) /\ m \in Nat
    BY <1>3
  <2>4. Cardinality(limits_) \in Nat
    <3>1. IsFiniteSet(limits_)
      <4>1. limits_ \in SUBSET adds
        OBVIOUS
      <4> QED
        BY <1>3, <4>1, FS_Subset
    <3> QED
      BY <3>1, FS_CardinalityType
  <2> HIDE DEF n, m, limits_
  <2>5. /\ alert.rule = "LAYERING_LIKE_BURST" /\ alert.participant = account
        /\ alert.evidence = LastOf(limits_, 6) /\ alert.count = n /\ alert.of = m
    BY <2>1, AlertFacts
  <2>6. Cardinality(limits_) >= 1
    BY <2>1, <2>4
  <2>7. LastOf(limits_, 6) # {}
    BY <1>5, <2>2, <2>6
  <2>8. \A e \in alert.evidence : e \in recent /\ IsCharged(recent, account, e)
    BY <1>4, <2>2, <2>5
  <2> QED
    BY <1>1, <2>3, <2>5, <2>7, <2>8 DEF Grounded
<1> QED
  BY <1>6, <1>7, <1>8, <1>9

(* The rule that looks at one order's trades.                              *)
LEMMA SweepRule ==
  ASSUME IInv, EventsOK, NEW recent, recent = Recent(events, sequence),
         NEW id \in Orders(OfType(recent, "TRADE_EXECUTED")),
         NEW alert \in LargeSweep(recent, id)
  PROVE  Grounded(alert)
<1>1. recent \in SUBSET events /\ \A e \in recent : e.sequence > sequence - Window
  BY DEF Recent
<1>2. PICK sweep : sweep = {e \in OfType(recent, "TRADE_EXECUTED") : e.id = id}
  OBVIOUS
<1> DEFINE first == FirstTold(sweep)
           swept == AllTold(sweep)
<1>3. alert = Alert("LARGE_SWEEP", first.account, LastOf(sweep, 8), swept, swept)
  BY <1>2 DEF LargeSweep, FirstTold, AllTold
<1>4. sweep # {} /\ sweep \in SUBSET events /\ \A e \in sweep : e \in recent /\ e.id = id
  BY <1>1, <1>2 DEF Orders, OfType
<1>5. first.account = orders[id].account /\ swept \in Nat /\ swept <= orders[id].filled
  BY <1>1, <1>2, <1>4, SweepsAreFilled
<1>6. LastOf(sweep, 8) # {} /\ LastOf(sweep, 8) \subseteq sweep
  <2>1. LastOf(sweep, 8) # {}
    BY <1>4, LastExists
  <2> QED
    BY <2>1 DEF LastOf
<1> HIDE DEF first, swept
<1>7. /\ alert.rule = "LARGE_SWEEP" /\ alert.participant = first.account
      /\ alert.evidence = LastOf(sweep, 8) /\ alert.count = swept /\ alert.of = swept
  BY <1>3, AlertFacts
<1>8. \A e \in alert.evidence : e \in recent /\ e.id = id
  BY <1>4, <1>6, <1>7
<1> QED
  BY <1>1, <1>5, <1>6, <1>7, <1>8 DEF Grounded, IsCharged

(* So every alert of a scan says what is so.                               *)
LEMMA AlertsHold == IInv /\ EventsOK => AlertsAreGrounded
<1> SUFFICES ASSUME IInv, EventsOK, NEW alert \in Alerts(events, sequence)
             PROVE  Grounded(alert)
  BY DEF AlertsAreGrounded, Grounded, IsCharged
<1>1. PICK recent : recent = Recent(events, sequence)
  OBVIOUS
<1> DEFINE ByAccount(a) == HighCancelRatio(recent, a) \cup RapidReplacement(recent, a)
                            \cup SpoofingLike(recent, a) \cup LayeringLike(recent, a)
           accounts == {e.account : e \in OfType(recent, "ORDER_ACCEPTED")}
           takers == Orders(OfType(recent, "TRADE_EXECUTED"))
<1>2. Alerts(events, sequence) =
        (UNION {ByAccount(a) : a \in accounts}) \cup (UNION {LargeSweep(recent, id) : id \in takers})
  BY <1>1 DEF Alerts
<1>3. ASSUME NEW a, alert \in ByAccount(a)
      PROVE  Grounded(alert)
  BY <1>1, <1>3, AccountRules
<1>4. ASSUME NEW id \in takers, alert \in LargeSweep(recent, id)
      PROVE  Grounded(alert)
  BY <1>1, <1>4, SweepRule
<1> HIDE DEF ByAccount, accounts, takers
<1>5. \/ \E a : alert \in ByAccount(a)
      \/ \E id \in takers : alert \in LargeSweep(recent, id)
  BY <1>2
<1> QED
  BY <1>3, <1>4, <1>5

-----------------------------------------------------------------------------
(* The invariant of a gateway with simulations.                            *)
MInv ==
  /\ IInv
  /\ SimulationOK
  /\ AskedOK
  /\ IdsOK
  /\ AloneOK
  /\ EventsOK

(* It holds at the start.                                                  *)
LEMMA MarketBegins == MarketInit => MInv
<1> SUFFICES ASSUME MarketInit
             PROVE  MInv
  OBVIOUS
<1>1. IInv
  BY InitInv DEF MarketInit
<1>2. /\ simulation = NoSimulation /\ asked = None /\ simulations = 0 /\ visits = 0
      /\ events = {} /\ pending = SeedCommands
      /\ incoming = None /\ trades = << >> /\ \A s \in Side : index[s] = {}
      /\ \A id \in OrderIds : orders[id] = NoOrder
  BY DEF MarketInit, Init, Book!Init, Book!Side, Side
<1>3. /\ simulation \in ASimulation /\ simulation.step_number = 0
      /\ simulation.id_counter = 0 /\ simulation.center = Opening /\ ~Running
  <2>1. /\ NoSimulation \in ASimulation /\ NoSimulation.step_number = 0
        /\ NoSimulation.id_counter = 0 /\ NoSimulation.center = Opening
    BY OpeningAssumption DEF NoSimulation, ASimulation
  <2> QED
    BY <1>2, <2>1 DEF Running
<1>4. SimulationOK
  <2>1. simulation.center = Drifted(Opening, Drift * simulation.step_number)
    BY <1>3, AtItsBeginning
  <2>2. /\ simulations \in Nat /\ visits \in Nat /\ simulations + visits <= MaxCompany
        /\ simulation.step_number <= MaxSteps
        /\ simulation.id_counter <= simulation.step_number
    BY <1>2, <1>3, MarketBoundsAssumption
  <2>3. pending \in Seq(SeedSet)
    BY <1>2, SeedsInTurn
  <2> QED
    BY <1>3, <2>1, <2>2, <2>3, Zenon DEF SimulationOK
<1>5. AskedOK
  BY <1>2 DEF AskedOK
<1>6. IdsOK
  BY <1>2, AgentsAssumption DEF IdsOK
<1>7. AloneOK
  <2>1. DOMAIN trades = {}
    BY <1>2
  <2> QED
    BY <1>2, <2>1 DEF AloneOK, RestsBehind, Side
<1>8. EventsOK
  BY <1>2, FS_EmptySet DEF EventsOK
<1> QED
  BY <1>1, <1>4, <1>5, <1>6, <1>7, <1>8 DEF MInv

(* Every step keeps it.                                                    *)
LEMMA MarketStep == MInv /\ [MarketNext]_marketVars => MInv'
<1> SUFFICES ASSUME MInv, [MarketNext]_marketVars
             PROVE  MInv'
  OBVIOUS
<1>1. IInv'
  BY MarketMoves, GatewayInv DEF MInv
<1>2. SimulationOK'
  BY SimulationStep DEF MInv
<1>3. AskedOK'
  BY AskedStep DEF MInv
<1>4. IdsOK'
  BY IdsStep DEF MInv
<1>5. AloneOK'
  BY AloneStep DEF MInv
<1>6. EventsOK'
  BY <1>1, EventsStep DEF MInv
<1> QED
  BY <1>1, <1>2, <1>3, <1>4, <1>5, <1>6 DEF MInv

(* Whatever simulations and others do on the gateway's book, where the
   simulation is, what it asked for, which ids are taken, what rests on which
   side of its center and what the events tell fit together.               *)
THEOREM MarketInvariant == MarketSpec => []MInv
  BY MarketBegins, MarketStep, PTL DEF MarketSpec

(* Every variable of the market keeps its type, and a simulation is never
   past its operations, nor its center below the lowest.                   *)
THEOREM MarketIsTyped == MarketSpec => []MarketTypeOK
<1>1. MInv => MarketTypeOK
  <2> SUFFICES ASSUME MInv
               PROVE  MarketTypeOK
    OBVIOUS
  <2>1. TypeOK
    BY TypesHold DEF MInv
  <2>2. /\ simulation.scenario \in ScenarioKeys \cup {"none"}
        /\ simulation.step_number \in Nat /\ simulation.id_counter \in Nat
        /\ simulation.center \in Nat
        /\ simulation.step_number <= MaxSteps
        /\ simulation.id_counter <= simulation.step_number
        /\ simulation.center = Drifted(Opening, Drift * simulation.step_number)
        /\ simulations \in Nat /\ visits \in Nat /\ simulations + visits <= MaxCompany
    BY DEF MInv, SimulationOK, ASimulation
  <2>3. simulation.step_number \in 0 .. MaxSteps
        /\ simulation.id_counter \in 0 .. simulation.step_number
    BY <2>2, MarketBoundsAssumption
  <2>4. simulation.center \in Nat \ (0 .. LowestCenter - 1)
    <3>1. Drift \in Int
      BY ScenarioFacts DEF Drift, MInv, SimulationOK
    <3>2. simulation.center >= LowestCenter
      BY <2>2, <3>1, DriftedOn
    <3> QED
      BY <2>2, <3>2 DEF LowestCenter
  <2>5. simulations + visits \in 0 .. MaxCompany
    BY <2>2, MarketBoundsAssumption
  <2>6. asked # None => asked \in Command
    BY DEF MInv, AskedOK
  <2>7. \A e \in events : e.id \in OrderIds /\ e.sequence \in 1 .. sequence
    BY DEF MInv, EventsOK, EventOK
  <2> QED
    BY <2>1, <2>2, <2>3, <2>4, <2>5, <2>6, <2>7 DEF MarketTypeOK
<1> QED
  BY <1>1, MarketInvariant, PTL

(* The orders of a simulation that is alone on its book meet others only in
   the direction of its drift, so where a side is forced on the aggressors no
   other ever takes.                                                       *)
THEOREM SidesAreForced == MarketSpec => []AggressorsAsForced
<1>1. MInv => AggressorsAsForced
  <2> SUFFICES ASSUME MInv, Undisturbed
               PROVE  /\ (asked # None /\ AtRest /\ asked.kind = "NEW"
                           /\ asked.order.type = "LIMIT")
                           => (asked.order.price # NoPrice /\ Book!CrossesBook(asked.order)
                                 => asked.order.side \in Ahead)
                      /\ Forced # {} => \A k \in DOMAIN trades :
                                           orders[trades[k].taker].side \in Forced
    BY DEF AggressorsAsForced
  <2>1. IInv /\ SimulationOK /\ AskedOK /\ RestsBehind /\ Running /\ Sides = Forced
    BY DEF MInv, Undisturbed, Alone, AloneOK, Sides
  <2>2. Forced # {} => \A k \in DOMAIN trades : orders[trades[k].taker].side \in Forced
    BY <2>1 DEF MInv, Undisturbed, Alone, AloneOK
  <2>3. ASSUME asked # None, asked.kind = "NEW", asked.order.type = "LIMIT",
               Book!CrossesBook(asked.order)
        PROVE  asked.order.side \in Ahead
    <3> DEFINE o == asked.order
    <3>1. o.side \in Side /\ o.price \in Nat /\ asked \in Command
      <4>1. asked \in Command
        BY <2>1, <2>3 DEF AskedOK
      <4>2. o.side \in Side /\ o.price \in Prices \cup {NoPrice}
        BY <2>3, <4>1 DEF Command, NewCommand, CancelCommand, ModifyCommand
      <4>3. Prices \subseteq Nat /\ NoPrice \in Nat
        BY BookAssumption DEF NoPrice
      <4> QED
        BY <4>1, <4>2, <4>3
    <3>2. Behind(o.side, o.price)
      BY <2>1, <2>3, <3>1, BroughtFromBehind DEF ComesFromBehind
    <3>3. PICK p \in index[Opposite(o.side)] : Crosses(o, p)
      BY <2>3 DEF Book!CrossesBook, Book!Opposite, Opposite, Book!Crosses, Crosses
    <3>4. (o.side = "BUY" => Drift > 0) /\ (o.side = "SELL" => Drift < 0)
      <4>1. o.type = "LIMIT"
        BY <2>3
      <4> HIDE DEF o
      <4> QED
        BY <2>1, <3>1, <3>2, <3>3, <4>1, CrossedByDrift
    <3>5. Drift = SCENARIOS[simulation.scenario].drift
      BY <2>1 DEF Drift
    <3> QED
      BY <3>1, <3>4, <3>5 DEF Ahead, Side
  <2> QED
    BY <2>2, <2>3
<1> QED
  BY <1>1, MarketInvariant, PTL

(* Only a price that lies further below the center than the center is high
   is none.                                                                *)
LEMMA QuotedNone ==
  ASSUME NEW o, NEW center \in Nat, center > 0, NEW d \in NoiseOffsets \cup MakerOffsets,
         o.price = Quoted(o.side, center, d), o.price = NoPrice
  PROVE  center <= Max(NoiseOffsets \cup MakerOffsets)
<1>1. /\ NoiseOffsets \cup MakerOffsets \in SUBSET (1 .. 18)
      /\ NoiseOffsets \cup MakerOffsets # {} /\ d \in Nat
  BY OffsetsAssumption
<1>2. d <= Max(NoiseOffsets \cup MakerOffsets) /\ Max(NoiseOffsets \cup MakerOffsets) \in Nat
  <2>1. 18 \in Nat
    OBVIOUS
  <2>2. /\ Max(NoiseOffsets \cup MakerOffsets) \in NoiseOffsets \cup MakerOffsets
        /\ \A x \in NoiseOffsets \cup MakerOffsets : x <= Max(NoiseOffsets \cup MakerOffsets)
    BY <1>1, <2>1, MaxIn
  <2> QED
    BY <1>1, <2>2
<1>3. center <= d
  BY <1>1 DEF Quoted, NoPrice
<1> QED
  BY <1>1, <1>2, <1>3

(* What a simulation asks for finds the book it was made for.              *)
LEMMA CommandsHold == MInv => CommandsFindTheirBook
<1> SUFFICES ASSUME MInv, asked # None, AtRest, pending = << >>
             PROVE  /\ asked.kind = "CANCEL" /\ asked.id \in live_orders
                         => Book!MayTouch(asked.id, asked.who)
                    /\ asked.kind = "NEW" /\ simulations = 1 /\ Book!Known(asked.id)
                         => \E c \in Commands : c.kind = "NEW" /\ c.id = asked.id
                    /\ Undisturbed =>
                         /\ asked.kind = "CANCEL" => asked.id \in live_orders
                         /\ asked.kind = "NEW" =>
                              \/ ~Book!Invalid(asked.id, asked.order)
                              \/ /\ asked.order.price = NoPrice
                                 /\ simulation.center <= Max(NoiseOffsets \cup MakerOffsets)
  BY DEF CommandsFindTheirBook
<1>1. IInv /\ SimulationOK /\ AskedOK /\ IdsOK /\ AloneOK
  BY DEF MInv
<1>2. asked.kind = "CANCEL" => asked.who = orders[asked.id].account
  BY <1>1 DEF AskedOK
<1>3. ASSUME asked.kind = "NEW", simulations = 1, orders[asked.id] # NoOrder
      PROVE  /\ visits > 0
             /\ \E c \in Commands : c.kind = "NEW" /\ c.id = asked.id
  <2>1. /\ asked.id \in Agent \X (1 .. MaxSteps) /\ asked.id[2] = simulation.id_counter
        /\ simulation.id_counter \in Nat
    <3>1. PICK agent \in Agent : asked.id = <<agent, simulation.id_counter>>
      BY <1>1, <1>3 DEF AskedOK
    <3>2. simulation.id_counter \in 1 .. MaxSteps
      BY <1>1, <1>3, MarketBoundsAssumption DEF SimulationOK, AskedOK, ASimulation
    <3> QED
      BY <3>1, <3>2
  <2>2. Used = simulation.id_counter - 1
    BY <1>3 DEF Used
  <2>3. visits > 0 /\ asked.id \in ClientIds
    <3>1. asked.id[2] <= Used \/ (visits > 0 /\ asked.id \in ClientIds)
      <4>1. simulations <= 1
        BY <1>3
      <4> QED
        BY <1>1, <1>3, <2>1, <4>1 DEF IdsOK
    <3>2. ~(asked.id[2] <= Used)
      BY <2>1, <2>2
    <3> QED
      BY <3>1, <3>2
  <2> QED
    BY <2>3 DEF ClientIds
<1>4. ASSUME Undisturbed, asked.kind = "NEW"
      PROVE  \/ ~Book!Invalid(asked.id, asked.order)
             \/ /\ asked.order.price = NoPrice
                /\ simulation.center <= Max(NoiseOffsets \cup MakerOffsets)
  <2> DEFINE o == asked.order
  <2>1. ~Book!Known(asked.id)
    <3>1. simulations = 1 /\ ~(visits > 0)
      BY <1>4 DEF Undisturbed
    <3> QED
      BY <1>3, <1>4, <3>1 DEF Book!Known
  <2>2. /\ asked \in Command /\ MadeUp(o, simulation.center, Forced)
    BY <1>1, <1>4 DEF AskedOK
  <2>3. o.quantity \in Nat
    BY <1>4, <2>2 DEF Command, NewCommand, CancelCommand, ModifyCommand
  <2>4. simulation.center \in Nat /\ simulation.center > 0
    <3>1. Drift \in Int
      BY <1>1, ScenarioFacts DEF Drift, SimulationOK
    <3>2. simulation.center >= LowestCenter /\ simulation.center \in Nat
      BY <1>1, <3>1, DriftedOn DEF SimulationOK, ASimulation
    <3> QED
      BY <3>2 DEF LowestCenter
  <2>5. CASE o.type = "LIMIT" /\ o.price = NoPrice
    <3>1. PICK d \in NoiseOffsets \cup MakerOffsets : o.price = Quoted(o.side, simulation.center, d)
      BY <2>2, <2>5 DEF MadeUp
    <3>2. simulation.center <= Max(NoiseOffsets \cup MakerOffsets)
      <4> HIDE DEF o
      <4> QED
        BY <2>4, <2>5, <3>1, QuotedNone
    <3> QED
      BY <2>5, <3>2
  <2>6. CASE ~(o.type = "LIMIT" /\ o.price = NoPrice)
    <3>1. o.quantity > 0 /\ (o.type = "MARKET" => o.tif = "IOC")
      BY <2>2 DEF MadeUp
    <3>2. Book!NoPrice = NoPrice
      BY DEF Book!NoPrice, NoPrice
    <3>3. ~(o.quantity <= 0)
      BY <2>3, <3>1
    <3> QED
      BY <2>1, <2>6, <3>1, <3>2, <3>3 DEF Book!Invalid
  <2> QED
    BY <2>5, <2>6
<1>5. Undisturbed /\ asked.kind = "CANCEL" => asked.id \in live_orders
  BY <1>1 DEF Undisturbed, AloneOK, Alone
<1> QED
  BY <1>2, <1>3, <1>4, <1>5 DEF Book!MayTouch, Book!Known

(* A cancellation that finds its order may touch it; an order's id is free
   unless others made it up; and with the book to itself what a simulation
   asks for is never too late and never malformed, but for a center as low as
   an offset is large.                                                     *)
THEOREM CommandsAreTimely == MarketSpec => []CommandsFindTheirBook
  BY CommandsHold, MarketInvariant, PTL

(* No alert accuses an account of what others did or what did not happen,
   but for one called Unknown, of what was done to earlier orders.         *)
THEOREM AlertsAreTrue == MarketSpec => []AlertsAreGrounded
<1>1. MInv => AlertsAreGrounded
  BY AlertsHold DEF MInv
<1> QED
  BY <1>1, MarketInvariant, PTL

(* Positions, ledger and trade log agree also while simulations trade.     *)
THEOREM AccountsAgreeInSimulations == MarketSpec => []AccountsAgree
<1>1. MInv => AccountsAgree
  BY AccountsHold DEF MInv
<1> QED
  BY <1>1, MarketInvariant, PTL

(* And the limits hold for simulated orders as for those of clients.       *)
THEOREM LimitsHoldInSimulations == MarketSpec => []WithinLimits
<1>1. MInv => WithinLimits
  BY WithinHold DEF MInv
<1> QED
  BY <1>1, MarketInvariant, PTL
=============================================================================
