--------------------------- MODULE ReferenceBook ----------------------------
(***************************************************************************)
(* backend/limitx/reference/matcher.py: the readable oracle, here as the   *)
(* abstract specification of matching.  It has no levels, no index and no  *)
(* queues: the live orders are one flat map, and the next maker is the     *)
(* first of the opposing orders by (price, priority).  Each turn of the    *)
(* loop of _match_or_rest is an action, with `working` the order that is   *)
(* being matched.                                                          *)
(*                                                                         *)
(* The priority counter is only ever compared, so a new priority is any    *)
(* greater number; the code takes the next one.                            *)
(***************************************************************************)
EXTENDS Domain, Sequences, FiniteSetsExt

CONSTANTS
  OrderIds, Accounts, Prices, StpPolicy, Requests, ModifyQuantities,
  ModifyPrices, NoOrder, None

VARIABLES
  live,       \* the resting order of each id, or NoOrder
  seen,       \* the ids that were ever accepted
  trades,     \* the trades, oldest first
  priority,   \* the last priority given out
  incoming,   \* the id of the order being matched, or None
  working     \* that order, or NoOrder

vars == <<live, seen, trades, priority, incoming, working>>

Live == {id \in OrderIds : live[id] # NoOrder}

Opposing(side) == {id \in Live : live[id].side = Opposite(side)}

(* The sort key of _opposing: price, best first, then priority.            *)
Precedes(m, n) ==
  \/ Better(live[m].side, live[m].price, live[n].price)
  \/ live[m].price = live[n].price /\ live[m].priority < live[n].priority

First(side, m) ==
  m \in Opposing(side) /\ \A n \in Opposing(side) \ {m} : Precedes(m, n)

CrossesFirst(order) ==
  \E m \in Opposing(order.side) : First(order.side, m) /\ Crosses(order, live[m].price)

Own(order, m) == StpPolicy = "CANCEL_TAKER" /\ live[m].account = order.account

Available(order) ==
  LET crossing == {m \in Opposing(order.side) : Crosses(order, live[m].price)}
      reached == {m \in crossing :
                    \A n \in crossing : n = m \/ Precedes(n, m) => ~Own(order, n)}
  IN MapThenSumSet(LAMBDA m : live[m].remaining, reached)

-----------------------------------------------------------------------------
Invalid(id, r) ==
  \/ id \in seen
  \/ r.quantity <= 0
  \/ r.type = "LIMIT" /\ r.price = NoPrice
  \/ r.type = "MARKET" /\ r.tif \notin {"IOC", "FOK"}

WouldNotTrade(r) ==
  \/ r.tif = "POST_ONLY" /\ CrossesFirst(r)
  \/ r.tif = "FOK" /\ Available(r) < r.quantity

ReferenceOrder(r, n) ==
  [account |-> r.account, side |-> r.side, type |-> r.type, tif |-> r.tif,
   price |-> r.price, quantity |-> r.quantity, remaining |-> r.quantity,
   filled |-> 0, priority |-> n]

Submit(id, r) ==
  /\ incoming = None /\ incoming' = id
  /\ priority' > priority
  /\ working' = ReferenceOrder(r, priority')
  /\ ~Invalid(id, r) /\ ~WouldNotTrade(r)
  /\ seen' = seen \cup {id}
  /\ UNCHANGED <<live, trades>>

(* A post-only or fill-or-kill order that is turned away has used a number. *)
TurnAway ==
  /\ incoming = None
  /\ priority' > priority
  /\ UNCHANGED <<live, seen, trades, incoming, working>>
  /\ \E id \in OrderIds, r \in Requests : ~Invalid(id, r) /\ WouldNotTrade(r)

-----------------------------------------------------------------------------
Meets(m) ==
  /\ incoming # None /\ working.remaining > 0
  /\ First(working.side, m)
  /\ Crosses(working, live[m].price)

Done == incoming' = None /\ working' = NoOrder

StopAtOwnOrder ==
  /\ Done
  /\ \E m \in OrderIds : Meets(m) /\ Own(working, m)
  /\ UNCHANGED <<live, seen, trades, priority>>

Less(order, quantity) ==
  [order EXCEPT !.remaining = @ - quantity, !.filled = @ + quantity]

Trade(m) ==
  LET quantity == Smaller(working.remaining, live[m].remaining)
  IN /\ Meets(m) /\ ~Own(working, m)
     /\ working' = Less(working, quantity)
     /\ live' = [live EXCEPT ![m] =
                   IF @.remaining = quantity THEN NoOrder ELSE Less(@, quantity)]
     /\ trades' = Append(trades, [maker |-> m, taker |-> incoming,
                                  price |-> live[m].price, quantity |-> quantity])
     /\ UNCHANGED <<seen, priority, incoming>>

MayRest(order) ==
  order.remaining > 0 /\ order.type = "LIMIT" /\ order.tif \in {"GTC", "POST_ONLY"}

Finish ==
  /\ incoming # None
  /\ working.remaining = 0 \/ ~CrossesFirst(working)
  /\ live' = [live EXCEPT ![incoming] = IF MayRest(working) THEN working ELSE @]
  /\ Done
  /\ UNCHANGED <<seen, trades, priority>>

-----------------------------------------------------------------------------
MayTouch(id, who) == id \in Live /\ who \in {None, live[id].account}

Cancel(id, who) ==
  /\ incoming = None /\ UNCHANGED incoming
  /\ MayTouch(id, who)
  /\ live' = [live EXCEPT ![id] = NoOrder]
  /\ UNCHANGED <<seen, trades, priority, working>>

Modified(id, quantity, price) ==
  [live[id] EXCEPT !.quantity = quantity, !.remaining = quantity - live[id].filled,
                   !.price = price]

Modifiable(id, who, quantity, price) ==
  /\ MayTouch(id, who)
  /\ price # NoPrice /\ quantity > live[id].filled
  /\ ~(live[id].tif = "POST_ONLY" /\ CrossesFirst(Modified(id, quantity, price)))

LosesPriority(id, quantity, price) ==
  price # live[id].price \/ quantity > live[id].quantity

Resize(id, who, quantity, price) ==
  /\ incoming = None /\ UNCHANGED incoming
  /\ Modifiable(id, who, quantity, price)
  /\ ~LosesPriority(id, quantity, price)
  /\ live' = [live EXCEPT ![id] = Modified(id, quantity, price)]
  /\ UNCHANGED <<seen, trades, priority, working>>

Requeue(id, who, quantity, price) ==
  /\ incoming = None /\ incoming' = id
  /\ Modifiable(id, who, quantity, price)
  /\ LosesPriority(id, quantity, price)
  /\ priority' > priority
  /\ live' = [live EXCEPT ![id] = NoOrder]
  /\ working' = [Modified(id, quantity, price) EXCEPT !.priority = priority']
  /\ UNCHANGED <<seen, trades>>

-----------------------------------------------------------------------------
Init ==
  /\ live = [id \in OrderIds |-> NoOrder]
  /\ seen = {}
  /\ trades = << >>
  /\ priority = 0
  /\ incoming = None
  /\ working = NoOrder

Next ==
  \/ \E id \in OrderIds, r \in Requests : Submit(id, r)
  \/ TurnAway
  \/ StopAtOwnOrder
  \/ \E m \in OrderIds : Trade(m)
  \/ Finish
  \/ \E id \in OrderIds, who \in Accounts \cup {None} :
       \/ Cancel(id, who)
       \/ \E q \in ModifyQuantities, p \in ModifyPrices : Resize(id, who, q, p) \/ Requeue(id, who, q, p)

Spec == Init /\ [][Next]_vars
=============================================================================
