------------------------------- MODULE Domain -------------------------------
(***************************************************************************)
(* The vocabulary of backend/limitx/domain that every book shares: sides,  *)
(* order types, times in force, statuses, the order record, and the two    *)
(* price comparisons the matcher is built from.                            *)
(*                                                                         *)
(* A price of 0 stands for None and for every non-positive price of a new  *)
(* order: a LIMIT order with either is INVALID_PRICE, and the matcher never *)
(* reads the price of a MARKET order.  A modification that names no price  *)
(* keeps the order's, which is the one that names the same price.          *)
(***************************************************************************)
EXTENDS Integers

Side == {"BUY", "SELL"}

Opposite(side) == IF side = "BUY" THEN "SELL" ELSE "BUY"

OrderType == {"LIMIT", "MARKET"}

TimeInForce == {"GTC", "IOC", "FOK", "POST_ONLY"}

OrderStatus ==
  {"ACCEPTED", "PARTIALLY_FILLED", "FILLED", "CANCELLED", "REJECTED"}

SelfTradePolicy == {"CANCEL_TAKER", "ALLOW"}

NoPrice == 0

(* Statuses of an order that is done: no later command may touch it.       *)
Terminal == {"FILLED", "CANCELLED", "REJECTED"}

(* May an order with this side, type and limit trade at this price?        *)
Crosses(order, price) ==
  \/ order.type = "MARKET"
  \/ order.side = "BUY"  /\ price <= order.price
  \/ order.side = "SELL" /\ price >= order.price

(* Resting on `side`, price p is matched strictly before price q.          *)
Better(side, p, q) ==
  IF side = "BUY" THEN p > q ELSE p < q

Smaller(a, b) == IF a <= b THEN a ELSE b

Absolute(n) == IF n < 0 THEN -n ELSE n
=============================================================================
