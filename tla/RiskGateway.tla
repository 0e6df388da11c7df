---------------------------- MODULE RiskGateway -----------------------------
(***************************************************************************)
(* backend/limitx/risk/gateway.py: the checks a new order passes before it *)
(* reaches the matcher, in which only their conjunction is visible to the  *)
(* book, and the positions they read.                                      *)
(***************************************************************************)
EXTENDS Domain

RiskLimits ==
  [max_order_quantity : Nat, max_notional : Nat, max_live_orders : Nat,
   max_position : Nat, max_exposure : Nat, price_collar_bps : Nat]

(* bid and ask are the best prices of the book, NoPrice on an empty side.  An
   order with a price is a LIMIT order: requests have one or are refused, a
   simulation may draw one that is not positive (and counts as 0).          *)
Priced(order) == order.type = "LIMIT"

ReferencePrice(order, bid, ask) ==
  IF Priced(order) THEN order.price
  ELSE IF order.side = "BUY" THEN ask ELSE bid

(* Mutant: a sale is projected like a purchase.                            *)
ProjectedAsBought(order, position) == position + order.quantity

Projected(order, position) ==
  IF order.side = "BUY" THEN position + order.quantity ELSE position - order.quantity

(* Mutant: one order more than the limit.                                  *)
RoomForOneMore(limits, live) == live <= limits.max_live_orders

RoomForOrder(limits, live) == live < limits.max_live_orders

InsideCollar(limits, order, bid, ask) ==
  LET mid == (bid + ask) \div 2
  IN (Priced(order) /\ bid # NoPrice /\ ask # NoPrice) =>
       (Absolute(order.price - mid) * 10000) \div mid <= limits.price_collar_bps

(* check: live and position are those of the order's account.              *)
Accepts(limits, order, bid, ask, live, position) ==
  LET reference == ReferencePrice(order, bid, ask)
  IN /\ order.quantity <= limits.max_order_quantity
     /\ reference * order.quantity <= limits.max_notional
     /\ RoomForOrder(limits, live)
     /\ Absolute(Projected(order, position)) <= limits.max_position
     /\ Absolute(Projected(order, position) * reference) <= limits.max_exposure
     /\ InsideCollar(limits, order, bid, ask)

(* apply_trade: the maker's entry is read after the taker's was written.   *)
PositionsAfter(positions, taker, maker, side, quantity) ==
  LET delta == IF side = "BUY" THEN quantity ELSE -quantity
      taken == [positions EXCEPT ![taker] = @ + delta]
  IN [taken EXCEPT ![maker] = @ - delta]
=============================================================================
