------------------------ MODULE OrderBookRefinement -------------------------
(***************************************************************************)
(* The optimised book implements the reference matcher: what               *)
(* backend/tests/differential/test_reference_matcher.py samples with       *)
(* random command streams, for every sequence of commands of an instance.  *)
(***************************************************************************)
EXTENDS OrderBook

(* The orders of the reference; its sentinel for "no order" is none of them. *)
ReferenceOrders ==
  [account : Accounts, side : Side, type : OrderType, tif : TimeInForce,
   price : Prices \cup {NoPrice}, quantity : Nat, remaining : Nat, filled : Nat,
   priority : Nat]

ASSUME ReferenceSentinelAssumption == NoOrder \notin ReferenceOrders

(* An order of the engine as the reference keeps it.                       *)
AsReference(o) ==
  [account |-> o.account, side |-> o.side, type |-> o.type, tif |-> o.tif,
   price |-> o.price, quantity |-> o.quantity, remaining |-> o.remaining,
   filled |-> o.filled, priority |-> o.priority]

LastPriority ==
  Max({0} \cup {orders[id].priority : id \in {id \in OrderIds : Known(id)}})

(* Orders the risk gateway refused use up an id; the reference never sees
   them.                                                                   *)
Reference ==
  INSTANCE ReferenceBook WITH
    live <- [id \in OrderIds |->
               IF id \in live_orders THEN AsReference(orders[id]) ELSE NoOrder],
    seen <- {id \in OrderIds : Known(id) /\ orders[id].status # "REJECTED"},
    priority <- LastPriority,
    working <- IF incoming = None THEN NoOrder ELSE AsReference(orders[incoming])

(* Every step of the engine is a step of the reference or changes nothing it
   keeps: same trades in the same order, same live orders, same remaining
   quantities, same standing in price-time priority.                       *)
ImplementsReference == Reference!Spec
=============================================================================
