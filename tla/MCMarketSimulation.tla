------------------------ MODULE MCMarketSimulation ------------------------
(* A seeded book of one bid and one ask around the center.  On it, two
   trading accounts whose orders add to, close and turn positions, rest
   beyond a limit, are requeued into a trade, and meet two settings of the
   limits; and simulations that sell off to the floor or drift with the
   buyers, alone, after one another, or beside a user.                      *)
EXTENDS MarketSimulation

CONSTANTS s1, s2, o1, o2, o3, a1, a2, bidder, asker

New(id, account, side, type, tif, price, quantity) ==
  [kind |-> "NEW", id |-> id,
   order |-> [account |-> account, side |-> side, type |-> type, tif |-> tif,
              price |-> price, quantity |-> quantity]]

Limit(id, account, side, price, quantity) ==
  New(id, account, side, "LIMIT", "GTC", price, quantity)

Center == 15

Seeds == <<Limit(s1, bidder, "BUY", 14, 2), Limit(s2, asker, "SELL", 16, 2)>>

Traffic ==
  { Limit(o1, a1, "BUY", 16, 1),
    Limit(o1, a2, "SELL", 15, 2),
    Limit(o2, a2, "BUY", 14, 2),
    Limit(o2, a1, "SELL", 15, 1),
    New(o3, a1, "SELL", "LIMIT", "IOC", 14, 3),
    Limit(o3, a2, "BUY", 14, 1),
    [kind |-> "CANCEL", id |-> o2, who |-> None],
    [kind |-> "MODIFY", id |-> o2, who |-> a2, quantity |-> 3, price |-> 16],
    [kind |-> "MODIFY", id |-> o1, who |-> None, quantity |-> 1, price |-> 15] }

Open ==
  [max_order_quantity |-> 3, max_notional |-> 48, max_live_orders |-> 2,
   max_position |-> 2, max_exposure |-> 60, price_collar_bps |-> 5000]

Strict ==
  [max_order_quantity |-> 2, max_notional |-> 31, max_live_orders |-> 1,
   max_position |-> 1, max_exposure |-> 60, price_collar_bps |-> 300]

Limits == {Open, Strict}

Steps == 2

Offsets == {2, 10}

AgentSizes == [a \in Agent |-> IF a \in {"maker", "whale"} THEN {2} ELSE {1}]

(* The prices of seeds and users, and those the simulations can reach.      *)
Quotes ==
  ({14, 15, 16} \cup
     UNION { {Quoted(s, Drifted(Center, SCENARIOS[k].drift * n), o) :
                s \in Side, o \in Offsets, n \in 1 .. Steps} : k \in ScenarioKeys })
    \ {NoPrice}

Users == {a1, a2, bidder, asker} \cup Agent

Ids == {s1, s2, o1, o2, o3} \cup (Agent \X (1 .. Steps))

Rules ==
  [adds |-> 2, cancel_percent |-> 50, replacements |-> 1, large |-> 2, quick |-> 4,
   quick_cancels |-> 1, limit_adds |-> 2, prices |-> 2, layer_percent |-> 40,
   levels |-> 2, swept |-> 2]
=============================================================================
