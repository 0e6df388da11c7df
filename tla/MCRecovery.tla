----------------------------- MODULE MCRecovery -----------------------------
(* A post-only order that is moved across the book, orders that fill in part,
   rest, leave and are refused by the limits, a cancellation and one in the
   empty account's name, and two settings of the limits.                    *)
EXTENDS Recovery

CONSTANTS o1, o2, o3, a1, a2

New(id, account, side, tif, price, quantity) ==
  [kind |-> "NEW", id |-> id,
   order |-> [account |-> account, side |-> side, type |-> "LIMIT", tif |-> tif,
              price |-> price, quantity |-> quantity]]

Seeds == <<New(o1, a1, "SELL", "GTC", 2, 2)>>

Traffic ==
  { New(o2, a2, "BUY", "POST_ONLY", 1, 1),
    New(o2, a2, "BUY", "GTC", 1, 2),
    New(o3, a2, "BUY", "IOC", 2, 1),
    [kind |-> "MODIFY", id |-> o2, who |-> None, quantity |-> 2, price |-> 2],
    [kind |-> "MODIFY", id |-> o1, who |-> a1, quantity |-> 1, price |-> 2],
    [kind |-> "CANCEL", id |-> o2, who |-> a2],
    [kind |-> "CANCEL", id |-> o1, who |-> EmptyName] }

Open ==
  [max_order_quantity |-> 2, max_notional |-> 4, max_live_orders |-> 2,
   max_position |-> 2, max_exposure |-> 4, price_collar_bps |-> 10000]

Strict == [Open EXCEPT !.max_position = 1]

Limits == {Strict}

OneSetting == {}
=============================================================================
