---------------------------- MODULE MCOrderBook -----------------------------
(* Small instances of OrderBook.                                           *)
EXTENDS OrderBookRefinement

CONSTANTS a1, a2, o1, o2, o3

Limit(sides, prices, quantities, tifs) ==
  [account : Accounts, side : sides, type : {"LIMIT"}, tif : tifs,
   price : prices, quantity : quantities]

Market(sides, quantities, tifs) ==
  [account : Accounts, side : sides, type : {"MARKET"}, tif : tifs,
   price : {NoPrice}, quantity : quantities]

Symmetry == Permutations(OrderIds) \cup Permutations(Accounts)

(* Orders to move about: a post-only order must not be moved into a trade, an
   order may be moved into one of its own account, and a sale at the lower
   price fills part of a purchase that is modified afterwards.             *)
RestingRequests ==
  Limit({"BUY"}, {1}, {2}, {"GTC", "POST_ONLY"}) \cup Limit({"SELL"}, {1, 2}, {1}, {"GTC"})

RefusedRequests == Limit({"BUY"}, {1}, {1}, {"GTC"})

(* A little of everything, the malformed submissions the book itself must
   refuse included.                                                        *)
MixedRequests ==
  Limit({"BUY"}, {1, 2}, {1, 2}, {"GTC"})
    \cup Limit({"SELL"}, {1, 2}, {2}, {"GTC"})
    \cup Limit({"BUY"}, {2}, {2}, {"IOC", "FOK", "POST_ONLY"})
    \cup Limit({"SELL"}, {1}, {2}, {"FOK"})
    \cup Market({"SELL"}, {2}, {"FOK"})
    \cup Market({"BUY"}, {1}, {"GTC", "IOC"})
    \cup Limit({"BUY"}, {NoPrice}, {1}, {"GTC"})

NoRequests == {}
=============================================================================
