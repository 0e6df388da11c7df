---------------------------- MODULE MCMarketData ----------------------------
(* Commands that trade - the delta, or the trade before it, may find the queue
   full - and commands that are refused.                                    *)
EXTENDS MarketData

Commands ==
  { <<"other", "trade", "other", "other", "book_delta">>,
    <<"other">> }

(* Commands that only update the book: one delta each.                      *)
PlainCommands == { <<"other", "book_delta">> }

AllFaults == {"drop", "delay", "out_of_order", "duplicate"}
=============================================================================
