--------------------------- MODULE MCExplanation ----------------------------
(* Two orders that may meet; either may be cancelled by its time in force or
   by its user.                                                            *)
EXTENDS Explanation

CONSTANTS a1, a2, o1, o2

Orders ==
  [account : Accounts, side : Side, type : {"LIMIT"}, tif : {"GTC", "IOC"},
   price : {1}, quantity : {1, 2}]

NoOrders == {}
=============================================================================
