------------------------------- MODULE Ledger -------------------------------
(***************************************************************************)
(* backend/limitx/analytics/ledger.py: what an account owns, what it paid  *)
(* on average for what it still holds, and the profit it has realized.     *)
(***************************************************************************)
EXTENDS Fractions

Position ==
  [quantity : Int, average_entry : Nat \X Nat, realized_pnl : Int \X Nat, cash : Int]

NoPosition ==
  [quantity |-> 0, average_entry |-> Whole(0), realized_pnl |-> Whole(0), cash |-> 0]

Signed(side, quantity) == IF side = "BUY" THEN quantity ELSE -quantity

(* Mutant: what a short position and a sale are worth counts negative.     *)
SignedCost(p, signed, price) ==
  Plus(Scaled(p.average_entry, p.quantity), Whole(price * signed))

Cost(p, signed, price) ==
  Plus(Scaled(p.average_entry, Absolute(p.quantity)), Whole(price * Absolute(signed)))

(* A trade that opens a position or adds to it moves the average.          *)
Increased(p, signed, price) ==
  [p EXCEPT
     !.quantity = @ + signed,
     !.average_entry = DividedBy(Cost(p, signed, price), Absolute(p.quantity + signed))]

(* Mutant: what is left after the position has turned keeps the old average. *)
AverageUnlessFlat(p, signed, price) ==
  IF p.quantity + signed = 0 THEN Whole(0) ELSE p.average_entry

AverageAfter(p, signed, price) ==
  IF p.quantity + signed = 0 THEN Whole(0)
  ELSE IF Absolute(signed) > Absolute(p.quantity) THEN Whole(price)
  ELSE p.average_entry

(* A trade against the position closes it as far as it goes, and what is
   left of the trade opens one the other way.                              *)
Reduced(p, signed, price) ==
  LET closing == Smaller(Absolute(p.quantity), Absolute(signed))
      direction == IF p.quantity > 0 THEN 1 ELSE -1
  IN [p EXCEPT
        !.quantity = @ + signed,
        !.average_entry = AverageAfter(p, signed, price),
        !.realized_pnl = Plus(@, Scaled(Minus(Whole(price), p.average_entry),
                                        direction * closing))]

Applied(p, side, price, quantity) ==
  LET signed == Signed(side, quantity)
      moved == IF p.quantity = 0 \/ (p.quantity > 0 <=> signed > 0)
               THEN Increased(p, signed, price)
               ELSE Reduced(p, signed, price)
  IN [moved EXCEPT !.cash = @ - signed * price]

(* apply_trade: the taker's position, then the maker's, which may be the
   same one.                                                               *)
TradeApplied(ledger, taker, maker, side, price, quantity) ==
  LET taken == [ledger EXCEPT ![taker] = Applied(@, side, price, quantity)]
  IN [taken EXCEPT ![maker] = Applied(@, Opposite(side), price, quantity)]
=============================================================================
