----------------------------- MODULE RiskedBook -----------------------------
(***************************************************************************)
(* A book behind the risk gateway, as three places run it: process_direct  *)
(* of engine/gateway.py for the live book, ReplaySession.step and recover  *)
(* of backend/limitx/replay for a replica.  A new order meets the risk     *)
(* check and then the book; the trades of a command move the positions     *)
(* the next check reads.  The code that does this does not suspend, so a   *)
(* command runs to its end before the next one; its parts are separate     *)
(* actions here because the book's are.                                    *)
(***************************************************************************)
EXTENDS RiskGateway, Sequences, FiniteSetsExt

CONSTANTS OrderIds, Accounts, Prices, StpPolicy, NoOrder, None, MaxSequence

ASSUME AccountsAssumption == IsFiniteSet(Accounts)

NewCommand == [kind : {"NEW"}, id : OrderIds,
               order : [account : Accounts, side : Side, type : OrderType,
                        tif : TimeInForce, price : Prices \cup {NoPrice}, quantity : Nat]]

CancelCommand == [kind : {"CANCEL"}, id : OrderIds, who : Accounts \cup {None}]

ModifyCommand == [kind : {"MODIFY"}, id : OrderIds, who : Accounts \cup {None},
                  quantity : Nat, price : Prices \cup {NoPrice}]

Command == NewCommand \cup CancelCommand \cup ModifyCommand

VARIABLES
  orders, live_orders, live_order_counts, book, index, sequence, trades, incoming,
  positions,   \* risk.state.positions: what the risk check reads
  limits,      \* the risk limits in force
  settled      \* how many trades of the book have been carried on

bookVars == <<orders, live_orders, live_order_counts, book, index, sequence,
              trades, incoming>>

Book == INSTANCE OrderBook
          WITH Requests <- {}, RiskRequests <- {}, ModifyQuantities <- {}, ModifyPrices <- {}

(* What OrderBook assumes of the constants it shares with this module.     *)
ASSUME BookAssumption ==
  /\ IsFiniteSet(OrderIds)
  /\ Prices \subseteq Nat \ {0}
  /\ StpPolicy \in SelfTradePolicy
  /\ NoOrder \notin Book!Order /\ None \notin OrderIds /\ None \notin Accounts

Best(side) ==
  IF index[side] = {} THEN NoPrice
  ELSE CHOOSE p \in index[side] : Book!BestPrice(side, p)

RiskAccepts(r) ==
  Accepts(limits, r, Best("BUY"), Best("SELL"),
          live_order_counts[r.account], positions[r.account])

Submit(id, r) ==
  \/ RiskAccepts(r) /\ (Book!Accept(id, r) \/ Book!RejectSubmit(id, r))
  \/ ~RiskAccepts(r) /\ Book!RejectByRisk(id, r)

(* Only new orders meet the risk check.                                    *)
Process(c) ==
  /\ settled = Len(trades)
  /\ \/ c.kind = "NEW" /\ Submit(c.id, c.order)
     \/ c.kind = "CANCEL" /\ (Book!Cancel(c.id, c.who) \/ Book!RejectCancel(c.id, c.who))
     \/ /\ c.kind = "MODIFY"
        /\ \/ Book!ModifyInPlace(c.id, c.who, c.quantity, c.price)
           \/ Book!ModifyAndRequeue(c.id, c.who, c.quantity, c.price)
           \/ Book!RejectModify(c.id, c.who, c.quantity, c.price)
  /\ UNCHANGED <<positions, limits, settled>>

Turn == Book!Match /\ UNCHANGED <<positions, limits, settled>>

(* The loop over the events of the command.                                *)
SettleRisk ==
  LET t == trades[settled + 1]
  IN /\ incoming = None /\ settled < Len(trades)
     /\ settled' = settled + 1
     /\ positions' = PositionsAfter(positions, orders[t.taker].account,
                                    orders[t.maker].account,
                                    orders[t.taker].side, t.quantity)
     /\ UNCHANGED <<bookVars, limits>>

AtRest == incoming = None /\ settled = Len(trades)
=============================================================================
