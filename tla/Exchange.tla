------------------------------ MODULE Exchange ------------------------------
(***************************************************************************)
(* EngineGateway of backend/limitx/engine/gateway.py for one symbol: what  *)
(* process_direct does with a command - the risk check, the book, then the *)
(* trades carried into the ledger and the risk positions - and what reset, *)
(* seed and configure_risk do between two commands.                        *)
(*                                                                         *)
(* The journal the handler writes is the subject of module Recovery, the   *)
(* messages it publishes of module MarketData.                             *)
(***************************************************************************)
EXTENDS Ledger, RiskedBook

CONSTANTS
  Commands,       \* the commands clients and simulations may send
  SeedCommands,   \* those of seed(), in its order
  DefaultLimits,  \* the limits the gateway starts with
  OtherLimits     \* those configure_risk may set

(* What OrderRequest and ModifyRequest let through.                         *)
WellFormed(c) ==
  /\ c.kind = "NEW" =>
       /\ c.order.quantity > 0
       /\ c.order.type = "LIMIT" <=> c.order.price # NoPrice
       /\ c.order.type = "MARKET" => c.order.tif \in {"IOC", "FOK"}
  /\ c.kind = "MODIFY" => c.quantity > 0

ASSUME CommandsAssumption == \A c \in Commands : c \in Command /\ WellFormed(c)
ASSUME SeedAssumption == SeedCommands \in Seq(NewCommand)
ASSUME LimitsAssumption == DefaultLimits \in RiskLimits /\ OtherLimits \subseteq RiskLimits

VARIABLES
  ledger,      \* the position of each account in the ledger
  pending,     \* what is left of a seed() in progress
  loosest,     \* history: the limits, each at its loosest so far
  exposed      \* history: accounts whose orders together went past one check

gatewayVars == <<ledger, pending, loosest, exposed>>
vars == <<bookVars, positions, limits, settled, gatewayVars>>

-----------------------------------------------------------------------------
(* Commands.                                                               *)

(* The account of a command that can take it past a limit that was checked:
   one more order beside others that rest, or an order modified.           *)
Exposing(c) ==
  IF c.kind = "NEW" THEN {a \in {c.order.account} : live_order_counts[a] > 0}
  ELSE IF c.kind = "MODIFY" /\ Book!Known(c.id) THEN {orders[c.id].account}
  ELSE {}

Serve(c) ==
  /\ pending = << >>
  /\ Process(c)
  /\ exposed' = exposed \cup Exposing(c)
  /\ UNCHANGED <<ledger, pending, loosest>>

(* The handlers that submit, cancel and modify make one command of a request
   and await its answer.                                                   *)
Request == \E c \in Commands : Serve(c)

Seed ==
  /\ pending # << >>
  /\ Process(Head(pending))
  /\ exposed' = exposed \cup Exposing(Head(pending))
  /\ pending' = Tail(pending)
  /\ UNCHANGED <<ledger, loosest>>

Match == Turn /\ UNCHANGED gatewayVars

(* Mutant: only the taker's position reaches the ledger.                   *)
SettledForTaker(t) ==
  [ledger EXCEPT ![orders[t.taker].account] =
     Applied(@, orders[t.taker].side, t.price, t.quantity)]

Settled(t) ==
  TradeApplied(ledger, orders[t.taker].account, orders[t.maker].account,
               orders[t.taker].side, t.price, t.quantity)

(* A trade goes to the ledger and to the risk positions.                   *)
Settle ==
  /\ SettleRisk
  /\ ledger' = Settled(trades[settled + 1])
  /\ UNCHANGED <<pending, loosest, exposed>>

-----------------------------------------------------------------------------
(* Between two commands.                                                   *)

Idle == AtRest /\ pending = << >>

Looser(l, m) ==
  [f \in DOMAIN l |-> IF l[f] < m[f] THEN m[f] ELSE l[f]]

(* max_absolute_exposure_ticks is not part of the request.                 *)
ConfigureRisk(l) ==
  /\ Idle
  /\ limits' = [l EXCEPT !.max_exposure = limits.max_exposure]
  /\ loosest' = Looser(loosest, limits')
  /\ UNCHANGED <<bookVars, positions, settled, ledger, pending, exposed>>

(* Mutant: reset forgets the risk positions only.                          *)
LedgerKept == ledger

LedgerCleared == [a \in Accounts |-> NoPosition]

(* reset, then seed: the limits stay as they are.                          *)
Reset ==
  /\ Idle
  /\ orders' = [id \in OrderIds |-> NoOrder]
  /\ live_orders' = {}
  /\ live_order_counts' = [a \in Accounts |-> 0]
  /\ book' = [s \in Side |-> [p \in Prices |-> Book!EmptyLevel]]
  /\ index' = [s \in Side |-> {}]
  /\ sequence' = 0
  /\ trades' = << >>
  /\ positions' = [a \in Accounts |-> 0]
  /\ ledger' = LedgerCleared
  /\ settled' = 0
  /\ pending' = SeedCommands
  /\ exposed' = {}
  /\ UNCHANGED <<incoming, limits, loosest>>

(* The lifespan starts the gateway and seeds the book.                     *)
Init ==
  /\ Book!Init
  /\ positions = [a \in Accounts |-> 0]
  /\ ledger = [a \in Accounts |-> NoPosition]
  /\ limits = DefaultLimits
  /\ settled = 0
  /\ pending = SeedCommands
  /\ loosest = DefaultLimits
  /\ exposed = {}

Next ==
  \/ Request
  \/ Seed
  \/ Match
  \/ Settle
  \/ \E l \in OtherLimits : ConfigureRisk(l)
  \/ Reset

Spec == Init /\ [][Next]_vars

-----------------------------------------------------------------------------
(* What must hold.                                                         *)

TypeOK ==
  /\ Book!TypeOK
  /\ positions \in [Accounts -> Int]
  /\ ledger \in [Accounts -> Position]
  /\ limits \in RiskLimits /\ loosest \in RiskLimits
  /\ settled \in 0 .. Len(trades)
  /\ pending \in Seq(NewCommand)
  /\ exposed \subseteq Accounts

Bought(a, k) ==
  LET t == trades[k]
      q == Signed(orders[t.taker].side, t.quantity)
  IN (IF orders[t.taker].account = a THEN q ELSE 0)
     - (IF orders[t.maker].account = a THEN q ELSE 0)

(* The positions the risk check reads, the ledger and the trade log of the
   book agree on every account after every trade and across resets: three
   places that are written separately.  The realized profit of an account is
   what its cash and its holdings at their average cost come to, exactly,
   through additions, partial closings and positions that turn; a flat account
   has no average.  And what one account gains another one lost.            *)
AccountsAgree ==
  /\ \A a \in Accounts :
       LET p == ledger[a]
       IN /\ p.quantity = positions[a]
          /\ p.quantity = MapThenSumSet(LAMBDA k : Bought(a, k), 1 .. settled)
          /\ p.realized_pnl = Plus(Whole(p.cash), Scaled(p.average_entry, p.quantity))
          /\ p.quantity = 0 => p.average_entry = Whole(0)
  /\ MapThenSumSet(LAMBDA a : ledger[a].cash, Accounts) = 0

(* The live-order limit bounds the orders an account has resting, requeued
   and seeded ones included: the check before the book and the count the
   book keeps fit together.  And an account that has one order at a time and
   does not modify it stays within the position limit, however its orders
   fill and whoever trades with it.  (Others do not: the check looks at
   filled quantity only, and modifications are not checked.)  Limits may be
   lowered under resting orders, so the bounds are the loosest there were.  *)
WithinLimits ==
  /\ \A a \in Accounts : live_order_counts[a] <= loosest.max_live_orders
  /\ \A a \in Accounts \ exposed : Absolute(positions[a]) <= loosest.max_position
=============================================================================
