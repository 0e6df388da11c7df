------------------------------- MODULE Agents -------------------------------
(***************************************************************************)
(* The orders a simulation makes up: the scenarios and the five agents of  *)
(* backend/limitx/simulation.  The generator is seeded; what it draws is a *)
(* choice here.  Every scenario gives each agent and a cancellation some   *)
(* weight, so of a scenario only the drift of its center is left, and the  *)
(* side it forces on market orders, if any.                                *)
(***************************************************************************)
EXTENDS Domain, Sequences

CONSTANTS
  NoiseOffsets,   \* the distances from the center noise traders may draw
  MakerOffsets,   \* those of market makers
  Sizes           \* the quantities each agent may draw

(* An agent is known by its account.                                       *)
Agent == {"maker", "noise", "momentum", "taker", "whale"}

ASSUME OffsetsAssumption == NoiseOffsets \subseteq 2 .. 18 /\ MakerOffsets \subseteq 2 .. 5
ASSUME SizesAssumption == Sizes \in [Agent -> SUBSET (Nat \ {0})]

LowestCenter == 10

Scenario(drift, forced) == [drift |-> drift, forced |-> forced]

(* Mutant: buyers are forced on a falling market.                          *)
ScenariosWithBuyers ==
  [normal |-> Scenario(0, {}), high_volatility |-> Scenario(2, {}),
   liquidity_shock |-> Scenario(-2, {}),
   large_buy_sweep |-> Scenario(0, {"BUY"}), large_sell_sweep |-> Scenario(0, {"SELL"}),
   one_sided_flow |-> Scenario(1, {"BUY"}), flash_selloff |-> Scenario(-4, {"BUY"})]

(* thin_liquidity, cancel_storm, large_market_sweep and spread_compression
   differ from normal in their weights only.                               *)
SCENARIOS ==
  [normal |-> Scenario(0, {}), high_volatility |-> Scenario(2, {}),
   liquidity_shock |-> Scenario(-2, {}),
   large_buy_sweep |-> Scenario(0, {"BUY"}), large_sell_sweep |-> Scenario(0, {"SELL"}),
   one_sided_flow |-> Scenario(1, {"BUY"}), flash_selloff |-> Scenario(-4, {"SELL"})]

(* Mutant: the quotes of both sides are on the wrong side of the center.   *)
QuotedAcross(side, center, offset) ==
  IF side = "BUY" THEN center + offset
  ELSE IF center > offset THEN center - offset ELSE NoPrice

(* A price that is not positive is NoPrice.                                *)
Quoted(side, center, offset) ==
  IF side = "SELL" THEN center + offset
  ELSE IF center > offset THEN center - offset ELSE NoPrice

LimitOrders(agent, tif, sides, offsets, center) ==
  {[account |-> agent, side |-> s, type |-> "LIMIT", tif |-> tif,
    price |-> Quoted(s, center, o), quantity |-> q] :
     s \in sides, o \in offsets, q \in Sizes[agent]}

(* next_command sets the side of a market order its scenario forces.       *)
MarketOrders(agent, sides, forced) ==
  {[account |-> agent, side |-> s, type |-> "MARKET", tif |-> "IOC",
    price |-> NoPrice, quantity |-> q] :
     s \in IF forced = {} THEN sides ELSE forced, q \in Sizes[agent]}

(* The last four trades, the oldest of them first.                         *)
MomentumSides(trades) ==
  LET recent == SubSeq(trades, Len(trades) - Smaller(Len(trades), 4) + 1, Len(trades))
  IN IF recent = << >> THEN Side
     ELSE IF recent[Len(recent)].price < recent[1].price THEN {"SELL"} ELSE {"BUY"}

(* What the agents may make of the step-th command.                        *)
OrdersOf(agent, step, center, forced, trades) ==
  CASE agent = "noise" -> LimitOrders(agent, "GTC", Side, NoiseOffsets, center)
    [] agent = "maker" -> LimitOrders(agent, "POST_ONLY",
                            {IF step % 2 = 0 THEN "BUY" ELSE "SELL"}, MakerOffsets, center)
    [] agent = "momentum" -> MarketOrders(agent, MomentumSides(trades), forced)
    [] agent = "taker" -> MarketOrders(agent, Side, forced)
    [] agent = "whale" -> MarketOrders(agent, {IF step % 3 = 0 THEN "BUY" ELSE "SELL"}, forced)
=============================================================================
