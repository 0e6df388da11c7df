-------------------------- MODULE MarketSimulation --------------------------
(***************************************************************************)
(* A simulation at work on the gateway's book: next_command of             *)
(* backend/limitx/simulation/engine.py, which reads the live orders and    *)
(* the trades, and the command it makes, which runs when the worker comes  *)
(* to it - other commands may have run in between.  After every command    *)
(* the gateway scans the events of its book for alerts.                    *)
(*                                                                         *)
(* How simulations are started, paused and cancelled is the subject of     *)
(* module Simulation, also what happens to a command that is in the queue  *)
(* at that moment: here a simulation ends between two of its commands.     *)
(***************************************************************************)
EXTENDS Exchange, Agents, Surveillance

CONSTANTS
  Opening,       \* opening_prices: where the center of a simulation begins
  ScenarioKeys,  \* the scenarios users may start
  MaxSteps,      \* bound: the operations of a simulation
  MaxCompany     \* bound: simulations on a book and others' commands there

ASSUME OpeningAssumption == Opening \in Nat /\ Opening > LowestCenter
ASSUME ScenariosAssumption == ScenarioKeys \subseteq DOMAIN SCENARIOS
ASSUME MarketBoundsAssumption == MaxSteps \in Nat /\ MaxCompany \in Nat \ {0}
ASSUME AgentsAssumption == Agent \subseteq Accounts /\ Agent \X (1 .. MaxSteps) \subseteq OrderIds

(* seed() has ids of its own, and a gap between its bids and its asks.      *)
ASSUME SeedsAssumption ==
  \A k \in DOMAIN SeedCommands :
    LET c == SeedCommands[k]
    IN /\ c.id \notin Agent \X (1 .. MaxSteps)
       /\ c.order.type = "LIMIT"
       /\ IF c.order.side = "BUY" THEN c.order.price < Opening ELSE c.order.price > Opening

VARIABLES
  simulation,    \* its scenario, and where it is; or NoSimulation
  asked,         \* its command that waits for the worker, or None
  events,        \* book.events, those that are scanned for
  simulations,   \* history: how many have begun on this book
  visits         \* history: how often others did something on this book

simulationVars == <<simulation, asked, simulations, visits>>
marketVars == <<vars, simulationVars, events>>

NoSimulation == [scenario |-> "none", step_number |-> 0, id_counter |-> 0, center |-> Opening]

-----------------------------------------------------------------------------
(* The events of the book.                                                 *)

Acceptance(id, order) ==
  [type |-> "ORDER_ACCEPTED", id |-> id, sequence |-> sequence + 1,
   account |-> order.account, limit |-> order.type = "LIMIT",
   price |-> order.price, quantity |-> order.quantity]

TradeReport(t) ==
  [type |-> "TRADE_EXECUTED", id |-> t.taker, sequence |-> sequence + 1,
   account |-> orders[t.taker].account, price |-> t.price, quantity |-> t.quantity]

Cancellation(id) == [type |-> "ORDER_CANCELLED", id |-> id, sequence |-> sequence + 1]

Modification(id) == [type |-> "ORDER_MODIFIED", id |-> id, sequence |-> sequence + 1]

(* What a command comes to before its first trade.                         *)
CommandEvents(c) ==
  CASE c.kind = "NEW" /\ incoming' = c.id -> {Acceptance(c.id, c.order)}
    [] c.kind = "CANCEL" /\ Book!MayTouch(c.id, c.who) -> {Cancellation(c.id)}
    [] c.kind = "MODIFY" /\ Book!Modifiable(c.id, c.who, c.quantity, c.price) ->
         {Modification(c.id)}
    [] OTHER -> {}

(* A turn of the matching trades or cancels, if the order is not to rest.  *)
MatchEvents ==
  IF trades' # trades THEN {TradeReport(trades'[Len(trades')])}
  ELSE IF orders'[incoming].status = "CANCELLED" THEN {Cancellation(incoming)}
  ELSE {}

Run(c) == Serve(c) /\ events' = events \cup CommandEvents(c)

-----------------------------------------------------------------------------
(* Simulations.                                                            *)

Begun(key) == [NoSimulation EXCEPT !.scenario = key]

(* On a new book, once it is seeded.                                       *)
StartAfresh(key) ==
  /\ asked = None
  /\ Reset
  /\ simulation' = Begun(key)
  /\ simulations' = 1 /\ visits' = 0
  /\ events' = {}
  /\ UNCHANGED asked

(* On the book there is: it may hold the orders of an earlier one.         *)
StartOn(key) ==
  /\ asked = None /\ Idle
  /\ simulations + visits < MaxCompany
  /\ simulation' = Begun(key)
  /\ simulations' = simulations + 1
  /\ UNCHANGED <<vars, asked, visits, events>>

Running == simulation # NoSimulation

(* Mutant: the center falls without end.                                   *)
DriftedFreely(center, drift) == IF center + drift > 0 THEN center + drift ELSE 0

Drifted(center, drift) ==
  IF center + drift > LowestCenter THEN center + drift ELSE LowestCenter

(* The prices hold all that the simulations can quote.                     *)
ASSUME QuotesAssumption ==
  \A key \in ScenarioKeys, n \in 1 .. MaxSteps, s \in Side, o \in NoiseOffsets \cup MakerOffsets :
    Quoted(s, Drifted(Opening, SCENARIOS[key].drift * n), o) \in Prices \cup {NoPrice}

(* Mutant: the counter is that of the steps of before.                     *)
NumberedByKind(id_counter, live) == IF live = {} THEN id_counter + 1 ELSE 1

Numbered(id_counter, live) == id_counter + 1

(* Mutant: a cancellation names the account of the simulation's agent.     *)
CancelByMaker(id) == [kind |-> "CANCEL", id |-> id, who |-> "maker"]

(* Any live order, whoever placed it, in the name of who placed it.        *)
CancelOf(id) == [kind |-> "CANCEL", id |-> id, who |-> orders[id].account]

(* next_command.                                                           *)
NextCommand ==
  LET scenario == SCENARIOS[simulation.scenario]
      step == simulation.step_number + 1
      center == Drifted(simulation.center, scenario.drift)
      moved == [simulation EXCEPT !.step_number = step, !.center = center]
      n == Numbered(simulation.id_counter, live_orders)
  IN /\ Running /\ asked = None /\ Idle
     /\ simulation.step_number < MaxSteps
     /\ \/ /\ \E id \in live_orders : asked' = CancelOf(id)
           /\ simulation' = moved
        \/ /\ \E agent \in Agent :
                \E o \in OrdersOf(agent, step, center, scenario.forced, trades) :
                  asked' = [kind |-> "NEW", id |-> <<agent, n>>, order |-> o]
           /\ simulation' = [moved EXCEPT !.id_counter = n]
     /\ UNCHANGED <<vars, simulations, visits, events>>

(* The worker comes to it.                                                 *)
RunAsked ==
  /\ asked # None
  /\ Run(asked)
  /\ asked' = None
  /\ UNCHANGED <<simulation, simulations, visits>>

-----------------------------------------------------------------------------
(* Others.                                                                 *)

Visit ==
  /\ simulations > 0 => simulations + visits < MaxCompany
  /\ \/ \E c \in Commands : Run(c)
     \/ \E l \in OtherLimits : ConfigureRisk(l) /\ UNCHANGED events
  /\ visits' = Smaller(visits + 1, MaxCompany)
  /\ UNCHANGED <<simulation, asked, simulations>>

ResetBook ==
  /\ asked = None
  /\ Reset
  /\ simulation' = NoSimulation
  /\ simulations' = 0 /\ visits' = 0
  /\ events' = {}
  /\ UNCHANGED asked

(* What goes on of itself.                                                 *)
Proceed ==
  /\ \/ Seed /\ events' = events \cup CommandEvents(Head(pending))
     \/ Match /\ events' = events \cup MatchEvents
     \/ Settle /\ UNCHANGED events
  /\ UNCHANGED simulationVars

MarketInit ==
  /\ Init
  /\ simulation = NoSimulation /\ asked = None
  /\ simulations = 0 /\ visits = 0
  /\ events = {}

MarketNext ==
  \/ \E key \in ScenarioKeys : StartAfresh(key) \/ StartOn(key)
  \/ NextCommand
  \/ RunAsked
  \/ Visit
  \/ ResetBook
  \/ Proceed

MarketSpec == MarketInit /\ [][MarketNext]_marketVars

-----------------------------------------------------------------------------
(* What must hold.                                                         *)

MarketTypeOK ==
  /\ TypeOK
  /\ simulation.scenario \in ScenarioKeys \cup {"none"}
  /\ simulation.step_number \in 0 .. MaxSteps
  /\ simulation.id_counter \in 0 .. simulation.step_number
  /\ simulation.center \in Nat \ (0 .. LowestCenter - 1)
  /\ asked # None => asked \in Command
  /\ simulations + visits \in 0 .. MaxCompany
  /\ \A e \in events : e.id \in OrderIds /\ e.sequence \in 1 .. sequence

(* The book holds the seeds, and the orders of one simulation.             *)
Undisturbed == Running /\ simulations = 1 /\ visits = 0

Forced == SCENARIOS[simulation.scenario].forced

Ahead ==
  LET drift == SCENARIOS[simulation.scenario].drift
  IN (IF drift > 0 THEN {"BUY"} ELSE {}) \cup (IF drift < 0 THEN {"SELL"} ELSE {})

(* Quotes and noise stand behind the center, and the center moves one way:
   whatever was cancelled and traded, their orders meet the book only in the
   direction of the drift.  So a scenario that forces a side on its
   aggressors ("Forced sell aggressors", scenarios.py:150) has no other.   *)
AggressorsAsForced ==
  Undisturbed =>
    /\ (asked # None /\ AtRest /\ asked.kind = "NEW" /\ asked.order.type = "LIMIT")
         => (asked.order.price # NoPrice /\ Book!CrossesBook(asked.order)
               => asked.order.side \in Ahead)
    /\ Forced # {} => \A k \in DOMAIN trades : orders[trades[k].taker].side \in Forced

(* A command of a simulation that is alone on its book finds what it was
   made for: its id is new, the order it cancels is there, its price is one
   unless the center has come as near to 0 as an offset is large.  Beside
   others it may come too late to cancel, but never in another's name, and
   its id is taken only if one of them made up the same; beside the orders of
   an earlier simulation its ids may be taken.                             *)
CommandsFindTheirBook ==
  (asked # None /\ AtRest /\ pending = << >>) =>
    /\ asked.kind = "CANCEL" /\ asked.id \in live_orders => Book!MayTouch(asked.id, asked.who)
    /\ asked.kind = "NEW" /\ simulations = 1 /\ Book!Known(asked.id)
         => \E c \in Commands : c.kind = "NEW" /\ c.id = asked.id
    /\ Undisturbed =>
         /\ asked.kind = "CANCEL" => asked.id \in live_orders
         /\ asked.kind = "NEW" =>
              \/ ~Book!Invalid(asked.id, asked.order)
              \/ /\ asked.order.price = NoPrice
                 /\ simulation.center <= Max(NoiseOffsets \cup MakerOffsets)

(* An alert accuses the account it names of nothing others did: its evidence
   is in the window and about that account's orders, no share it speaks of is
   above 100 %, the orders it says were cancelled quickly are cancelled, and
   what it says was swept was filled by that order - though the scan has to
   guess the account of a cancellation from the events in the window.  An
   account that is called Unknown is excepted: the scan charges it with what
   anyone did to orders accepted before the window, and the share of
   cancellations it is told of may then be above 100 %.                    *)
AlertsAreGrounded ==
  Idle =>
    \A alert \in Alerts(events, sequence) :
      /\ alert.evidence # {}
      /\ alert.participant # Unknown => alert.count <= alert.of
      /\ \A e \in alert.evidence :
           /\ \/ orders[e.id].account = alert.participant
              \/ alert.participant = Unknown /\ ~Placed(Recent(events, sequence), e.id)
           /\ e.sequence > sequence - Window
           /\ alert.rule = "SPOOFING_LIKE_QUICK_CANCEL" => orders[e.id].status = "CANCELLED"
           /\ alert.rule = "LARGE_SWEEP" => alert.count <= orders[e.id].filled
=============================================================================
