# Limit X: specification and proofs

TLA+ models of Limit X (`dumpydon/limitx`), the TLC configurations that check
them on small instances, and theorems about them that TLAPS checks for every
instance. File references are to the repository root; `order_book.py:N` is
`backend/limitx/engine/order_book.py`, line N.

## 1. The system

Limit X is a simulated exchange. One Python process serves HTTP and WebSocket
clients on one asyncio event loop; per symbol it keeps a matching engine, a
journal, a market-data projector and a worker task. A browser client keeps a
projection of the depth.

| Component | State | Operations | Who calls it |
|---|---|---|---|
| Order book (`engine/order_book.py`, `price_level.py`, `price_index.py`) | all orders, live orders by id, two price indexes of FIFO levels, cached totals and counts, trades, event number | submit, reject_by_risk, cancel, modify, depth, snapshot, from_snapshot | gateway, replay, recovery |
| Reference matcher (`reference/matcher.py`) | a flat map of live orders, seen ids, trades | process | differential tests |
| Symbol worker (`engine/gateway.py:30`) | bounded queue of (command, future), one task | start, stop, submit, `_run` | API, simulation |
| Engine gateway (`engine/gateway.py:70`) | one of each of the parts per symbol | process_direct: risk, book, journal, ledger, positions, projector, broker in one synchronous call; reset, seed | worker, API |
| Risk gateway (`risk/gateway.py`) | limits, positions | check before the book, apply_trade after | gateway, replay, recovery |
| Ledger (`analytics/ledger.py`) | quantity, cost, cash and profit per account and symbol | apply_trade | gateway |
| Journal, recovery, replay (`replay/`) | entries (command, events), recovery points | record, export, load; create_recovery_point, recover; step, jump, run | gateway, API |
| Projector, broker (`market_data/projector.py`) | last depth sequence, recent trades; bounded queue per subscriber | project, snapshot; subscribe, publish | gateway, WebSocket |
| Market client (`frontend/lib/useMarket.ts`) | depth, last applied sequence, status | apply snapshot, apply delta, resync, reconnect | browser |
| Simulation control (`api/main.py:65`, `:252`-`:300`) | task and status per symbol | start, pause, resume, reset | API |
| Explanations (`analytics/explain.py`) | none | the sentence told of an order | API |
| Market simulation (`simulation/`) | scenario, step, id counter, center | next_command | a simulation's task |
| Surveillance (`analytics/surveillance.py`) | none; the gateway keeps its alerts | scan of the last events | gateway |
| Other analytics, analyst, benchmarks, UI | none that others read | read-only views | API |

Hard behaviours, and where they come from:

* **Sweeps.** One command may trade with many makers across levels, stop at an
  own order, and leave a remainder; four representations of the book and three
  cached numbers change on each turn of one loop.
* **Modification.** It either resizes an order where it stands or takes it out
  and executes it again, with what it filled before.
* **The event loop.** Submitters wait for a future the worker resolves; they
  are cancelled (simulation restart, reset, shutdown) at that await; HTTP
  handlers reset a book while commands for it are queued.
* **Recovery.** A recovered book is rebuilt from a snapshot that leaves things
  out, and replays a journal under the limits of the moment.
* **Market data.** Bounded queues overflow, deltas get lost, a snapshot is
  fetched while deltas arrive; the backend falls silent, or the user turns to
  another symbol, while one is on its way.
* **Simulations.** They read a book, and their command runs later, on a book
  that others trade on, or that an earlier simulation left its orders in.

What makes each component correct: the book is consistent, uncrossed and
matches by price, then time; quantity is conserved; its promises to
fill-or-kill, post-only and self-trade-preventing clients hold through every
route; it agrees with the reference. The worker runs every command once, in
order, and answers each one. Positions, ledger and journal are what the trades
say. A recovered book is the live book. A client that is told it is live shows
the depth of the sequence it names. A simulation's commands run on the book it was
made with, at most as long as it is not paused, and it ends; they are commands
that book can take. An alert has its evidence.

## 2. Modules

| Module | Models | Source |
|---|---|---|
| `Domain` | vocabulary: sides, order types, price comparisons | `domain/enums.py`, `domain/order.py` |
| `Levels` | a price level as a queue with cached totals | `engine/price_level.py` |
| `OrderBook` | the matching engine | `engine/order_book.py`, `price_level.py`, `price_index.py` |
| `ReferenceBook` | the abstract specification of matching | `reference/matcher.py` |
| `OrderBookRefinement` | the map from the engine to the reference | |
| `PriceLevel` | the linked nodes under a level | `engine/price_level.py`, `linked_orders.py` |
| `SymbolWorker` | queue, worker task and waiting submitters | `engine/gateway.py:30` |
| `Fractions` | exact fractions | Python's `fractions` (external) |
| `Ledger` | a position and its profit | `analytics/ledger.py` |
| `RiskGateway` | the risk check and its positions | `risk/gateway.py` |
| `RiskedBook` | a book behind the risk gateway | `engine/gateway.py:109`, `replay/*.py` |
| `Exchange` | process_direct, seed, reset, change of limits | `engine/gateway.py:70`, `api/main.py:417` |
| `Agents` | scenarios and the orders of the five agents | `simulation/agents.py`, `simulation/scenarios.py` |
| `Surveillance` | the alerts of a scan | `analytics/surveillance.py` |
| `MarketSimulation` | next_command, simulations and users on the exchange, the scan after each command | `simulation/engine.py`, `api/main.py:65`, `:201`-`:300`, `engine/gateway.py:109`-`:171` |
| `JournalFile` | the JSONL file: export, load, damage | `replay/journal.py` |
| `Recovery` | journal, its conversion of commands, recovery points, recovery, replay, audit | `replay/*.py`, `domain/commands.py`, `order_book.py:539`-`:632` |
| `Feed` | the messages of a command and a full queue | `market_data/projector.py` |
| `MarketData` | server, websocket, snapshot requests, client | `market_data/projector.py`, `api/main.py`, `frontend/lib/useMarket.ts` |
| `Simulation` | the tasks and requests that control simulations, with the worker between them | `api/main.py:42`-`:109`, `:252`-`:300` |
| `Explanation` | the events that mention an order and the sentence chosen | `analytics/explain.py` |
| `MC*` | small instances for TLC | |
| `DataLemmas` | facts about sums, folds, maxima and sequences | |
| `OrderBookProofs`, `RefinementProofs`, `SymbolWorkerProofs`, `SimulationProofs`, `ExchangeProofs`, `MarketSimulationProofs`, `MarketDataProofs` | invariants and theorems | |

How they compose:

```
Domain -- Levels -- OrderBook -- OrderBookRefinement -- ReferenceBook
             |          |
         PriceLevel     +- Explanation
                        |
                        +- RiskedBook (also RiskGateway) -- Exchange (also Ledger)
                                   |                            |  |
                                   +------- the replica ---- Recovery -- JournalFile
                                                                   |
             Agents, Surveillance -------------------- MarketSimulation
SymbolWorker -- Simulation        Feed -- MarketData
```

Mutated forms of definitions stand beside them under "Mutant:" comments; they
are used by no specification. Each shows that a property fails under a
plausible bug.

### OrderBook

State corresponds one to one: `orders`, `live_orders`, `live_order_counts`,
`trades` and `sequence` are the attributes of the class; `book` and `index` are
the two `PriceIndex` objects, split into the levels and the set of prices that
have one. A level is its FIFO of ids with `total` and `count`, the aggregates
the class caches. An account with no entry in `live_order_counts` has 0.

`incoming` is the program counter of a command: the order that
`_execute_accepted` works for. Each turn of its loop is an action
(`PreventSelfTrade`, `TradePartOfMaker`, `TradeAllOfMaker`), and so is each of
the three ways out (`CompleteFilled`, `CancelRemainder`, `RestRemainder`), so
invariants are checked in the middle of a sweep. That the loop ends
(`CommandsEnd`) is stated without fairness: until the command is done a turn is
enabled, and each turn lowers `Left`, live orders plus the quantity that
remains, or is the last. No command starts meanwhile:
the code is synchronous. `Accept` is `submit` up to the loop;
`ModifyAndRequeue` is `modify` up to the loop; `Cancel`, `ModifyInPlace` and
the refusals are whole calls. `_finish_book_update` only numbers an event, and
belongs to the action that ends the command.

Abstractions. Events are reduced to their numbering (their order and payload
add nothing to the state); `arrival_mid` and slippage are statistics on trades;
a price of 0 stands for `None` and every price that is not positive (no path
distinguishes them; `new_price_ticks=None` in `modify` is the order's own
price, which is among `ModifyPrices`); the symbol check is left out, a book has
one symbol. The early return of `_available_liquidity` once it has counted
enough does not change the comparison it is used for and is left out of
`AvailableLiquidity`.

### ReferenceBook and the refinement

The repository tests the engine against `reference/matcher.py`, which shares no
structure with it. `ReferenceBook` is that program as a specification;
`ImplementsReference` says that every step of `OrderBook` is a step of it or
leaves unchanged everything it keeps. The map forgets levels, index, caches and
done orders. Two engines may differ in one thing only: how far the priority
counter advances, which the reference specification leaves open because
priorities are only compared.

### PriceLevel

`OrderBook` takes a level for a queue. `PriceLevel` has the links: `head`,
`tail`, `next`, `previous`, the level of each node and the two aggregates. Its
actions are the calls of the class together with what the caller does to the
order in the same step (`consume` and the fill, the resize of `modify`).
`ImplementsLevels` says that walking the links from the head gives the queue of
`Levels` after every call, so the abstraction the other modules start from is
itself checked.

### SymbolWorker

A task's stretch between two suspensions is one action. `_run` does not suspend
while the queue holds items, so `Drain` empties it, unless a result cannot be
delivered: `set_result` on a cancelled future raises, the `except` branch calls
`set_exception` on the same future, which raises again, and the task ends
(`worker = "dead"`). A submitter is at `put` (`putting`) or at its future
(`waiting`); cancelling it there is `Cancel`, possible for tasks the program
cancels (simulations, `api/main.py:257` and `:292`). `Start` after a stop or a
death makes a new queue and leaves what was in the old one as `orphans`.

`FairSpec`: the event loop runs every task that is ready, so the worker drains a
queue that is not empty, a blocked `put` gets the room there is, and a submitter
with an answer goes on. Nothing is assumed about who submits, cancels or stops.

### RiskedBook, Exchange

`RiskedBook` is what three places of the code do with a command: check a new
order, hand it to the book, and carry the trades into the risk positions. It
takes the actions of `OrderBook` for its own. `Exchange` is the gateway around
it: `Settle` applies a trade to ledger and positions, in the order of the
events; `settled` is the loop variable. A command begins only when the one
before it is settled. `Seed` submits the seeds one after the other through the
same path; `Reset` is `reset` followed by `seed`, as the API calls them;
`ConfigureRisk` keeps the exposure limit, which is not in its request.

Two history variables state what limits promise: `loosest` (each limit at its
loosest so far, as limits may be lowered under resting orders) and `exposed`
(accounts that had several orders at once or modified one; the check looks at
filled quantity only and modifications are not checked). The first statement of
`WithinLimits` one would write, the position limit for all accounts, is false;
the code does not claim it, and the exemption says exactly where it stops.
`WellFormed` is what the API's request models let through; the instances'
commands must satisfy it. An order with a price is one of type LIMIT
(`Priced`), not one whose price is above 0: a simulation may draw a price that
is not positive, which the risk check takes for a price and the book refuses.

Money is exact: the average entry price is a reduced pair of naturals, as
`Fraction` is.

### Agents, Surveillance, MarketSimulation

`Agents` is the generator without its generator of random numbers: what it
draws is a choice (`NoiseOffsets`, `MakerOffsets`, `Sizes`, whichever agent,
whether to cancel). Every scenario gives each agent and a cancellation some
weight, so of a scenario remain its drift and the side it forces.

`MarketSimulation` puts simulations on the exchange. `NextCommand` is
next_command: it reads `live_orders` and `trades` and leaves its command in
`asked`; `RunAsked` is the worker coming to it, and in between a user's command
may run or limits may change (`Visit`). `StartAfresh` and `StartOn` are a start with and without
`reset`; the second leaves the orders and ids of an earlier simulation in the
book. How tasks are cancelled and what becomes of a command in the queue then is
the subject of `Simulation`, so here a simulation ends between two commands.

`events` is the set of the book's events that a scan reads, each with its number;
the window counts all numbers. `Alerts` is scan() with its five rules, evaluated
whenever a command is done, as the gateway does. The numbers in the rules are
constants (`Thresholds`), small in the instance so that each rule fires. A scan
knows whose order an event is about only from the acceptances in its window; the
others go by the name `"unknown"` (`surveillance.py:46`, `:50`), which an account
may have (`Unknown`). That account is charged with what anybody did to orders
accepted earlier, and the share of cancellations it is told of may be above
100 %: `AlertsAreGrounded` exempts just this, and in the instance one of the
two traders has the name.

What is true of a simulation depends on its company, and the properties say how:
`CommandsFindTheirBook` asks that its ids are new if it is the first on its book
(a second one, started without a reset, counts from one again and has orders
refused), and that the order it cancels is still there if nobody else is (else
the cancellation may come too late, but never in another's name). A price
may be one that is not positive only once the center has come down to the
largest offset, which its floor (10) allows for noise (up to 18).
`AggressorsAsForced` is about a simulation alone on its book: its quotes stand
behind a center that moves one way, so only market orders and, in the direction
of the drift, limit orders trade, and a scenario with a forced side has no other
aggressor.

### Recovery

`journal` holds each command as `command_to_dict` writes it and where its events
begin. The entry is made when the command has run, so it holds the order with
what became of it (`AsFound` in `Written` and `RecordedLater`); `command_from_dict`
makes it new again (`ReadBack`). It also turns an empty account name, which a
cancellation or modification may carry (`EmptyName`), into none
(`commands.py:68`, `:80`): live such a command is refused as not the owner's, from
the journal it is done. As to the events: an entry's recorded events are those
up to the next entry's beginning, and "event divergence" is a comparison of their
numbers, the trades among them, and what they say of the order they are about
(`SameEvents`, with `Told`); the wording of a refusal is left out. Checksums are
digests of `canonical_state`, compared as that state (`Checksum`,
`RebuiltChecksum`). `Taken` is `snapshot()`, with what it leaves out left out;
`Restore` is `from_snapshot`, placeholders for done ids included. `Verify` and
`Replay` put the restored book in a replica (a second instance of `RiskedBook`)
and feed it the journal with `ReplayEntry` and `ReplayOn`; `diverged` is whether
the events of an entry were others than recorded.

A verification is one synchronous handler, so nothing else moves meanwhile. A
replay runs in a thread on the entries that were there when it began; a journal
only grows and a reset replaces it, so the result is the same as if it ran at
once. But its answer is made when the event loop comes back to the handler, from
the journal of that moment (`Respond`): `answer` is the replay whose thread has
ended, commands and resets may come before it is given. `AnswersWhatItReplayed`
says that the entry it then shows is the one the replay came to; after a reset
(`outlived`) the code gives no such promise, the index may even be past the end
of the new journal, and the property exempts it. A replay goes to any position
there is; a position past the end is refused by `jump`.

`JournalFile` is the file: `Load` is a fold over its lines with the checks of
`load`. `Damaged` are the ways a file is found after a fault: cut at a line, cut
in a line, a line missing, doubled or swapped. The audit of a file is a replay of
the entries it loads, under the default limits, with the events compared and the
checksum at the end (`PassesAudit`): the replica's own replay, when it has come
to as many entries. `AuditCatchesDamage` says that a damaged file does not load
or loads the beginning of the journal, and that the replay of this, whatever
limits it ran under, does not pass unless it is everything - or the file was cut
before its footer, which loads (`journal.py:104`) and leaves nothing to compare.

That an undamaged file passes is not so in general, and is part of
`RebuildFaithful`. This is conditional on four things the code gives no promise
for, or breaks: the limits of the entries were those of the rebuild (the journal
does not record limits; a replay and an audit use the default ones), no command
named the empty account (`OwnersNamed`), no reset came between (points survive
it) and no post-only order rested at the point (see 4). The run reaches all
four: without its condition each makes the property fail.

### Feed, MarketData

A depth is named by its *edition*, which grows with every command the book
accepts and never returns, not even at a reset, where the sequence does. So the
model tells an old depth from a new one with the same number. `Project` and
`Offered` are `project` and `publish`; in `MarketData`, `Command` is
process_direct from the book's events on. An accepted command, a cancellation
included, emits exactly one book update and emits it last
(`_finish_book_update`); a refused one emits none, takes a number and leaves the
depth as it is. `Reset` replaces book and projector and submits the seeds, each
a command of two events, which publishes its delta to a queue that may overflow
between two of them.
`wire` is what the websocket carries, in order; `fetch` is the snapshot request,
whose answer comes on another connection and may be overtaken or fail. The
client's variables are those of `useMarket` (`resyncing` is `resyncingRef`).
The Failure Lab's faults are `Arm` and `InjectFault`; an out-of-order delta is
kept from the client, as in the code.

The socket lives in an effect that depends on `backendStatus` and `symbol`.
`backend` is what the health poll found; each change of it disposes of the
socket (`Dispose`), and `TIMEOUT` waits for the user (`RetryBackend`). `Switch`
is one change of symbol: from then on the server's variables are those of the
other book, whose editions are the higher ones, and `left` is the snapshot of
the book left behind. The request on its way and the timeout of a delayed
delta, which nothing cancels, now bring that snapshot, and the client applies it
(`useMarket.ts:87`): `strayed` holds while that is the last it applied, and
`CurrentUnlessOvertaken` says that in every other case the client shows the
symbol the user turned to.

Left out: the trade tape, the log of synchronisation events, the animation.
A reset can make a delta of the new book fit a depth of the old one; the full
depth in every delta hides it, and `NoBlindDelta` exempts it (`SameBook`).

History variables: `seen` and `latest` (what reached the client, by websocket
and either way), `gap` (the delta that raised the last gap), `late` and
`overtaken` (a depth went past the client that its snapshot did not have),
`strayed`, `failed`.

`FairSpec` assumes that a snapshot request is answered or fails, and that the
browser handles the snapshot a connection begins with once it is there (its
event loop runs `onmessage`). It does not assume that a socket holds, that it
reconnects, or that commands come: `ConnectionsShow` has the connection that
holds as its premise. A request that fails leaves the status RESYNCING with
nothing on its way until the next delta that does not follow (`useMarket.ts:85`-`:90`);
`failed` is the history of that, and `ConnectionsShow` exempts it: in every
other case the client shows a book or a request for one is on its way.

### Simulation

`task` says where the task of each request to start stands: not asked for
(`none`), its request waiting for the task it cancelled (`starting`), `created`
but not begun, at its `process` call (`processing`), at its sleep or held there
by a pause (`sleeping`), `cancelled` inside the coroutine, `doomed` if it was
cancelled before its first step (it then never enters the `try` whose handler
sets `IDLE`), and `ended`. `CancelThenStart` and `GoOn` are `simulation_start`
before and after its await; between them any other request may run. `Worker` is
`SymbolWorker` with the simulation's commands as the cancellable submitters, so
cancelling a task that awaits its answer cancels the future in the queue.

The book is reduced to one question: has the gateway replaced the book a
simulation was made with (`outdated`), and did a command run on the other one
(`astray`). Full speed leaves out most sleeps; those runs are the ones in which
nothing else moves during the sleep.

Two exemptions, both the code's: a simulation that lost its registration to
another request that waited for the same task (`unwatched`; two requests look
the task up before their await, `main.py:257`, and both create one), and the
command whose cancelled future ends the worker. `PauseHolds` is about
simulations that had begun when the pause came: `_run_simulation` sets RUNNING in
its first step and forgets an earlier pause (`main.py:74`).

`FairSpec` is the event loop: every task that is ready gets its turn, the worker
drains its queue, a request goes on when what it awaits is done. No request,
pause, reset or shutdown is assumed. `SimulationsEnd` therefore allows a
simulation that is paused for ever or has lost its worker.

### Explanation

The book's actions with the journal's events that mention each order
(`evidence`), and the choice of a sentence in the order of the `elif`s. It is
there for one question, whether the two sentences about cancellations are true.

## 3. Runs

Each run checks one question. `MaxSequence` stops new commands once that many
events exist (the command in progress always runs to its end); `MaxEdition`,
`MaxStarts`, `MaxRuns`, `MaxRefused`, `MaxResets`, `MaxSteps`, `MaxCompany`, `LatestPoint` and
`Overtaking` are of the same kind. That
is why runs of the book, the exchange and recovery do not check deadlock: the
real ones accept commands forever. Those of the worker and of simulations do not
either: each command is submitted once, and a shut down application is left with
nothing to do.

| Run | Question | Bounds |
|---|---|---|
| `sweep` | the engine implements the reference; price-time priority and fill-or-kill in a sweep; commands end | 3 orders, 2 accounts, 2 prices, quantities 1-2, every time in force and both order types, MaxSequence 7: two makers rest (4 events) and a third order sweeps both levels |
| `modify` | consistency, caches, conservation, post-only and finality under modification, cancellation and risk refusals | 3 orders, 2 accounts, modification to quantities 1-3 and prices none, 1, 2, MaxSequence 9: a partial fill (7 events) and then a modification or cancellation |
| `price_level` | links, aggregates, the queue | 4 nodes, 2 levels: a node leaves at the front, middle or back of three |
| `worker_service` | order, truthful answers, service | 4 commands, capacity 2, one failing, two cancellable, one restart: two submitters block |
| `exchange` | positions, ledger, trade log and limits; a simulation's commands on the book; alerts | 2 traders against 2 seeds around a center of 15, 3 ids of theirs, two settings of the limits; 2 scenarios (one sells down to the floor, one drifts up) of 2 operations with ids of their own; one other company at a time (a user's command, a change of limits, or a second simulation); a window of 8 events; MaxSequence 12: an account opens, closes in part and turns after a reset or a change of limits; a simulation trades, quotes at a price that is not positive and cancels; every rule of the scan fires |
| `recovery` | replay and recovery are faithful, an undamaged file passes its audit, the answer shows what was replayed, a damaged file is caught | 3 ids, one seed, new orders of three kinds, moves, a cancellation and one in the empty account's name, two settings of the limits, a point after at most 2 entries, MaxSequence 6: a partial fill or a refusal before the point and a move, a cancellation or a trade after it; one command may begin before an answer (`Overtaking`), and resets |
| `feed` | the browser ends with the book | capacity 2 with commands of two messages (trade, delta: they fill an empty queue, and overflow any other at the first or the second of them), one refusal between two updates, one reset, one change of symbol to a book at sequence 4, all faults, MaxEdition 4 |
| `simulation` | simulations under start, pause, resume, reset and shutdown | 3 requests to start (two can wait for the same task), 2 operations each (one to be caught in the queue, one to be held before), queue of 1 (one task blocks), 1 request for a new book |
| `worker_alone` | each symbol keeps its worker (violated) | 1 simulation of 1 operation, 1 reset |
| `live_is_current` | a live client is current (violated) | one book of two-event commands, the out-of-order fault of the Failure Lab, no reset, no change of symbol: a resynchronisation, a second update during it, its delta, the older answer |
| `recovery_restricted` | recovery reproduces the journal (violated) | as `recovery`, one setting of limits |
| `explanation` | cancellations are explained as they were (violated) | 2 orders of 2 accounts that may meet, GTC and IOC, MaxSequence 8 |

Two prices are enough for a sweep to empty a level and reach the next; three
orders for a queue with a first and a second place and a taker, or a taker and
makers on two levels; two accounts for a self-trade in the middle of a sweep of
another account's order. `Permutations` of ids and of accounts are symmetries
of the book: no action treats one id or account differently. The runs with
named commands use none.

Properties worth a note: `BookConsistent` is what `assert_invariants` checks
between commands in audit mode, here after every turn; `PriceTimePriority` is
an action property over each new trade; `FillOrKillAllOrNothing` relates the
count made before acceptance to the sweep after it; `TerminalIsFinal` covers
late cancels, modifications and reused ids; `ServedInOrder` compares what ran
and what waits with what was accepted, across the worker's death;
`AccountsAgree` compares three records of the same trades, and the profit with
the cash; `CommandsFindTheirBook` relates what a simulation read to the book its
command meets; `AlertsAreGrounded` relates an alert, which is drawn from a window
of events alone, to the orders themselves;
`CompleteMeansAll` relates the status a user reads to what the worker ran;
`CurrentUnlessOvertaken` says that the only way to be live and behind is the one
of `live_is_current`, and the only way to show the symbol left behind an answer
to a request made for it.

## 4. Where code and documents disagree

* `worker_alone`: a submitter cancelled while it awaits its result ends the
  symbol's worker (`gateway.py:63`-`:65`), against "Each symbol has one mutation
  worker" (`README.md:104`). The run is four steps: a simulation starts, its task
  submits a command, a reset cancels the task at its await, and the worker takes
  the command.
* `live_is_current`: a gapped delta that arrives during a resynchronisation is
  discarded (`useMarket.ts:207`); if the snapshot was taken before it, the
  client is live with an old book until the next delta, against
  `docs/market-data.md:10` and `:24`. In the run the resynchronisation is that of
  an out-of-order delivery, of which `:16` says that one fault produces one
  authoritative recovery cycle: the snapshot is taken, the next command's delta
  is discarded, the snapshot arrives.
* `recovery_restricted`: a snapshot does not keep the time in force and
  `from_snapshot` restores GTC (`order_book.py:603`), so a later modification of
  a post-only order replays differently and recovery reports FAIL, against
  `docs/replay.md:15`-`:18` and `docs/invariants.md:23`.
* `explanation`: the explanation of an order looks at its status and its trades
  and not at the reason of its cancellation (`explain.py:96`, `:113`), so an
  order cancelled at once by its time in force is said to have rested and been
  cancelled by its user, and one that traded and was cancelled by its user, or
  by self-trade prevention, to have been cancelled by its time in force, against
  `docs/ai-grounding.md:29`.

## 5. Proofs

All from the named assumptions of the modules (finite sets of ids and accounts,
prices and quantities that are positive, sentinels that are no members, and
what the code says of its inputs), for every value of the constants. Every
property a theorem states is also checked by a run.

**OrderBook** (`OrderBookProofs`, both self-trade policies). `Invariant`
(`Spec => []IInv`), and from it `TypeCorrect`, `BookIsConsistent`,
`BookIsUncrossed`, `OrdersAreKept` (`TypeOK`, `BookConsistent`, `Uncrossed`,
`NoOrderLost`). `BookConsistent` is not inductive alone. A remainder rests behind
its level only if it is younger than every live order, and rests without
crossing only because the loop ended for that reason; a requeued order is
younger because its priority is the number of a new event. So `IInv` adds
`OrdersOK` (priorities do not exceed the event number, filled plus remaining is
the quantity, the status says where the order is) and `IncomingOK` (the order in
execution is recorded, youngest, has a price if it may rest, and takes nothing
if post-only). There is one lemma per action. The shape of the book is stated as
a predicate of four values (`Placed`), so a step is taken in two halves, the
levels first and the orders second. Over it stand

* `PostOnlyRests` (`PostOnlyNeverTakes`) with `TakersOK`: the takers on the log
  keep a time in force that is not post-only, also when one is requeued;
* `QuantitiesAreKept` (`QuantitiesAddUp`) with `NumbersOK` and `FilledOK`: cached
  totals, counts and what an order has filled are sums over sets that a step
  changes in one element;
* `FillOrKillIsAllOrNothing` with `EnoughForFOK`: what the order in execution
  still needs is at most what the orders it will reach have left (`Reached`,
  under `CANCEL_TAKER` those before its first own one), and a turn takes the same from both;
* `DoneIsDone`, `TradesByPriority` (`TerminalIsFinal`, `PriceTimePriority`),
  action properties, from `IInv`; the head of the best level precedes every other
  candidate because levels are ranked;
* `TurnsTakeAway`, the half of `CommandsEnd` without ENABLED.

The reference (`RefinementProofs`): `BookImplementsReference` (`ImplementsReference`).
The initial state is one of `ReferenceBook`, and each action is the reference's
action of the same name, or a stutter. The heart is that the head of the best
level is the reference's best candidate, and that liquidity counted over levels
is the same as over the flat map. It assumes one sentinel
(`ReferenceSentinelAssumption`).

**PriceLevel** (`RefinementProofs`, its second half): `LevelTypeCorrect`,
`LinksAreReciprocal`, `AggregatesAreExact`, and `ListsImplementQueues`
(`ImplementsLevels`), all from `LevelInvariant`. The inductive invariant says that for every level some sequence of distinct nodes
*spells* its links (head and tail are its ends, each link its neighbour), its
members are the nodes of the level, and the total is their sum. An append
extends the witness and a removal cuts it at the node's position, whatever of
the four branches the code takes; `Walk` is that sequence, so each call is one
of `Levels`.

**SymbolWorker** (`SymbolWorkerProofs`): `TypeCorrect`, `AnswersAreAlwaysTrue`,
`ServiceIsInOrder` (`ServedInOrder`). For the answers the strengthening is that a
command not yet submitted is in no queue and has not run, so the fresh future of
`submit` is not that of a command that ran. For the order it is the map from
what ran and waits to places in what was accepted.

**Simulation** (`SimulationProofs`): `TypeCorrect`, `BooksAreKept`
(`OneBookPerSimulation`), `CompleteIsComplete`, `PausesHold` (`PauseHolds`). The
worker between the tasks is the one proved about: `SymbolWorkerProofs` is
instantiated, and its theorems are cited for its steps. The invariant adds that
a pending command in the queue is the last one of a simulation that awaits it
(`PendingIsLatest`), that a live task is the registered one or was lost
(`Watched`), and that a simulation whose book was replaced has been cancelled or
was lost (`BooksKept`): the cancellation reaches the future in the queue before
the worker does.

**Exchange** (`ExchangeProofs`): `TypeCorrect`, `AccountsAreInAgreement`
(`AccountsAgree`), `LimitsHold` (`WithinLimits`). The book's proof is instantiated
with any request at all (`B`), as the gateway decides which it submits;
`BookAssumption` gives its constants what `OrderBook` assumes. An account's
quantity in the ledger and its risk position are the signed sum over the settled
part of the trade log (`HeldOf`); the ledger's profit is exact because every
fraction is kept in least terms; each trade takes from one account what it gives
the other. For the limits: the room for the order in execution (`RoomOK`), and
for every account that never had two orders at once (`PathOK`), that it is within
its limit after each trade not yet settled and would be if its order filled; so
the check, which reads positions that lag behind, was enough.

**Recovery** (`ExchangeProofs`, its last part): `JournalIsTyped` (`JournalTypeOK`),
`ReplaysAreAnswered` (`AnswersWhatItReplayed`) and `AuditIsSound`
(`AuditCatchesDamage`). Every step of `RecoverySpec` is a
step of the gateway or leaves it alone, so the gateway's invariant is there
(`RecoveryInvariant`). To it comes `RInv`. The entry of an order
in execution is written again at every turn of the loop, so it says which entry
that is: the last one, whose order is `incoming` (`LastOK`); that it is not the one
an answer shows (`AnswerOK`), because nothing is in execution while a replica is
rebuilt (`RebuildOK`); and that entries rise strictly, the last one below
the book's own number (`JournalOK`), because every command numbers an event.

`AuditIsSound` is about every file that a fault can leave of a journal of any
length. `Load` is a fold over the lines of a file, so there is a function that
tells what each line left it with (`LoadedByLine`); of a file of an export's lines
what has been loaded at any point is the first entries of the export
(`WhatIsLoaded`), since an entry that does not carry the next index ends the load.
A file that still has its footer has its checksum, which holds the number of the
book's last event. A replay of fewer entries that did not diverge has come to the
number at which the next entry begins, and that is below the book's
(`EntriesBeginEarlier`): so all of it was loaded. `SeededAssumption` is that a
book's seeds are the first entries (`gateway.py:156`), so a journal without any
belongs to a book without an event. Nothing is assumed of the limits or the
accounts in the entries, since a replay that goes another way diverges.

**MarketSimulation** (`MarketSimulationProofs`): `MarketIsTyped` (`MarketTypeOK`),
`SidesAreForced` (`AggressorsAsForced`), `CommandsAreTimely`
(`CommandsFindTheirBook`), `AlertsAreTrue` (`AlertsAreGrounded`),
`AccountsAgreeInSimulations` and `LimitsHoldInSimulations`, for any scenarios,
offsets, sizes, window, thresholds, users' commands and number of operations. A
step of a simulation or a user is a step of the gateway or leaves it alone
(`MarketMoves`), so the gateway's invariant `IInv` is there; `MarketInvariant` is
`MInv`, which adds

* `SimulationOK`: the center is `Opening` moved by the drift of as many steps as
  were taken, not below the floor. Only so does one know that it moves one way;
* `AskedOK`: the command in the queue is one an agent made up at this center, or
  a cancellation in the name of the order's owner, whatever ran since;
* `IdsOK`: on the book of a first simulation an id of its agents is taken only if the
  simulation has counted past it or a user's command carries it;
* `AloneOK`: while a simulation is alone, what rests stands behind the center
  unless the center drifts towards it, the order in execution came from behind the center
  or from a forced side, and the order to cancel is still live. A quote never
  crosses, so a taker is a market order, or a limit order on the side of the drift;
* `EventsOK`: events are about recorded orders, with past numbers and the right
  accounts; an order has one event of cancellation at most; what an order's events report
  traded is no more than it has filled. The bounds of each rule of the scan, on
  sums and cardinalities over a window, follow from these alone.

The assumptions are those of the modules: agents are accounts with ids of their
own (`AgentsAssumption`); the offsets drawn and the quantities are positive (`OffsetsAssumption`, `SizesAssumption`);
seeds rest on either side of the opening price (`SeedsAssumption`); `Prices` has
every price that can be quoted within the operations (`QuotesAssumption`).

**MarketData** (`MarketDataProofs`): `MarketDataTypes`, `NewestDepthArrives`
(`NewestArrives`), `LiveClientsAreCurrent` (`CurrentUnlessOvertaken`) and
`NoDeltaIsBlind` (`NoBlindDelta`), for any capacity, commands, number of seeds,
faults, resets and changes of symbol. The invariant is that *some* numbering of
editions (`num`) agrees with every depth in the system, on the server, in the
stream, in an answer on its way and at the client, and grows within a book: so
a number tells the editions of one book apart. The stream is wire and queue
together, and it is `Settled`: its depths never fall, each delta finds the
edition before its own in front of it or already at the client, and the newest
edition is in it or has arrived. A command publishes while the stream is `Ready`
for its last message, and a queue that overflows in between restarts the stream
with a snapshot of the newest edition. `Judged` says what the client may conclude
from what it remembers, under each fault. `EventKindsAssumption` is that a command
updates the book once and last, or is refused.

Sums and folds. The library's induction theorems take an operator, which the
backends cannot instantiate; `SubsetInduction` (`DataLemmas`), from the theorem
on well-founded induction over sets, does without. From it come the
existence of folds (`FoldByElement`), that their value does not depend on what
the underlying choice picks (`FoldsAgree`), and the laws of `Total`, a sum over a
finite set: all that the proofs above need to know of `MapThenSumSet`,
`FoldLeft` and `Published`. No theorem reaches a RECURSIVE definition.

Only model-checked:

* liveness (`ServedWhileRunning`, `GapsAreRepaired`, `ConnectionsShow`,
  `SimulationsEnd`) and the half of `CommandsEnd` that speaks of ENABLED, out of
  the prover's reach;
* `RebuildFaithful`, with it that an undamaged file passes its audit: it compares
  a replica with a book of the past, which no variable keeps.

## 6. What is not modelled

`PROJECT.json` lists every component. Left out: what reads the events and keeps
no state that other parts read (microstructure, experiments, exports, analyst,
benchmarks; the handlers that only read); the probabilities of the simulation's
draws; the wording of alerts and the limit of twenty that are shown; the trade
tape and the log of synchronisation events in the browser; the rendering of the
user interface. Several symbols share only the risk positions and the ledger,
both keyed by symbol, so one symbol is modelled, and in the browser the one it
leaves besides. A second change of symbol adds an answer about another symbol
left behind, to which the client does the same.

Known and exempted in a property: concurrent starts and the
pause before a task's first step (`main.py:257`, `:74`), a journal cut before its
footer (`journal.py:104`), limits that change without an entry (`main.py:417`), cancellations and
modifications in the empty account's name (`commands.py:68`), the account named
unknown (`surveillance.py:46`), a snapshot request that failed
(`useMarket.ts:88`), the answer to a replay
after a reset (`main.py:538`), an answer about the symbol left behind
(`useMarket.ts:87`), the ids of a second simulation on a book (`engine.py:121`).

## 7. Plan

Done: the book with its reference and links, the worker, the exchange with the
market simulation and the scan for alerts, market data with the health poll and
a change of symbol, recovery with the journal's file and the answer to a replay,
the control of simulations, explanations of cancellations; and theorems for every
safety property of them but one. Next:

1. `RebuildFaithful`: the replica as an image of the live book at the entry it
   has come to, the states of the book since its last reset told by the
   invariant and not by a variable.
