# OpenTraitor: a TLA+ model of its trading core

This directory holds TLA+ modules that model the trading core of OpenTraitor, the TLC
configurations that check them on small instances, and TLAPS proofs of the theorems
that hold for every instance. Paths below are relative to the repository root.

## 1. The system

OpenTraitor is an LLM-driven trading bot. One process runs the trading loop of one
exchange; a dashboard, a Telegram bot, a news worker and planning workflows are processes
or threads around it that reach it through Redis, through Telegram commands and through
stored plans.

| Component | State it keeps | Operations | Talks to |
|---|---|---|---|
| Trade record (`src/models/trade.py`) | status, planned and filled quantity, prices, fees, pnl | `is_open`, `value`, `close` | ledger, executor |
| Trading ledger (`src/core/state.py`) | trades, position per pair, cash, live snapshot, drawdown, breaker flag | `add_trade`, `close_trade`, `update_*`, `reverse_trade_booking`, `reconcile_position`, `sync_live_holdings`, `save_state`, warm start | everyone, under one lock |
| Executor (`src/agents/executor.py`) | failures per trade | `run`, `_verify_fill`, `check_pending_orders`, `_cancel_stale_order`, `check_stop_losses`, `close_position_by_pair`, `_partial_sell` | exchange, ledger, rules |
| Holdings manager (`src/core/managers/holdings_manager.py`) | refresh lock | `maybe_refresh_holdings`, `reconcile_positions` | exchange, ledger, trailing stops |
| Exchange clients (`src/core/coinbase_client.py`, `ib_client.py`) | IBKR: a job queue, last heard orders | place, get, cancel, balances | broker |
| Absolute rules (`src/core/rules.py`) | limits; daily spend, loss, count; peak | `check_trade`, `record_trade`, `record_loss`, `seed_daily_counters`, `update_param` | risk manager, executor, chat |
| Pipeline manager, risk manager, fees (`pipeline_manager.py`, `risk_manager.py`, `fee_manager.py`) | one pipeline per pair | snapshot, agents, sizing, rules, fee gate, order, records | all of the above |
| Approvals (`telegram_manager.py`, `state_manager.py`) | queue of proposals, mirrored in Redis | queue, approve, reject, expire, reload | executor |
| Orchestrator loop (`src/core/orchestrator.py`) | phase of the cycle, flags, breaker timers, heartbeat | cycle, breakers, recovery, watchdog, rotation | all of the above |
| Trailing stops (`src/core/trailing_stop.py`) | one stop per pair with tiers | add, update, tier exits, tighten, remove | orchestrator |
| Rotation (`portfolio_rotator.py`, `rotation_executor.py`) | cooldowns, the swap under way | sell one coin, buy another, reverse | exchange, rules |
| Dashboard commands (`dashboard_commands.py`, `src/dashboard/routes`) | a Redis list, used nonces | liquidate, tighten, pause, resume, watchlist | orchestrator |
| LLM providers (`src/core/llm_client.py`, `llm_providers.py`) | chain, budgets, cooldowns, blocked models | call, rotate, rescan | agents |
| Feeds, news, planning, analysis, statistics, user interfaces | prompts, caches, databases | produce proposals, show results | their outputs are inputs of the parts above |

The hard behaviour is in the middle of that table:

* **Concurrency.** The loop is one thread that runs an event loop for its pipelines; they
  interleave where they await (data, agents, verification of a fill). Telegram hands
  approved buys to the same event loop, but no cycle waits for them. The watchdog, the chat,
  the IB worker and the dashboard are other threads and processes. The exchange acts at
  any time.
* **Two truths.** The ledger books orders when they are placed and corrects the booking
  from later replies; the account at the exchange moves when the exchange says so. Holdings
  sync and reconciliation overwrite one from the other.
* **Failure.** Replies get lost, cancels race fills, orders end half filled, cycles time
  out in the middle of a verification, callers give up on jobs that are executed later,
  the watchdog kills the process, and a restart finds a file, a queue in Redis and a
  database of different ages.
* **Check, then act.** A buy is checked and sized long before it is placed and recorded.
* **Flags read in few places.** Pause, breaker and stop are looked at between phases only.

What makes each part correct: the ledger agrees with the account unless one of a list of
named causes struck; every live order is known; every trade follows its lifecycle and is
final at its end; pending orders are settled; positions are watched by a stop; limits can be
passed only by a known amount; a decision is executed once; a flag that was raised holds,
and a halt ends; a swap reports what it did.

## 2. Modules

| Module | Models | Role |
|---|---|---|
| `TradingState` | `src/core/state.py`, `src/models/trade.py` | the ledger: one operator per method, no behaviour of its own |
| `TradeLifecycle` | statuses of `src/models/trade.py` | abstract specification of a trade's life, implemented by `OrderExecution` |
| `OrderExecution` | executor, holdings manager, the loop's phases, Coinbase as seen by the executor | EXTENDS the ledger; the central state machine |
| `IbkrVenue` | `ib_client.py` under the same ledger | EXTENDS the ledger; the other venue |
| `ExitEngine` | trailing stops, `check_stop_losses`, the exit phases of the loop, liquidate and tighten | how positions are left |
| `PairPipeline` | `run_pipeline` with risk manager, rules, fee gate and executor sizing | how large a buy gets and against what it was checked |
| `AbsoluteRules` | `src/core/rules.py` and the way of a buy through it | daily limits under concurrent buys and moving limits |
| `CrashRecovery` | approvals, snapshot file, Redis mirror, database rows, restart | what survives a crash or a cancelled coroutine |
| `TradingLoop` | `run_forever`, breaker, watchdog, `/pause`, `/resume`, `/stop` | which batches may begin |
| `DashboardCommands` | command routes, queue, nonces, pause of a pair, watchlist | commands from another process |
| `Rotation` | rotator and rotation executor | swaps of two legs |
| `LlmProviders` | provider chain of the LLM client | budgets under overlapping calls |
| `MC...` | | constants and constraints of the TLC instances |
| `Ledger_proofs` | `OrderExecution`, `IbkrVenue` | theorems and proofs of both venues, which share the lemmas about sums over trades |
| `DailyBudgets_proofs` | `AbsoluteRules`, `LlmProviders` | theorems and proofs of the two budgets that overlapping callers pass |
| other `..._proofs` | the module of that name | theorems and proofs |

The modules cut the system along the variables they share. `OrderExecution`, `IbkrVenue` and
`ExitEngine` are about orders and positions, and take what is bought as a choice;
`PairPipeline` and `AbsoluteRules` say which choices get through; `CrashRecovery` follows
the stores that one buy of theirs reaches; `TradingLoop` says when any of this runs.

### TradingState and OrderExecution

`trades`, `positions` and `cash` are the fields of `TradingState`; `tracked` is the key set
of the `positions` dict, because `sync_live_holdings` distinguishes a key with value 0
from no key. Every method runs under the state lock and is one operator. Prices and
quantities are integers; `x or y` on an optional number and `x if x is not None else y` are
kept apart (`Held`, `Booked`), since the code uses both on `filled_quantity`.

`OrderExecution` adds the exchange's `orders` and balances (`base`, `quote`), the trades
whose pipeline awaits `_verify_fill` (`verifying`), the trade between `get_order` and
`cancel_order` (`polling`), the set of pairs with a trailing stop, and the mode of the cycle
(`monitoring`). An action is one handler up to its next await or its next call to the
exchange whose reply can be outdated: `PlaceLimitBuy`, `PlaceLimitUnanswered`, `PlaceMarket`,
`RecordFilled`, `RecordEnded`, `RecordUnconfirmed` (`ExecutorAgent.run`), `PollNotFound`, `PollFilled`,
`PollEnded`, `PollStale`, `CancelStale`, `CancelFails` (`check_pending_orders`),
`ClosePosition`, `PartialSell` (exits), `RefreshHoldings`, `Reconcile` (holdings manager),
`StartCycle`, `CycleTimeout`, `DropStop` (loop), and the exchange's `FillLimit`, `FillMarket`,
`EndOrder`, `Withdraw`. A limit buy whose placement reply says neither OPEN nor how it ended goes
through `_verify_fill` like a market order (`PlaceLimitUnanswered`); if eight attempts tell it
nothing, it is booked as filled while it rests, under the cause `assumed`.

Two history variables record what the code does not: `unbookedFees` (fees that
`add_trade` leaves out of the cash) and `diverged`, the set of *causes* for which ledger
and account come apart. The exactness properties say that the listed causes (`Cause`) are
all there are. Two of them take more than the two trades TLC is given, or unusual fees: a
reversal that `max(0.0, ...)` floors (`floored`), because another trade has already sold the booked
units, and a tier exit whose fee exceeds its proceeds (`sunk`), which the ledger does not book. `get_order` is taken to return the flat dict its callers read.

### IbkrVenue

Every call of the agent is a job in `queue`, which one worker executes in order (`Work`); a
caller gives up after 30 s (`GiveUp`) and its job stays. Orders are answered with OPEN
whatever becomes of them, so all of them rest in the ledger and are settled by polls
(`StartPoll`, `AnswerPoll`), in cycles outside monitoring mode: `StartVenueCycle` sets `exitsOnly`,
which takes a position, the resting buy's own for instance, and leaves stop and cash open.
`view` is what ib_insync heard last; it catches up only within jobs that place an order. Quantities are fractions of a share (`Unit` of them), orders are for whole
shares of one pair, `Stock`. `apart` names what sets the ledger apart from the account: an order
placed late (`late`), one that was never booked (`unbooked`), one forgotten by a failed poll
(`forgotten`), a close that sold nothing (`unsold`), and `overlap`: trades that sold each other's
units. An exit then closes a trade of which it sold only a part, or `max(0.0, ...)` floors the
position when a buy is reversed (`state.py:564`) or when a sale fills another quantity than it had
booked (`state.py:480`, `SaleFloors`).

### ExitEngine

`OrderExecution` decides when an exit may happen by choice; `ExitEngine` models what makes
it happen. `stops` is the dict of `TrailingStopManager`, one record per pair with trail,
tiers and trigger; `price` is `current_prices`; `failures` is `_close_failures`; `phase`,
`firing` and `unchecked` say where the pass of the cycle stands. A pass is `UpdatePrices`, then
`SellFired` for each stop that fired, `SellTier` for each tier reached, `CheckExit` for each
open trade, with `Advance` between the phases. Within a pass only the price can move
(`MovePrice`, the chat's live price query runs on another thread). Buys, fills, discovery
and the owner's `Liquidate` and `TightenToBreakeven` come between passes, as in the loop. A trade has
an `entry`, its own price, and a `basis`, the market's price when it was decided: a resting order's
entry is its limit, its stop and targets are taken from the basis.
Every sell may fail. Sells that succeed are filled whole, and a resting order's fill reaches
account and ledger in one step: what happens in between is the subject of `OrderExecution`.

Stops belong to pairs and sells look for the first filled trade of the pair, so that a
second buy, a failed liquidation, a buy that `add_stop` was not called for (approved by
chat, or cut off by the cycle's timeout) and a stop that fires before its order is filled each leave
a position to its stop-loss alone. The history variable `abandoned` records those trades and
`PositionsAreWatched` says that there are no others; `uneven` records trades for which a
tier was lost or sold from another trade.

### PairPipeline

One pipeline per pair. `Snapshot` reads cash and awaits the agents; `Buy` is everything from the
proposal to the order, which the code runs without an await: `Clamped`, `FreeSlot`,
`Headroom`, `Sized` (risk manager), `Allowed` and `Asks` (rules), `Gated` with `Bumped` (fee
gate), and `Scaled` with `PlaceBuy` (executor). `Record` books a verified order; `Refresh`,
`Approve`, `Reject`, `Deadline` and `Midnight` come in between. Abstractions: a price of one, so the
portfolio keeps its value; Coinbase live with market orders that are filled whole or refused;
one tier; a pair is not taken up while a buy of it is queued. What analysts, Kelly,
volatility and the expected gain come to are choices of amounts, position sizes and least
worthwhile amounts.

### AbsoluteRules

The counters of the rules engine, and callers: buys on their way from the check
(`CheckBuy`) through approval, sizing, placement and rest to their record. `stale` stands for
`_last_reset_date` being before today: every counter is read through `Today`. The count of a
start is followed up to the limit, beyond which it makes no difference. `maxSingle` and
`maxDaily` move while buys are under way, one attribute per lock section: `UpdateParam` is the
chat's rule update, `PushToRuntime` a preset, among them the one that disables trading by
setting limits to 0. `base` is a history variable, the spend of the day at the moment
`max_daily_spend` was last set: a limit lowered below it forbids what comes, not what was.

### CrashRecovery

A decision to buy is told to the exchange, the ledger, the counters, the database and the
stop manager, one after the other with awaits in between; the ledger goes to a file at the
end of a cycle and the queue of approvals to Redis. `orders`, `coins`, `booked`, `file`,
`pos`, `counted`, `rows` and `stop` count how much of a decision each store has.
Coroutines run only while the main loop turns the event loop (`EventLoopTurns`): for a batch, the
rotation, the settings advisor or the learning engine. `Deadline` cancels pipelines, a shutdown all,
`Crash` ends the process anywhere, `WarmStart`, `Seeded` and the refresh rebuild what they can.
`revived`, `cut`, `unwatched` and `rowLost` name what got lost and how.

### TradingLoop

`pc` is where `run_forever` is; pause, breaker and stop are flags that other threads set at any
moment and the loop reads at its head, in its halt handler and between naps. `Judge` is the check
of the breakers, `HaltRefresh` and `HaltRecover` the way out of the halt, `SyncToRedis` the published
status, `Watchdog` the thread that kills a hung process; a call may hang at any place. The ghosts
count the batches begun since a flag was raised.

### DashboardCommands

`Issue` signs a command with the dashboard's clock, which is off by a `Skew`, and pushes it;
`Redeliver` pushes it once more; `ProcessCommands` takes commands off in batches and holds them
against age, lead and the nonces used, which `Pruned` drops by age and when there are too many. `PauseLoads`
and `PauseWrites` are the two halves of the pause handler, with chat and settings page in between.
The watchlist comes from commands and from the periodic sync with the database.

### Rotation

An evaluation proposes swaps; `Direct`, `First`, `Second` and `Back` are the legs of
`execute_swap` and its reversal. The executor takes every reply without `error` as a completed leg and
never looks at the fill, so an order that is `Accepted` moves all of its amount, a part or nothing
(`Fill`) and the swap goes on as if it were done: the next leg spends `carried`, what the reply says
or, as the replies carry no `filled_value`, the whole amount. An order may also be refused, or filled
with its reply lost (`Fails`), and journal or audit may raise (`Raises`), which starts the fiat
route or the reversal anew where an enclosing `try` catches it (`caught`). A proposal is
`odd` if an order of its route is sized in the wrong currency: on a direct pair quoted the other way
round, or with a bridge that is not worth a unit of fiat. `before` is the account when the swap
began, `misheard` whether a reply was lost or something raised, `uneven` whether an accepted order moved
another amount than the swap's.

### LlmProviders

A call walks the chain it found when it began; every provider has cooldown, budget, window
and, for OpenRouter, the model it asks for. A rescan replaces the chain by a new
generation of objects while calls hold on to the old one. A call keeps the set of places of
the chain it has yet to try and takes the first one that is available (`Ready`).

## 3. Runs

| Run | Properties | What it shows |
|---|---|---|
| `execution_exact` | `ExecutionTypeOK`, `PositionsMatchExchange`, `CashMatchesExchange`, `FlatAccountExplainedByPnl`, `LiveOrdersAreTracked` | two orders, two prices, fees and partial fills: to the unit, positions and cash are the account's, up to the first cause of divergence (constraint `Undiverged`) |
| `execution_live` | `PendingResolved`, `TerminalTradesAreFinal`, `FollowsLifecycle` | partial fills, races of cancels and fills, failed polls, monitoring mode: as long as some cycles poll, a pending trade is settled, unless its order ended after a partial fill without a `filled_quantity`, on which every poll raises; every trade follows the lifecycle and is final at its end |
| `exits` | `TypeOK`, `PositionsAreWatched`, `TiersSumToHolding`, `StopCoversStopLoss`, `CoinsBelongToTrades`, `FiredStopSells`, `BreachEnds` | two buys on one pair with moving prices and failing sells: no position loses its stop unnoticed, quantities of stop, trade and account agree, a fired stop is retried to its end and a breached stop-loss does not last |
| `rules_daily` | `SpendOvershootBounded` | two buys under way while the owner moves the limits or disables trading: the day's spend passes its limit by at most two records of the largest order for each |
| `pipeline` | `MaxOpenHolds`, `LimitsButForMultiplier`, `OrdersBeatFees` | three concurrent pipelines on old snapshots: which limits hold for the order that is sent, and by how much the executor may pass them |
| `recovery` | `OrderedOnce`, `AnswersStand`, `OrdersAreBooked`, `BookedBuysCount`, `PositionsHaveStops`, `QueueDrains` | crash, shutdown, deadline and late approvals at every point of a buy, over two restarts: which records can be missing, and that nothing is ordered twice |
| `loop` | `PauseLetsOneBatchBegin`, `TripStopsBatches`, `TwoBatchesOverLimit`, `AcknowledgedThisTrip`, `HaltEnds`, `HungLoopIsKilled` | how many batches begin after a flag is raised, that a halt ends and that a hung loop is killed |
| `commands` | `ExecutedOnce`, `PausedPairsAreBanned`, `WatchlistConverges` | repeated, late, lost and future-stamped commands: none takes effect twice, a paused pair is banned, the watchlist comes back to the follows |
| `rotation` | `OutcomeIsTrue`, `LossesAreBounded` | legs that are refused, accepted and not or partly filled, or whose reply is lost: what the report of a swap says of the account, and what a swap costs at worst |
| `llm` | `ServedWithinBudget` | two overlapping callers, rotations, reloads and midnight: what passes a daily budget |
| `ibkr` | `LedgerMatchesAccount`, `ClosedMeansSold`, `HeardFillIsBooked` | jobs executed after their caller gave up, fills heard late, a lost connection: what sets the ledger apart, that closed means sold once, that a heard fill is booked as long as some cycles poll |
| `pipeline_exposure` (TLC refutes it) | `ExposureWithinCap` | two buys, one after the other, pass the cap of the total exposure: the coins already held count as nothing |

Properties that name exceptions (`diverged`, `forgotten`, `cut`, `crowded`, `misheard`, ...) say that
the exceptions are all there are; each stands for a behaviour of the code that a
reviewer may want to change, and is named at the action that adds it.

**Bounds.**

* `execution_*`: two trades on one pair are the smallest number with which one trade can be
  settled while another rests, is verified, sold or reconciled. Quantities are 2 or 3 units, so
  that a partial fill leaves a rest and a price change changes the quantity; two prices let
  exits win and lose. In `execution_live` fees are 0 and two buys use up the cash; there is one slot
  and orders may be filled in part, so that monitoring mode and the order on which the poll
  raises both occur. `WhileResting` leaves out the causes that need a withdrawal, a
  reconciliation or a market order.
* `exits`: from 97 to 103 both tiers and the take-profit are reached, back again
  the trail and the stop-loss. Two trades on one pair are what it takes to share a stop. One
  failure is the limit (`FailureLimit`, 3 in the code), so that giving up is reached with
  either trade. A position is 200 units, which both tiers divide into whole units or
  leave a rest.
* `rules_daily`: two callers; a limit of 30 that one buy of 10 or 20 may still pass
  while the other is not recorded, and 0, the disabled preset. `Bounded` follows the trade
  count to 4 and the loss to 1, both past their limits (2 and 1).
* `pipeline`: three pairs for one slot, so that a third pipeline meets a slot that is taken and one
  that is about to be; amounts on both sides of every limit; three orders.
* `recovery`: one decision, whose stores are followed one by one, and one swap, which keeps the
  queue non-empty without it; two restarts let an approval come back twice.
* `loop`: three values: a drawdown above the limit of 20 %, one between it and the 16 % of
  recovery, and none. A day's loss is at its limit or not.
* `commands`: two commands about one pair, one of them delivered twice; a window of one tick and a
  clock one ahead; one nonce kept, so that dropping for room occurs.
* `rotation`: three coins, one of them the bridge, three units each, so that a coin can be sold
  three times; one evaluation, whose second swap meets what the first left.
* `llm`: the chain of `config/settings.yaml` (OpenRouter, Gemini, Ollama), a limit of one per day
  and one per minute, two models of which one is dead.
* `ibkr`: two trades, a quantity of one and a half shares and one of half a share, three jobs, three
  orders.

**Fairness.**

* `OrderExecution`: the loop turns for ever, so `StartCycle` is weakly fair. A cycle outside
  monitoring mode polls every pending order, so that a poll is strongly fair per order. That there are
  such cycles is no fairness but the premise `CyclesPoll` of `PendingResolved`: a resting order's
  position, stop and reserved cash can bring monitoring mode about and keep it. A cancel may
  fail, but not for ever. `_verify_fill` ends after eight attempts. Nothing is assumed of the
  exchange's fills or of the strategy.
* `ExitEngine`: every pass is begun and finished, so `UpdatePrices`, `Advance` and the phases'
  steps are weakly fair. A minimum hold ends (`EndMinHold`, strongly fair because a pass
  disables it). The exchange does not reject the sell of one fired stop in every cycle for
  ever: `SellFired(p, TRUE)` is strongly fair. Nothing else is assumed to succeed: the sell
  after a breached stop-loss may fail each time, and then the trailing stop, which
  covers it, ends the breach.
* `CrashRecovery`: batches start and hours pass (weak). A batch ends, in time or at its
  deadline, and the saving, publishing and pruning of a cycle happen again and again, though
  a crash or an exception may skip each of them in one cycle: strong.
* `TradingLoop`: the loop, the cooling of the breaker, the watchdog thread and Docker's
  restart go on (weak). `HaltEnds` has a premise of its own: from some time on the market is calm and
  data fresh (`Calm`).
* `DashboardCommands`: the loop calls `process_commands` (weak) and reaches the watchlist sync
  again and again (strong, since a call under way disables it).
* `IbkrVenue`: the worker goes on, and a cycle outside monitoring mode polls every pending trade
  (strong, since a caller that waits and monitoring mode disable it). `HeardFillIsBooked` has two
  premises: from some time on calls are answered within 30 s (`CallsAreAnswered`), and monitoring mode
  does not last for good (`VenueCyclesPoll`), which frozen prices can make it do. Fills that are never
  heard are outside the property.

## 4. Theorems

Every theorem is about all values of the constants that the module's assumption admits
(`LedgerAssumption`, `ExecutionAssumption`, `ExitAssumption`, `RulesAssumption`,
`PipelineAssumption`, `RecoveryAssumption`, `LoopAssumption`, `CommandsAssumption`,
`RotationAssumption`, `VenueAssumption`, `LlmAssumption`). Each proof module shows that an inductive invariant holds initially and is
kept by every action, one lemma per action or group of actions, and that it implies the
properties.

* `Ledger_proofs`, about `OrderExecution`: `TypeCorrect`, `LinksHold`, `TerminalFinal`, `Refinement`, and the books:
  `LiveOrders`, `PositionsExact`, `CashExact`, `PnlExact`. The first invariant is
  `ExecutionTypeOK /\ Linked`: an order slot that was never used has no trade, a trade
  under verification is not recorded yet, and the trade under cancellation is still pending. It
  holds because of who interleaves with whom, which is the argument the code relies on
  implicitly. Each action is also `Lawful`: it opens, settles, closes or rewrites trades in
  the way the lifecycle allows; `TerminalFinal` and `Refinement` follow from that.
  The exactness properties need `Books`: what is recorded of every single order fits what the
  exchange did with it (`OrderSound`), and, while `diverged` is empty, `Exact`: each order that
  may fill has its trade (`Watched`), every trade mirrors its order (`Mirrors`), a pair whose key
  the ledger lacks has position 0, and the three balances hold. The balances are sums over the
  trades. A step moves one trade (`OnlyAt`), so every sum moves by one term (`TradeSumMoves`), and
  the lemma of each action compares that term with what the action does to positions, cash and
  pnl (`Balanced`).
* `Ledger_proofs`, about `IbkrVenue`: `VenueTypeCorrect`, `AccountMatched` (`LedgerMatchesAccount`)
  and `ClosedSold` (`ClosedMeansSold`). Ledger, queue, account and the heard state are joined by
  `VenueInv`: a pending trade knows its order (`PendingLinked`); while nothing set them apart, an
  open order has a pending trade (`OpenWatched`), since a fill that no trade waits for would move
  the account alone; the end of an order is heard as it was (`ViewSound`), so that a poll that
  settles a trade books what the account got; what a caller found before it called still holds
  while it waits (`CallFits`), since one thread of the agent waits at a time and the worker
  changes no trade of its own accord. Position and shares differ by what is outstanding in
  resting orders less what exits have not sold yet: two sums, of which a step moves at most
  one term each (`BalanceMoves`). TLC checked `VenueInv` with two trades, and on part of the
  states with three, before it was proved.
* `ExitEngine_proofs`: `TypeCorrect` (no sell takes more than the balance, no trade is tried
  past `_close_failure_limit`), `Watching`, `StopsCoverStopLosses`, `TiersSum`, `CoinsAccounted`. Stops are kept by pair and trades
  by number, so the invariant says what joins the two: the owner of a stop exists (`Known`),
  the stop of an open trade has the trade's basis as its entry and does not lie below its stop-loss
  (`Covered`, which `tighten_to_breakeven` needs because it sets the stop to the entry), a
  resting order is watched like a filled one (`Watched`), and the trades left to check are
  still held (`Listed`). `TiersSum` needs `Tiered`: tiers are reached from the lowest on, only
  reached ones wait for their exit, and a resting order already owes its stop what it will hold;
  the exit quantities telescope, so reaching a tier moves a quantity from what is left to
  what waits. `CoinsAccounted` rests on `TiersSum`: a tier that closes its trade leaves no coins behind
  because what waits is part of the holding.
* `DailyBudgets_proofs`, about `AbsoluteRules`: `TypeCorrect`, `SpendBounded`. The bound is itself inductive with
  `PendingSized` (a recorded-later buy is no larger than the largest order). Each stage of a
  buy has a weight, the number of records it may still make; a step moves the weight down
  by at least what it adds to the spend, or is an admission, which sees the whole spend
  under the limit, or sets the limit, which sets `base` to what has been spent.
* `DailyBudgets_proofs`, about `LlmProviders`: `ServedBounded` (`ServedWithinBudget`). What a provider
  served today was counted or is unseen (an answer without usage, or one to a chain that a rescan
  replaced), and the requests counted and the calls about to be counted (`Askers`) stay within
  the limit and one for every further caller (`Budget`): a call is begun below the limit only,
  and at that moment every other caller may be on its way.
* `PairPipeline_proofs`: `TypeCorrect` (no order takes cash or coins below zero, although each is
  sized from an older snapshot), `MaxOpenKept`, `LimitsKept`, `FeesBeaten`. A buy under verification will
  become a position, and so will coins the ledger has not seen, so the invariant `Slots`
  counts open and coming positions together; `Sizes` carries the bounds of an order from its
  check to its placement.
* `CrashRecovery_proofs`: `TypeCorrect`, `NoSecondOrder`, `RejectionHolds`, `LedgerKnowsOrders`,
  `CountersCoverBuys`, `StopsFollowPositions`. They need that what waits in the queue is waiting
  (`QueuedWait`), that a decision not yet executed was ordered in earlier lives only
  (`NotYetOrdered`), that the file lags behind the ledger for unsaved decisions only
  (`FileCurrent`), that nothing is verified while there is no process (`NoneVerifiesDown`), and that
  a row that is not written is being written (`RowsFollow`).
* `TradingLoop_proofs`: `TypeCorrect`, `PauseHolds`, `TripHolds`, `LimitAnswered`,
  `AcknowledgementCurrent`. The loop reads its flags in two places, so `Pausing`, `Tripping` and
  `Judging` say for every place of the loop what a flag still allows: a pause may find a cycle
  or a nap under way, a tripped breaker may not, and a limit passed in a nap is judged at
  the end of the next cycle.
* `DashboardCommands_proofs`: `TypeCorrect`, `NoReplay`, `PauseBans`. The stamp of an accepted command
  was ahead of its use by the lead at most, so that when pruning drops a nonce, maximal age
  and lead have passed and its command is too old; `Bans` follows a pause through
  both halves of its handler.
* `Rotation_proofs`: `TypeCorrect`, `SwapLossesBounded`, `SwapOutcomeTrue`. Both properties speak of the end
  of a swap; the invariants say for every stage how the account differs from what it
  was before: exactly, as long as every reply was heard and every order filled in full; in the
  directions of its orders, if replies were heard; and at most, whatever went wrong.
  They need the currencies of a swap to differ, which proposals guarantee.

The sums are `SumFunctionOnSet`, a fold whose order `CHOOSE` picks. Lemmas at the head of the parts
that sum (`SubsetInduction` to `SumMoves`) show that the fold exists on every finite set and that
any member may be taken out of it first. The induction is over the subsets of a finite
set, in the form of a set closed under it (`WFMin` of `WellFoundedInduction`), since an induction
theorem with an operator as parameter is beyond the provers.

What the proofs changed in the models: `PositionsMatchExchange` and `CashMatchesExchange` passed TLC and
were not inductive. With three trades there is a counterexample: a limit buy is booked and ends
unfilled; a market buy fills and is still being verified; a market sell, sized to the booked units of
the first, takes the coins of the second; the poll then reverses the first buy, and
`reverse_trade_booking` floors the position at 0 (`state.py:564`). The model had the floor but no
name for it; `floored` is now a cause, and so is `sunk`, found in the same way
(`update_partial_fill` books the proceeds only if they are positive).

`LedgerMatchesAccount` of `IbkrVenue` was the same story. With `Unit = 4`, three buys of 7 are booked
whole and placed for one share each; a sell takes the 21 booked units while they rest; the buys
fill 4 each, which takes the position to -9; the sell fills 20, and the correction by the one
unit it did not sell is floored at 0 (`state.py:480`) where the account is at -8. The model had
the floor but counted only that of a reversal as `overlap`; `SaleFloors` now names the other one.
`LlmProviders` changed in form only: calls keep the places they have left as a set, which has
a first element, where the model had cut a sequence short.

Model-checked only: liveness, which the prover does not reach (`PendingResolved`, `FiredStopSells`,
`BreachEnds`, `QueueDrains`, `HaltEnds`, `HungLoopIsKilled`, `WatchlistConverges`,
`HeardFillIsBooked`). Every invariant, every action property and the refinement that a passing run
checks is also a theorem.

## 5. What the models show of the code

The refuted run is a finding in `PROJECT.json`: the cap of the total exposure
(`src/agents/risk_manager.py:874-888`) reads a quantity attribute of plain numbers.
The following met the code's own words or names while it was modelled. The models contain
them, as named exceptions of the properties or as allowed steps.

* *Orders.* A fill between `get_order` and `cancel_order` is reversed with the stale order
  (`executor.py:1304`, `state.py:554`). An order that ended after a partial fill raises in every
  poll (`executor.py:1203`). Monitoring mode, which a resting buy can bring about, does not poll
  (`orchestrator.py:1561`). Reconciliation closes a resting buy at price 0
  (`holdings_manager.py:383, 440`). A refresh while an order is being verified takes its coins for
  external ones, and the booking adds them again (`state.py:236`).
* *Exits.* The stop of discovered coins fires, finds no trade and is dropped
  (`orchestrator.py:1611`); executor and loop both record the loss of a trailing stop
  (`orchestrator.py:1594`, `executor.py:911`).
* *Limits.* Two concurrent buys pass one daily limit, since the lock covers the check only
  (`rules.py:290`). The cross-asset multiplier of up to 1.3 is applied after rules and approval
  (`executor.py:253-292`; `README.md:89` calls the limits hard); a sell it enlarges is refused.
  A fee-gate bump ignores the Kelly and exposure trims and uses the snapshot's cash; when the
  rules refuse it, the un-bumped order, which is not worth its fees, is sent
  (`pipeline_manager.py:1583, 1620`). The drawdown halt is not latched (`rules.py:356`). The
  preset that disables trading does not stop queued approvals: an approval checks nothing.
* *Loop.* `/stop` ends the process and Docker starts it again; the first live sync clears any trip;
  without Redis a daily-loss halt never recovers, and paper mode never recovers by itself; a hung
  loop that is paused or stopped is not killed; an exception skips the breakers.
* *Restart.* Trailing stops are not saved (`orchestrator.py:2035`). Buys approved by chat get no
  stop, no row and no FIFO lot. An approval whose 60 s ran out is executed later all the same;
  approving a swap never executes it; the last approval that was settled stays in Redis. The FIFO
  calls use wrong keywords, and the exception is swallowed.
* *Rotation.* Every reply without `error` counts as a completed leg (`rotation_executor.py:195, 290, 331,
  427, 474, 545, 566`): an accepted market order that is cancelled unfilled or filled in part is
  reported as executed or reversed, and after such a first leg the second one spends
  `proposal.quote_amount` of the fiat or bridge coin the owner had before (`298, 553`). The fiat
  route runs inside the `try` of the direct one (`220`), so that a raise in it, like a journal that
  raises after a filled direct swap or a lost reply, starts it again: a coin can be sold
  three times. The direct "buy" leg multiplies by the wrong price (`186`), and a bridge that is not
  worth a unit of fiat (BTC is in the list) is sized as if it were. Swaps never touch ledger or
  stops; two proposals of one evaluation can pass the position limit (`portfolio_rotator.py:252`).
* *IBKR.* Prices are read from a cache that is never refreshed (`ib_client.py:342-358`; the comment
  in line 345 says live price), so stops do not fire until a restart. Exits are closed
  at price 0, suffixed pairs are closed unsold, stale orders are never cancelled (SUBMITTED is
  not OPEN), and inactive ones never settled.
* *LLM.* When two overlapping calls are rejected for one model, the second one blacklists the model that the
  first one rotated to (`llm_client.py:453`); a rescan undoes every rotation, also to a blacklisted model; answers without usage do not count.
* *Settings.* The chat's `_update_rule` changes the runtime first and ignores a refused write; its
  bounds are not the schema's. Handlers whose comment says "persist first, apply to runtime only
  on success" do not look at the result of `update_section` (`telegram_manager.py`). The dashboard's
  settings page changes the file, the runtime follows at the next restart; loading and saving the file is
  locked per process only. `ShadowTester.observe` has no caller, so that no shadow delta is ever
  promoted.

## 6. Not modelled

* Settings plane: confirmation tokens, presets' contents, validation, autonomous changes. What
  their result does to limits and bans is in `AbsoluteRules` and `DashboardCommands`.
* High-stakes mode: only the rotator's size limits read it; `Rotation` takes sizes as given.
* Paper trading, short trailing stops, trimming of old trades, win and loss counters, the
  capital allocator, vetoes of smart execution and of self-healing beyond "the order is
  refused", conversion of holdings in other currencies.
* LLM prompts and parsing, price feeds, news, planning workflows, technical analysis,
  strategies, backtesting, statistics, audit, and the user interfaces. Their outputs are
  the nondeterministic inputs of the models, and their numerical code on floats has no state that a
  model checker could explore.

What could come next, in this order: restarts in `OrderExecution` (the warm start over orders that rest),
the paper venue, and the file lock of the settings between processes.
