--------------------------- MODULE OrderExecution ---------------------------
(***************************************************************************)
(* The life of an order: the executor (agents/executor.py) places it at    *)
(* the exchange and books it in the ledger (TradingState), the exchange    *)
(* fills or ends it on its own time, the executor polls, cancels and       *)
(* closes, and the holdings manager (core/managers/holdings_manager.py)    *)
(* overwrites the ledger from the exchange's balances.                     *)
(*                                                                         *)
(* One trade has one order, so both are named by the trade's number.       *)
(*                                                                         *)
(* Who interleaves with whom.  The orchestrator's loop runs on one thread: *)
(* the pipelines of a cycle are coroutines that interleave where they      *)
(* await, in _verify_fill; polling, exits, holdings sync and               *)
(* reconciliation come after them (Idle).  A buy the owner approves by     *)
(* Telegram is one more coroutine, but no cycle waits for it: it runs when *)
(* the event loop runs and may be left suspended in _verify_fill while     *)
(* polls, exits, sync and reconciliation go on.  Between get_order and     *)
(* cancel_order of a poll no other step of the bot runs (polling).  The    *)
(* exchange acts between any two of these steps.                           *)
(*                                                                         *)
(* The exchange is external and modelled by the replies the executor       *)
(* reads: a resting order reserves its cost, fills in one or more parts at *)
(* its price (a market order at any price), pays one fee per order with    *)
(* its first fill, and may end early as cancelled or failed.               *)
(***************************************************************************)
EXTENDS TradingState

CONSTANTS
    Price,         \* bound: the prices of the market, limits and fills
    Spend,         \* quote_amount of every approved buy
    Fee,           \* the fee of one order
    PartialFills,  \* the exchange may fill an order in parts
    MinTrade,      \* get_dynamic_min_trade
    MaxOpen        \* tier.max_open_positions

ASSUME ExecutionAssumption ==
    /\ Price \subseteq Nat \ {0}
    /\ Spend \in Nat /\ Fee \in Nat
    /\ PartialFills \in BOOLEAN
    /\ MinTrade \in Nat /\ MaxOpen \in Nat

VARIABLES
    orders,     \* the exchange's orders, by trade
    base,       \* the exchange's balance of each pair's base currency
    quote,      \* the exchange's balance of the quote currency, holds included
    verifying,  \* trades whose pipeline awaits _verify_fill
    polling,    \* the trade whose get_order said OPEN and whose cancel is
                \* next, 0 when there is none
    stops,      \* pairs with a trailing stop (trailing_stops.stops)
    liveCash,   \* state.live_cash_balances, as far as MinTrade tells it apart
    monitoring, \* _monitoring_mode of the current cycle
    tierPnl,    \* pnl of partial sells, which only the stats database gets
    unbookedFees, \* fees the exchange took and add_trade did not book
    diverged    \* why ledger and exchange differ: the causes met so far

exchangeVars == <<orders, base, quote>>
ghostVars == <<unbookedFees, diverged>>
loopVars == <<stops, liveCash, monitoring, tierPnl>>
vars == <<ledgerVars, exchangeVars, verifying, polling, loopVars, ghostVars>>

\* The ways in which the ledger and the exchange come apart.
Cause ==
    {"untracked",   \* a resting order whose add_trade raised
     "orphaned",    \* the cycle timed out while fills were being verified
     "unrecorded",  \* a market order that ended after a partial fill
     "assumed",     \* an unconfirmed order recorded as filled
     "slipped",     \* planned quantity booked, another quantity filled
     "forgotten",   \* get_order failed and the trade was marked FAILED
     "refunded",    \* an unconfirmed order reversed at its whole value
     "partial",     \* an order that ended after a partial fill
     "raced",       \* a fill between get_order and cancel_order
     "sellfee",     \* the fee of a polled sell added to cash
     "unsold",      \* a trade closed for more than the exchange sold
     "overclosed",  \* a trade closed for more than the ledger's position
     "floored",     \* a booking reversed for more than the ledger's position
     "sunk",        \* a tier exit whose fee exceeds its proceeds
     "external",    \* the owner moved coins off the exchange
     "reconciled",  \* the ledger overwritten by reconcile_positions
     "resynced"}    \* sync_live_holdings while a booking is under way

OrderState == {"none", "open", "filled", "cancelled", "failed"}

Order == [st: OrderState, kind: {"limit", "market"}, side: Action, pair: Pair,
          plan: Int, want: Int, qty: Int, price: Int, filled: Int, fee: Int]

\* plan and want are the price and the quantity the pipeline planned with;
\* qty is what the exchange is asked for and price what it asks or gets.
NewOrder(st, kind, side, p, price, qty) ==
    [st |-> st, kind |-> kind, side |-> side, pair |-> p, plan |-> price,
     want |-> qty, qty |-> qty, price |-> price, filled |-> 0, fee |-> 0]

\* A limit buy is sized at its limit, planned at the market price above it.
NewLimitBuy(p, market, limit) ==
    [NewOrder("open", "limit", "buy", p, limit, Spend \div limit) EXCEPT
        !.plan = market, !.want = Spend \div market]

ExecutionTypeOK ==
    /\ LedgerTypeOK
    /\ orders \in [Trade -> Order]
    /\ base \in [Pair -> Int]
    /\ quote \in Int
    /\ verifying \subseteq Trade
    /\ polling \in Trade \cup {0}
    /\ stops \subseteq Pair
    /\ liveCash \in {"unknown", "low", "enough"}
    /\ monitoring \in BOOLEAN
    /\ tierPnl \in Int
    /\ unbookedFees \in Int
    /\ diverged \subseteq Cause

Init ==
    /\ LedgerInit
    /\ orders = [t \in Trade |-> NewOrder("none", "limit", "buy", SomePair, 0, 0)]
    /\ base = [p \in Pair |-> 0]
    /\ quote = InitialCash
    /\ verifying = {}
    /\ polling = 0
    /\ stops = {}
    /\ liveCash = "unknown"
    /\ monitoring = FALSE
    /\ tierPnl = 0
    /\ unbookedFees = 0
    /\ diverged = {}

-----------------------------------------------------------------------------
(* Conditions *)

\* The next trade to be created.
Fresh(t) ==
    /\ orders[t].st = "none"
    /\ \A u \in 1..(t - 1) : orders[u].st # "none"

\* The loop is past its pipelines and not inside a poll: what still waits for
\* verification are approved buys.
Idle ==
    /\ \A t \in verifying : orders[t].side = "buy"
    /\ polling = 0

\* The condition of monitoring mode
NothingToBuyWith ==
    /\ stops # {}
    /\ IF liveCash = "unknown" THEN cash < MinTrade ELSE liveCash = "low"
    /\ Cardinality(OpenPositions) >= MaxOpen

\* What open buy orders still hold of the quote balance.
Asked(o) == IF o.kind = "limit" THEN o.price ELSE o.plan

Reserved ==
    MapThenSumSet(LAMBDA t : orders[t].qty * Asked(orders[t]) + Fee
                             - (orders[t].price * orders[t].filled + orders[t].fee),
                  {t \in Trade : orders[t].st = "open" /\ orders[t].side = "buy"})

Affordable(amount) == quote - Reserved >= amount + Fee

\* What open sell orders still hold of a base balance.
BaseHeld(p) ==
    MapThenSumSet(LAMBDA t : orders[t].qty - orders[t].filled,
                  {t \in Trade : /\ orders[t].st = "open" /\ orders[t].side = "sell"
                                 /\ orders[t].pair = p})

Diverge(cause, happened) ==
    diverged' = IF happened THEN diverged \cup {cause} ELSE diverged

-----------------------------------------------------------------------------
(* Pipelines: ExecutorAgent.run *)

\* A cycle starts: with a stop to watch, no cash and no free slot it skips the
\* pipelines and check_pending_orders.
StartCycle ==
    /\ Idle
    /\ monitoring' = NothingToBuyWith
    /\ UNCHANGED <<ledgerVars, exchangeVars, verifying, polling, stops, liveCash,
                   tierPnl, ghostVars>>

\* The pipeline's add_stop follows run after further awaits, in which the
\* cycle's timeout may cancel it.
AddStop(p) == stops' \in {stops, stops \cup {p}}

\* A limit buy, of a pipeline or approved (then it may come in monitoring mode
\* too), that the exchange accepts and leaves resting.  add_trade runs
\* without force here: when it raises, run returns an error and nothing
\* remembers the order.
PlaceLimitBuy(t, p, price) ==
    LET qty == Spend \div price
        tr == NewTrade("pending", "buy", p, qty, price)
    IN
    /\ polling = 0 /\ Fresh(t)
    /\ qty > 0 /\ Affordable(qty * price)
    /\ orders' = [orders EXCEPT ![t] = NewOrder("open", "limit", "buy", p, price, qty)]
    /\ IF CanAdd(tr)
       THEN AddTrade(t, tr) /\ AddStop(p)
       ELSE UNCHANGED <<ledgerVars, stops>>
    /\ Diverge("untracked", ~CanAdd(tr))
    /\ UNCHANGED <<base, quote, verifying, polling, liveCash, monitoring, tierPnl, unbookedFees>>

\* A limit buy whose placement reply says neither OPEN nor how it ended: the
\* coroutine awaits _verify_fill, as it does for a market order, and books
\* the planned price and quantity when that tells it nothing.
PlaceLimitUnanswered(t, p, market, limit) ==
    LET o == NewLimitBuy(p, market, limit) IN
    /\ polling = 0 /\ Fresh(t)
    /\ limit <= market
    /\ o.want > 0 /\ Affordable(o.qty * limit)
    /\ orders' = [orders EXCEPT ![t] = o]
    /\ verifying' = verifying \cup {t}
    /\ UNCHANGED <<ledgerVars, base, quote, polling, loopVars, ghostVars>>

\* A market order; the coroutine then awaits _verify_fill.  A sell is sized
\* to the held position (RiskManagerAgent) and comes from a pipeline.
PlaceMarket(t, p, side, price) ==
    LET qty == IF side = "buy" THEN Spend \div price ELSE positions[p] IN
    /\ polling = 0 /\ Fresh(t)
    /\ qty > 0
    /\ IF side = "buy" THEN Affordable(Spend)
                       ELSE ~monitoring /\ qty <= base[p] - BaseHeld(p)
    /\ orders' = [orders EXCEPT ![t] = NewOrder("open", "market", side, p, price, qty)]
    /\ verifying' = verifying \cup {t}
    /\ UNCHANGED <<ledgerVars, base, quote, polling, loopVars, ghostVars>>

\* The fresh Trade that run fills in after verification.
VerifiedTrade(t, status, price, qty, fees) ==
    LET o == orders[t] IN
    [NewTrade(status, o.side, o.pair, o.want, o.plan) EXCEPT
        !.fprice = price, !.fqty = qty, !.fees = fees]

\* add_trade, forced when its validation fails, and the pipeline's add_stop
Record(t, tr) ==
    /\ AddTrade(t, tr)
    /\ IF tr.action = "buy" THEN AddStop(tr.pair) ELSE UNCHANGED stops
    /\ verifying' = verifying \ {t}
    /\ UNCHANGED <<exchangeVars, polling, liveCash, monitoring, tierPnl>>

\* _verify_fill returned FILLED.
RecordFilled(t) ==
    LET o == orders[t] IN
    /\ t \in verifying /\ polling = 0
    /\ o.st = "filled"
    /\ Record(t, VerifiedTrade(t, "filled", o.price, o.filled, o.fee))
    /\ unbookedFees' = unbookedFees + o.fee
    /\ Diverge("slipped", o.filled # o.want)

\* _verify_fill returned CANCELLED, FAILED or EXPIRED: nothing is booked.
RecordEnded(t) ==
    /\ t \in verifying /\ polling = 0
    /\ orders[t].st \in {"cancelled", "failed"}
    /\ verifying' = verifying \ {t}
    /\ Diverge("unrecorded", orders[t].filled > 0)
    /\ UNCHANGED <<ledgerVars, exchangeVars, polling, loopVars, unbookedFees>>

\* Every get_order of _verify_fill failed or gave no final status, so run
\* works from the reply to the placement: with no status it counts as
\* FILLED, with another status the trade is PENDING.
RecordUnconfirmed(t, status) ==
    LET o == orders[t] IN
    /\ t \in verifying /\ polling = 0
    /\ Record(t, VerifiedTrade(t, status, o.plan, o.want, 0))
    /\ Diverge("assumed", status = "filled")
    /\ UNCHANGED unbookedFees

\* wait_for around the pipelines expires and cancels their coroutines S that
\* still await _verify_fill, but not approved buys.
CycleTimeout(S) ==
    /\ S # {} /\ polling = 0
    /\ \A t \in verifying \ S : orders[t].side = "buy"
    /\ verifying' = verifying \ S
    /\ Diverge("orphaned", TRUE)
    /\ UNCHANGED <<ledgerVars, exchangeVars, polling, loopVars, unbookedFees>>

-----------------------------------------------------------------------------
(* The exchange *)

\* An open order is filled by n more units at the given price.
Fill(t, n, price, last) ==
    LET o == orders[t]
        fee == IF o.filled = 0 THEN Fee ELSE 0
        sign == IF o.side = "buy" THEN 1 ELSE -1
    IN
    /\ orders' = [orders EXCEPT ![t].st = IF last THEN "filled" ELSE "open",
                                ![t].filled = @ + n, ![t].price = price,
                                ![t].fee = @ + fee]
    /\ base' = [base EXCEPT ![o.pair] = @ + sign * n]
    /\ quote' = quote - sign * n * price - fee
    /\ UNCHANGED <<ledgerVars, verifying, polling, loopVars, ghostVars>>

\* A limit order fills at its price, wholly or by one unit.
FillLimit(t) ==
    LET left == orders[t].qty - orders[t].filled IN
    /\ orders[t].st = "open" /\ orders[t].kind = "limit"
    /\ \E n \in {left} \cup (IF PartialFills THEN {1} ELSE {}) :
          Fill(t, n, orders[t].price, n = left)

\* A market buy spends its quote amount, so that the quantity follows the
\* price it gets; a market sell sells its quantity.
FillMarket(t, price) ==
    LET o == orders[t]
        n == IF o.side = "buy" THEN Spend \div price ELSE o.qty
    IN
    /\ o.st = "open" /\ o.kind = "market"
    /\ n > o.filled
    /\ o.filled > 0 => price = o.price
    /\ \/ Fill(t, n - o.filled, price, TRUE)
       \/ PartialFills /\ n - o.filled > 1 /\ Fill(t, 1, price, FALSE)

\* The exchange ends an order: post-only rejection, expiry, the owner's
\* cancel, a market order that finds no counterpart.
EndOrder(t, st) ==
    /\ orders[t].st = "open"
    /\ orders' = [orders EXCEPT ![t].st = st]
    /\ UNCHANGED <<ledgerVars, base, quote, verifying, polling, loopVars, ghostVars>>

\* The owner withdraws coins.
Withdraw(p, n) ==
    /\ n <= base[p] - BaseHeld(p)
    /\ base' = [base EXCEPT ![p] = @ - n]
    /\ Diverge("external", TRUE)
    /\ UNCHANGED <<ledgerVars, orders, quote, verifying, polling, loopVars, unbookedFees>>

-----------------------------------------------------------------------------
(* check_pending_orders, once per cycle outside monitoring mode *)

\* Variant: the poll takes every open trade, not the pending ones only.
PolledWhileOpen(t) == /\ Idle /\ ~monitoring
                      /\ IsOpen(trades[t])

Polled(t) == /\ Idle /\ ~monitoring
             /\ trades[t].status = "pending"

\* get_order returned nothing: the order is unknown, or the call failed.
PollNotFound(t) ==
    /\ Polled(t)
    /\ MarkTradeStatus(t, trades[t], "failed")
    /\ Diverge("forgotten", TRUE)
    /\ UNCHANGED <<positions, tracked, cash, exchangeVars, verifying, polling,
                   loopVars, unbookedFees>>

PollFilled(t) ==
    LET o == orders[t] IN
    /\ Polled(t)
    /\ o.st = "filled"
    /\ UpdateTradeFill(t, o.price, o.filled, o.fee, "filled")
    /\ Diverge("sellfee", o.side = "sell")
    /\ UNCHANGED <<exchangeVars, verifying, polling, loopVars, unbookedFees>>

\* Variant: every ended order without a filled_quantity raises.
RaisesWithoutFill(t) == trades[t].fqty = Unset

\* A partial fill of a trade without a filled_quantity: the log message
\* formats None, the exception is caught, and the poll leaves all as it was.
RaisesOnPartialFill(t) == orders[t].filled > 0 /\ trades[t].fqty = Unset

\* Variant: every status but FILLED counts as an end.
PollEndedOnAnyStatus(t) ==
    LET o == orders[t] IN
    /\ Polled(t)
    /\ o.st # "filled"
    /\ ~RaisesOnPartialFill(t)
    /\ MarkTradeStatus(t, trades[t], o.st)
    /\ ReverseTradeBooking(trades[t])
    /\ UNCHANGED <<exchangeVars, verifying, polling, loopVars, ghostVars>>

\* reverse_trade_booking floors the position at zero: the coins it takes out
\* of the ledger may have been sold, paid for by a fill not yet recorded.
Floors(tr) == tr.action = "buy" /\ positions[tr.pair] < PosPart(tr.qty - PosPart(tr.fqty))

\* The order ended at the exchange: take over its fill, mark and reverse.
PollEnded(t) ==
    LET o == orders[t]
        tr == IF o.filled > 0 /\ o.filled # trades[t].fqty
              THEN [trades[t] EXCEPT !.fqty = o.filled, !.fprice = o.price]
              ELSE trades[t]
    IN
    /\ Polled(t)
    /\ o.st \in {"cancelled", "failed"}
    /\ ~RaisesOnPartialFill(t)
    /\ MarkTradeStatus(t, tr, o.st)
    /\ ReverseTradeBooking(tr)
    /\ diverged' = diverged \cup (IF o.filled > 0 THEN {"partial"} ELSE {})
                            \cup (IF o.filled = 0 /\ tr.fqty # Unset THEN {"refunded"} ELSE {})
                            \cup (IF Floors(tr) THEN {"floored"} ELSE {})
    /\ UNCHANGED <<exchangeVars, verifying, polling, loopVars, unbookedFees>>

\* The order is OPEN and past its TTL or its drift limit: cancel it next.
PollStale(t) ==
    /\ Polled(t)
    /\ orders[t].st = "open"
    /\ polling' = t
    /\ UNCHANGED <<ledgerVars, exchangeVars, verifying, loopVars, ghostVars>>

\* _cancel_stale_order: the exchange accepts the call, whatever became of the
\* order since get_order, and the trade is reversed from what the trade says.
CancelStale(t) ==
    /\ polling = t
    /\ polling' = 0
    /\ orders' = IF orders[t].st = "open"
                 THEN [orders EXCEPT ![t].st = "cancelled"] ELSE orders
    /\ MarkTradeStatus(t, trades[t], "cancelled")
    /\ ReverseTradeBooking(trades[t])
    /\ diverged' = diverged \cup (IF orders[t].filled > 0 THEN {"raced"} ELSE {})
                            \cup (IF trades[t].fqty # Unset THEN {"refunded"} ELSE {})
                            \cup (IF Floors(trades[t]) THEN {"floored"} ELSE {})
    /\ UNCHANGED <<base, quote, verifying, loopVars, unbookedFees>>

\* Variant: the result of the cancel call is not looked at.
CancelFailsUnnoticed(t) ==
    /\ polling = t
    /\ polling' = 0
    /\ MarkTradeStatus(t, trades[t], "cancelled")
    /\ ReverseTradeBooking(trades[t])
    /\ UNCHANGED <<exchangeVars, verifying, loopVars, ghostVars>>

\* The cancel call failed: the order stays, the next cycle tries again.
CancelFails(t) ==
    /\ polling = t
    /\ polling' = 0
    /\ UNCHANGED <<ledgerVars, exchangeVars, verifying, loopVars, ghostVars>>

-----------------------------------------------------------------------------
(* Exits *)

\* A filled buy trade: the only kind the exits look at.
Exitable(t) == /\ Idle
               /\ trades[t].status = "filled" /\ trades[t].action = "buy"

\* _cap_qty_to_balance
Capped(p, qty) == Least(qty, base[p])

\* The exchange sells n units at once at the given price.
SellNow(p, n, price) ==
    /\ n <= base[p] - BaseHeld(p)
    /\ base' = [base EXCEPT ![p] = @ - n]
    /\ quote' = quote + n * price - Fee
    /\ UNCHANGED orders

\* What a sell of qty may come to: an IOC order in limit-only mode may sell
\* less, and the executor does not read how much was sold.
SoldOf(qty) == IF PartialFills THEN {1, qty} ELSE {qty}

\* The ledger closes `closed` units where the exchange sold n; the proceeds
\* of a tier exit are dropped when its fee exceeds them.
Shortfall(p, n, closed, proceeds) ==
    diverged' = diverged \cup (IF n # closed THEN {"unsold"} ELSE {})
                        \cup (IF positions[p] < closed THEN {"overclosed"} ELSE {})
                        \cup (IF proceeds < 0 THEN {"sunk"} ELSE {})

\* _close_position_inner, for a stop-loss or take-profit (stops unchanged)
\* and for a trailing stop (its stop is removed afterwards).
ClosePosition(t, price, fromStop) ==
    LET p == trades[t].pair
        qty == Capped(p, Booked(trades[t]))
    IN
    /\ Exitable(t)
    /\ fromStop => p \in stops
    /\ IF qty <= 0
       THEN /\ CloseTrade(t, price, 0)
            /\ Diverge("unsold", TRUE)
            /\ UNCHANGED exchangeVars
       ELSE /\ CloseTrade(t, price, Fee)
            /\ \E n \in SoldOf(qty) :
                  /\ SellNow(p, n, price)
                  /\ Shortfall(p, n, Held(trades[t]), 0)
    /\ stops' = IF fromStop THEN stops \ {p} ELSE stops
    /\ UNCHANGED <<verifying, polling, liveCash, monitoring, tierPnl, unbookedFees>>

\* _partial_sell, for a tier of the trailing stop
PartialSell(t, quantity, price) ==
    LET tr == trades[t]
        qty == Capped(tr.pair, quantity)
        remaining == PosPart(Held(tr) - qty)
    IN
    /\ Exitable(t)
    /\ qty > 0
    /\ \E n \in SoldOf(qty) :
          /\ SellNow(tr.pair, n, price)
          /\ IF remaining > 0 THEN Shortfall(tr.pair, n, qty, price * qty - Fee)
                              ELSE Shortfall(tr.pair, n, Held(tr), 0)
    /\ IF remaining > 0
       THEN /\ UpdatePartialFill(t, remaining, qty, price * qty - Fee)
            /\ tierPnl' = tierPnl + (price - Entry(tr)) * qty - Fee
       ELSE /\ CloseTrade(t, price, Fee)
            /\ UNCHANGED tierPnl
    /\ UNCHANGED <<verifying, polling, stops, liveCash, monitoring, unbookedFees>>

\* A trailing stop fires while the pair has no filled buy trade.
DropStop(p) ==
    /\ Idle
    /\ p \in stops
    /\ \A t \in OpenBuys(p) : trades[t].status # "filled"
    /\ stops' = stops \ {p}
    /\ UNCHANGED <<ledgerVars, exchangeVars, verifying, polling, liveCash, monitoring,
                   tierPnl, ghostVars>>

-----------------------------------------------------------------------------
(* HoldingsManager *)

\* maybe_refresh_holdings
RefreshHoldings ==
    /\ Idle
    /\ SyncLiveHoldings(quote, base)
    /\ liveCash' = IF quote < MinTrade THEN "low" ELSE "enough"
    /\ stops' = stops \cup NewExternals(base)
    /\ unbookedFees' = IF TakesLiveCash(quote) THEN 0 ELSE unbookedFees
    /\ Diverge("resynced", \/ TakesLiveCash(quote) /\ OpenTrades # {}
                           \/ /\ verifying # {}
                              /\ TakesLiveCash(quote) \/ NewExternals(base) # {})
    /\ UNCHANGED <<exchangeVars, verifying, polling, monitoring, tierPnl>>

Expected(p) == MapThenSumSet(LAMBDA t : Held(trades[t]), OpenBuys(p))

\* _sync_trade_filled_qty: the balance is shared out in proportion.  The
\* code's shares are floats; here each is rounded up or down to a unit.
ShareOut(p) ==
    \E share \in [OpenBuys(p) -> 1..base[p]] :
        /\ \A t \in OpenBuys(p) :
              Distance(share[t] * Expected(p), base[p] * Held(trades[t])) < Expected(p)
        /\ trades' = [t \in Trade |-> IF t \in OpenBuys(p)
                                      THEN [trades[t] EXCEPT !.fqty = share[t]]
                                      ELSE trades[t]]

\* _auto_close_zero_balance_trades: every open buy trade of the pair, the
\* resting ones too, is closed at price 0.
AutoClose(p) ==
    /\ trades' = [t \in Trade |-> IF t \in OpenBuys(p) THEN Closed(trades[t], 0, 0)
                                                      ELSE trades[t]]
    /\ ReconcilePosition(p, 0, 0)

\* reconcile_positions, for one currency
Reconcile(p, price) ==
    /\ Idle
    /\ \/ /\ Expected(p) > 0 /\ base[p] # Expected(p)
          /\ IF base[p] = 0
             THEN AutoClose(p)
             ELSE ReconcilePosition(p, base[p], price) /\ ShareOut(p)
       \/ /\ OpenBuys(p) = {} /\ base[p] > 0 /\ price > 0
          /\ p \notin OpenPositions
          /\ positions' = [positions EXCEPT ![p] = base[p]]
          /\ tracked' = tracked \cup {p}
          /\ UNCHANGED <<trades, cash>>
    /\ Diverge("reconciled", TRUE)
    /\ UNCHANGED <<exchangeVars, verifying, polling, loopVars, unbookedFees>>

-----------------------------------------------------------------------------

Pipeline(t) ==
    \/ \E p \in Pair, price \in Price : PlaceLimitBuy(t, p, price)
    \/ \E p \in Pair, market \in Price, limit \in Price : PlaceLimitUnanswered(t, p, market, limit)
    \/ \E p \in Pair, side \in Action, price \in Price : PlaceMarket(t, p, side, price)
    \/ RecordFilled(t)
    \/ RecordEnded(t)
    \/ \E status \in {"filled", "pending"} : RecordUnconfirmed(t, status)

Exchange(t) ==
    \/ FillLimit(t)
    \/ \E price \in Price : FillMarket(t, price)
    \/ \E st \in {"cancelled", "failed"} : EndOrder(t, st)

Poll(t) ==
    \/ PollNotFound(t)
    \/ PollFilled(t)
    \/ PollEnded(t)
    \/ PollStale(t)
    \/ CancelStale(t)
    \/ CancelFails(t)

Exit(t) ==
    \/ \E price \in Price, fromStop \in BOOLEAN : ClosePosition(t, price, fromStop)
    \/ \E price \in Price : \E qty \in 1..orders[t].qty : PartialSell(t, qty, price)

Next ==
    \/ \E t \in Trade : Pipeline(t) \/ Exchange(t) \/ Poll(t) \/ Exit(t)
    \/ \E S \in SUBSET verifying : CycleTimeout(S)
    \/ StartCycle
    \/ \E p \in Pair : \/ DropStop(p)
                       \/ \E n \in 1..base[p] : Withdraw(p, n)
                       \/ \E price \in Price \cup {0} : Reconcile(p, price)
    \/ RefreshHoldings

Spec == Init /\ [][Next]_vars

(***************************************************************************)
(* Fairness.  The loop turns forever, and a cycle outside monitoring mode  *)
(* polls every pending order: a poll of t that is possible again and again *)
(* happens, strong fairness per order, and takes the branch of the status  *)
(* it is told.  A cycle in monitoring mode polls nothing (Polled), and     *)
(* nothing is assumed to end that mode.                                    *)
(* CancelFails may repeat but not for ever: a broker that never accepts a  *)
(* cancel is outside what the executor can handle.  _verify_fill ends      *)
(* after eight attempts at most.  Nothing is assumed of the exchange's     *)
(* fills and of the strategy.                                              *)
(***************************************************************************)
Fairness ==
    /\ WF_vars(StartCycle)
    /\ \A t \in Trade :
           /\ WF_vars(RecordFilled(t) \/ RecordEnded(t)
                        \/ \E status \in {"filled", "pending"} : RecordUnconfirmed(t, status))
           /\ SF_vars(PollFilled(t) \/ PollEnded(t) \/ PollStale(t))
           /\ SF_vars(CancelStale(t))

FairSpec == Spec /\ Fairness

-----------------------------------------------------------------------------
(* Properties *)

Pending(p) == {t \in Trade : trades[t].status = "pending" /\ trades[t].pair = p}

\* The units and the quote an order has moved so far, signed as a buy.
Moved(t) == (IF orders[t].side = "buy" THEN 1 ELSE -1) * orders[t].filled
Paid(t) == Moved(t) * orders[t].price + orders[t].fee

\* Per trade: the units booked and not yet delivered, those delivered and not
\* yet booked, and the same for the quote.
ToCome == [t \in Trade |-> Sign(trades[t]) * trades[t].qty - Moved(t)]
Unbooked == [t \in Trade |-> Moved(t)]
Overdrawn == [t \in Trade |-> Paid(t) - Sign(trades[t]) * Value(trades[t])]
Spent == [t \in Trade |-> Paid(t)]

\* Until one of the listed causes strikes, the position the ledger reports is
\* the exchange's balance, plus what pending orders still have to deliver,
\* less fills whose verification is under way.  Whoever adds a step to the
\* executor owes this: bookings, fills, cancels and exits cancel out exactly.
PositionsMatchExchange ==
    diverged = {} =>
        \A p \in Pair :
            positions[p] =
                base[p]
                + SumFunctionOnSet(ToCome, Pending(p))
                - SumFunctionOnSet(Unbooked, {t \in verifying : orders[t].pair = p})

\* Likewise for cash: the ledger differs from the account by the fees that
\* add_trade never booked, by what pending orders reserve and by market
\* orders not yet recorded, and by nothing else.
CashMatchesExchange ==
    diverged = {} =>
        cash = quote + unbookedFees
               + SumFunctionOnSet(Overdrawn, {t \in Trade : trades[t].status = "pending"})
               + SumFunctionOnSet(Spent, verifying)

\* When the bot holds nothing and waits for nothing, the account has gained
\* exactly the total_pnl it reports and the pnl of its tier exits, which only
\* the stats database knows.  No fee and no proceeds are lost or counted
\* twice over partial sells, closes and cancelled orders.
FlatAccountExplainedByPnl ==
    diverged = {} /\ OpenTrades = {} /\ verifying = {}
        => quote = InitialCash + TotalPnl + tierPnl

\* An order that can still fill at the exchange belongs to a pending trade or
\* to a pipeline that is verifying it, so that a fill will be noticed, unless
\* one of the listed causes struck.
LiveOrdersAreTracked ==
    diverged = {} =>
        \A t \in Trade : orders[t].st = "open" =>
            t \in verifying \/ trades[t].status = "pending"

\* A trade that was closed, cancelled or failed keeps its record for ever:
\* no late poll, no second exit and no reconciliation rewrites its fill, fees
\* or pnl, even after ledger and exchange came apart.
TerminalTradesAreFinal ==
    [][\A t \in Trade : trades[t].status \in Terminal => trades'[t] = trades[t]]_vars

\* The executor, the polls, the exits and the holdings manager together move
\* a trade through its statuses as the lifecycle promises: one opening, one
\* settling of a pending order, one close, although no two of them share a
\* guard and every one of them may find the trade changed by another.
Lifecycle == INSTANCE TradeLifecycle WITH status <- [t \in Trade |-> trades[t].status]
FollowsLifecycle == Lifecycle!Spec

\* The loop is not in monitoring mode for good.  A resting order, its own
\* stop and the cash it reserves can put it there, and then only a fill, an
\* exit or a refresh of the balances takes it out.
CyclesPoll == []<>~monitoring

\* The poll raises on this order in every cycle, and settles it in none.
RaisesInEveryCycle(t) ==
    /\ orders[t].st \in {"cancelled", "failed"}
    /\ orders[t].filled > 0 /\ trades[t].fqty = Unset

\* As long as cycles poll at all, every resting order is settled in the end:
\* the poll finds it filled or ended, or cancels it after its TTL
\* (check_pending_orders).  The one order it never settles ended at the
\* exchange after a partial fill while its trade has no filled_quantity.
PendingResolved ==
    CyclesPoll =>
        \A t \in Trade : trades[t].status = "pending" ~>
            trades[t].status # "pending" \/ RaisesInEveryCycle(t)

=============================================================================
