---------------------------- MODULE TradingState ----------------------------
(***************************************************************************)
(* The in-memory ledger of the bot: core/state.py (TradingState) with the  *)
(* order record of models/trade.py (Trade).  The ledger keeps the list of  *)
(* trades, a position per pair and one cash balance, and every operation   *)
(* below is one method of TradingState, which runs under the state lock    *)
(* and is therefore one atomic update.  A module that drives the ledger    *)
(* EXTENDS this one and combines the operations with its own variables.    *)
(*                                                                         *)
(* A price or a quantity is an integer number of units.  Python's `x or y` *)
(* on an optional float falls through on None and on 0 alike, while        *)
(* `x if x is not None else y` does not: Held and Booked keep the two      *)
(* readings of filled_quantity apart, as the code does.                    *)
(***************************************************************************)
EXTENDS Integers, FiniteSets, FiniteSetsExt

CONSTANTS
    MaxTrades,   \* bound: the number of trades one behaviour may create
    Pair,        \* the trading pairs
    InitialCash  \* cash_balance at start

ASSUME LedgerAssumption ==
    /\ MaxTrades \in Nat \ {0}
    /\ Pair # {}
    /\ InitialCash \in Int

VARIABLES
    trades,      \* self.trades, indexed in order of creation
    positions,   \* self.positions, 0 where the dict has no key
    tracked,     \* the keys of self.positions
    cash         \* self.cash_balance

ledgerVars == <<trades, positions, tracked, cash>>

Trade == 1..MaxTrades

Unset == -1      \* Python's None in an optional numeric field

Terminal == {"cancelled", "failed", "closed"}

Status == {"none", "pending", "filled"} \cup Terminal

Action == {"buy", "sell"}

\* One Trade.  pnl is what close() computes; TotalPnl sums it.
TradeRecord ==
    [status: Status, action: Action, pair: Pair, qty: Int, price: Int,
     fqty: Int, fprice: Int, fees: Int, pnl: Int]

NewTrade(status, action, p, qty, price) ==
    [status |-> status, action |-> action, pair |-> p, qty |-> qty,
     price |-> price, fqty |-> Unset, fprice |-> Unset, fees |-> 0,
     pnl |-> 0]

Or(x, y) == IF x \in {Unset, 0} THEN y ELSE x

PosPart(x) == IF x > 0 THEN x ELSE 0

Distance(x, y) == IF x > y THEN x - y ELSE y - x

Least(x, y) == IF x < y THEN x ELSE y

\* Trade.is_open
IsOpen(tr) == tr.status \in {"pending", "filled"}

\* filled_quantity or quantity / filled_quantity if it is not None
Held(tr) == Or(tr.fqty, tr.qty)
Booked(tr) == IF tr.fqty = Unset THEN tr.qty ELSE tr.fqty

\* filled_price or price
Entry(tr) == Or(tr.fprice, tr.price)

\* Trade.value
Value(tr) == Entry(tr) * Held(tr)

\* +1 for a buy, -1 for a sell: the sign of the trade in the position
Sign(tr) == IF tr.action = "buy" THEN 1 ELSE -1

SomePair == CHOOSE p \in Pair : TRUE   \* in the slots of trades to come

LedgerInit ==
    /\ trades = [t \in Trade |-> NewTrade("none", "buy", SomePair, 0, 0)]
    /\ positions = [p \in Pair |-> 0]
    /\ tracked = {}
    /\ cash = InitialCash

LedgerTypeOK ==
    /\ trades \in [Trade -> TradeRecord]
    /\ positions \in [Pair -> Int]
    /\ tracked \subseteq Pair
    /\ cash \in Int

-----------------------------------------------------------------------------
(* Queries *)

OpenTrades == {t \in Trade : IsOpen(trades[t])}

\* Variant: the selection forgets to ask whether a trade is still open.
OpenBuysOfAnyAge(p) ==
    {t \in Trade : /\ trades[t].status # "none"
                   /\ trades[t].action = "buy" /\ trades[t].pair = p}

\* The open buy trades of a pair, as the reconciliation code selects them.
OpenBuys(p) ==
    {t \in OpenTrades : trades[t].action = "buy" /\ trades[t].pair = p}

\* open_positions: the pairs with a non-zero position
OpenPositions == {p \in Pair : positions[p] # 0}

\* The cash of open buy orders, as sync_live_holdings sums it.
InFlightCash ==
    MapThenSumSet(LAMBDA t : Value(trades[t]),
                  {t \in OpenTrades : trades[t].action = "buy"})

\* total_pnl, the running sum of the pnl of every closed trade
TotalPnl ==
    SumFunctionOnSet([t \in Trade |-> trades[t].pnl],
                     {t \in Trade : trades[t].status = "closed"})

-----------------------------------------------------------------------------
(* Operations *)

\* The validation add_trade makes unless it is forced.
CanAdd(tr) ==
    IF tr.action = "buy" THEN Value(tr) <= cash
                         ELSE tr.qty <= positions[tr.pair]

\* add_trade books the planned quantity in the position but values the
\* trade at its filled price and quantity; fees are not booked.
AddTrade(t, tr) ==
    /\ trades' = [trades EXCEPT ![t] = tr]
    /\ positions' = [positions EXCEPT ![tr.pair] = @ + Sign(tr) * tr.qty]
    /\ tracked' = tracked \cup {tr.pair}
    /\ cash' = cash - Sign(tr) * Value(tr)

\* Variant: close() takes the fee of the exit only.
ClosedWithoutEntryFees(tr, closePrice, fees) ==
    [tr EXCEPT
        !.status = "closed",
        !.pnl = Sign(tr) * (closePrice - Entry(tr)) * Held(tr) - fees,
        !.fees = @ + fees]

\* Trade.close
Closed(tr, closePrice, fees) ==
    [tr EXCEPT
        !.status = "closed",
        !.pnl = Sign(tr) * (closePrice - Entry(tr)) * Held(tr) - tr.fees - fees,
        !.fees = @ + fees]

\* close_trade acts on an open trade only.
Closable(tr) == IsOpen(tr)

CloseTrade(t, closePrice, fees) ==
    LET tr == trades[t] IN
    IF Closable(tr)
    THEN /\ trades' = [trades EXCEPT ![t] = Closed(tr, closePrice, fees)]
         /\ tracked' = tracked \cup {tr.pair}
         /\ IF tr.action = "buy"
            THEN /\ positions' = [positions EXCEPT ![tr.pair] = PosPart(@ - Held(tr))]
                 /\ cash' = cash + closePrice * Held(tr) - fees
            ELSE /\ positions' = [positions EXCEPT ![tr.pair] = @ + Held(tr)]
                 /\ cash' = cash - (closePrice * Held(tr) + fees)
    ELSE UNCHANGED ledgerVars

\* update_partial_fill: a tier exit sold part of the position.
UpdatePartialFill(t, remaining, sold, proceeds) ==
    LET p == trades[t].pair IN
    /\ trades' = [trades EXCEPT ![t].fqty = remaining]
    /\ positions' = IF sold > 0 THEN [positions EXCEPT ![p] = PosPart(@ - sold)]
                                ELSE positions
    /\ tracked' = IF sold > 0 THEN tracked \cup {p} ELSE tracked
    /\ cash' = cash + PosPart(proceeds)

\* Variant: the fill is added to the booking instead of replacing it.
UpdateTradeFillOnTop(t, price, quantity, fees, status) ==
    LET tr == trades[t]
        valueDelta == price * quantity - Entry(tr) * Booked(tr) + fees
    IN
    /\ trades' = [trades EXCEPT ![t].status = status, ![t].fprice = price,
                                ![t].fqty = quantity, ![t].fees = fees]
    /\ positions' = [positions EXCEPT ![tr.pair] =
                       IF tr.action = "buy" THEN @ + quantity ELSE PosPart(@ - quantity)]
    /\ tracked' = tracked \cup {tr.pair}
    /\ cash' = cash - Sign(tr) * valueDelta

\* Variant: the fee of the fill is not taken from the cash.
UpdateTradeFillWithoutFee(t, price, quantity, fees, status) ==
    LET tr == trades[t]
        qtyDelta == quantity - Booked(tr)
        valueDelta == price * quantity - Entry(tr) * Booked(tr)
    IN
    /\ trades' = [trades EXCEPT ![t].status = status, ![t].fprice = price,
                                ![t].fqty = quantity, ![t].fees = fees]
    /\ positions' =
         IF qtyDelta = 0 THEN positions
         ELSE [positions EXCEPT ![tr.pair] =
                 IF tr.action = "buy" THEN @ + qtyDelta ELSE PosPart(@ - qtyDelta)]
    /\ tracked' = IF qtyDelta = 0 THEN tracked ELSE tracked \cup {tr.pair}
    /\ cash' = cash - Sign(tr) * valueDelta

\* update_trade_fill: replace the booking by the fill the exchange reports.
UpdateTradeFill(t, price, quantity, fees, status) ==
    LET tr == trades[t]
        qtyDelta == quantity - Booked(tr)
        valueDelta == price * quantity - Entry(tr) * Booked(tr) + fees
    IN
    /\ trades' = [trades EXCEPT ![t].status = status, ![t].fprice = price,
                                ![t].fqty = quantity, ![t].fees = fees]
    /\ positions' =
         IF qtyDelta = 0 THEN positions
         ELSE [positions EXCEPT ![tr.pair] =
                 IF tr.action = "buy" THEN @ + qtyDelta ELSE PosPart(@ - qtyDelta)]
    /\ tracked' = IF qtyDelta = 0 THEN tracked ELSE tracked \cup {tr.pair}
    /\ cash' = cash - Sign(tr) * valueDelta

\* mark_trade_status, with the fill data the caller wrote just before it
MarkTradeStatus(t, tr, status) ==
    trades' = [trades EXCEPT ![t] = [tr EXCEPT !.status = status]]

\* reverse_trade_booking: undo add_trade for the unfilled part.  With nothing
\* unfilled the code falls back to the whole value of the trade.
ReverseTradeBooking(tr) ==
    LET unfilled == PosPart(tr.qty - PosPart(tr.fqty))
        refund == IF unfilled > 0 THEN unfilled * Entry(tr) ELSE Value(tr)
    IN
    /\ positions' =
         [positions EXCEPT ![tr.pair] =
            IF tr.action = "buy" THEN PosPart(@ - unfilled) ELSE @ + unfilled]
    /\ tracked' = tracked \cup {tr.pair}
    /\ cash' = cash + Sign(tr) * refund

\* reconcile_position: overwrite the position by the exchange's balance and
\* move the cash by the difference at the current price (0 if unknown).
ReconcilePosition(p, actual, currentPrice) ==
    /\ positions' = [positions EXCEPT ![p] = actual]
    /\ tracked' = IF actual > 0 THEN tracked \cup {p} ELSE tracked \ {p}
    /\ cash' = cash - (actual - positions[p]) * currentPrice

\* sync_live_holdings: take over the fiat total when no trade explains the
\* difference, and add the holdings the ledger has no key for.  Returns (as
\* NewExternals) the pairs that were added.
TakesLiveCash(fiat) ==
    /\ fiat > 0
    /\ \/ OpenTrades = {}
       \/ 2 * Distance(fiat, cash) > 3 * InFlightCash

NewExternals(holdings) == {p \in Pair \ tracked : holdings[p] > 0}

SyncLiveHoldings(fiat, holdings) ==
    /\ cash' = IF TakesLiveCash(fiat) THEN fiat ELSE cash
    /\ positions' = [p \in Pair |-> IF p \in NewExternals(holdings)
                                    THEN holdings[p] ELSE positions[p]]
    /\ tracked' = tracked \cup NewExternals(holdings)
    /\ UNCHANGED trades
=============================================================================
