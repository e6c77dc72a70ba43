------------------------------ MODULE ExitEngine ------------------------------
(***************************************************************************)
(* How positions are left.  Three mechanisms watch a bought position: the  *)
(* trailing stop of its pair with its tiers (core/trailing_stop.py), the   *)
(* trade's own stop-loss and take-profit (check_stop_losses of             *)
(* agents/executor.py) and the owner's commands                            *)
(* (core/managers/dashboard_commands.py).  The orchestrator runs them in   *)
(* one pass per cycle: update all stops, sell those that fired, sell the   *)
(* tiers that were reached, check every trade.                             *)
(*                                                                         *)
(* A stop belongs to a PAIR and knows nothing of trades; a sell looks for  *)
(* the first filled buy trade of the pair.  Between two sells of a pass    *)
(* another thread (the chat's price query) may move the price, and every   *)
(* sell may be rejected by the exchange.  Buys, fills and commands come    *)
(* between two passes.                                                     *)
(*                                                                         *)
(* Levels are prices times 100, so that a percentage of a price is exact.  *)
(* A sell is filled whole; partial and slipped fills are OrderExecution's. *)
(* The fill of a resting order reaches account and ledger in one step.     *)
(* The short side of TrailingStop is left out: no caller asks for it.      *)
(***************************************************************************)
EXTENDS Integers, FiniteSets, Sequences, FiniteSetsExt

CONSTANTS
    MaxTrades,      \* bound: the number of buys in a behaviour
    Pair,           \* the trading pairs
    Price,          \* bound: the prices of the market
    Quantity,       \* the size of every position
    TrailPct,       \* default_trail_pct
    FailureLimit,   \* _close_failure_limit
    StopLossPct,    \* how far below the decision's price a trade's stop_loss lies
    TakeProfitPct   \* how far above the decision's price its take_profit lies

ASSUME ExitAssumption ==
    /\ MaxTrades \in Nat \ {0}
    /\ Pair # {} /\ Price # {} /\ Price \subseteq Nat \ {0}
    /\ Quantity \in Nat \ {0} /\ FailureLimit \in Nat \ {0}
    /\ TrailPct \in 1..99 /\ StopLossPct \in 1..99 /\ TakeProfitPct \in Nat \ {0}

VARIABLES
    trades,       \* the buy trades, in order of creation
    coins,        \* the exchange's balance of each pair's base currency
    discovered,   \* pairs whose coins were found on the account
    price,        \* state.current_prices
    stops,        \* trailing_stops.stops
    phase,        \* where the pass stands
    firing,       \* pairs update_prices returned and not yet handled
    unchecked,    \* open trades check_stop_losses has still to look at
    failures,     \* _close_failures
    lossRecords,  \* how often a trade's loss was added to the daily loss
    abandoned,    \* ghost: trades whose own trailing stop is gone
    uneven        \* ghost: trades whose tiers no longer sum to their holding

loopVars == <<phase, firing, unchecked>>
ghostVars == <<abandoned, uneven>>
vars == <<trades, coins, discovered, price, stops, loopVars, failures, lossRecords,
          ghostVars>>

Trade == 1..MaxTrades

External == 0    \* the owner of a stop for coins no trade has bought

\* DEFAULT_TIERS, in percent of the entry and of the quantity that remains
Tiers == <<[trigger |-> 3, exit |-> 33], [trigger |-> 6, exit |-> 50]>>

\* entry is the price the order was filled or placed at, basis the market's
\* price when the trade was decided, from which stop_loss and take_profit are
\* taken and which is the entry of the trailing stop.
Position == [st: {"none", "pending", "filled", "ended", "closed"},
             pair: Pair, entry: Price, basis: Price, held: Nat]

Unused == [st |-> "none", pair |-> CHOOSE p \in Pair : TRUE,
           entry |-> CHOOSE x \in Price : TRUE, basis |-> CHOOSE x \in Price : TRUE,
           held |-> 0]

\* A trade that is over keeps its status; its data are read no more.
Over(tr, st) == [Unused EXCEPT !.st = st, !.pair = tr.pair]

\* A TrailingStop.  reached are its triggered tiers, the lower before the higher
\* as their levels rise; exits are the tiers in pending_tier_exits; early says
\* that min_hold_minutes have not passed.
Stop == [for: Trade \cup {External}, entry: Price, high: Price, at: Nat,
         fired: BOOLEAN, reached: SUBSET (1..Len(Tiers)), exits: SUBSET (1..Len(Tiers)),
         early: BOOLEAN]

NoStop == [for |-> -1]

Phase == {"idle", "stops", "tiers", "losses"}

TypeOK ==
    /\ trades \in [Trade -> Position]
    /\ coins \in [Pair -> Nat]
    /\ discovered \subseteq Pair
    /\ price \in [Pair -> Price]
    /\ stops \in [Pair -> Stop \cup {NoStop}]
    /\ phase \in Phase
    /\ firing \subseteq Pair
    /\ unchecked \subseteq Trade
    /\ failures \in [Trade -> 0..FailureLimit]
    /\ lossRecords \in [Trade -> Nat]
    /\ abandoned \subseteq Trade
    /\ uneven \subseteq Trade

Init ==
    /\ price \in [Pair -> Price]
    /\ trades = [t \in Trade |-> Unused]
    /\ coins = [p \in Pair |-> 0]
    /\ discovered = {}
    /\ stops = [p \in Pair |-> NoStop]
    /\ phase = "idle" /\ firing = {} /\ unchecked = {}
    /\ failures = [t \in Trade |-> 0]
    /\ lossRecords = [t \in Trade |-> 0]
    /\ abandoned = {}
    /\ uneven = {}

-----------------------------------------------------------------------------
(* The trailing stop *)

HasStop(p) == stops[p] # NoStop

Owns(t) == HasStop(trades[t].pair) /\ stops[trades[t].pair].for = t

\* What is left of the position after k tiers.
After(n, k) == n - (n * Tiers[k].exit) \div 100

Left(k) == CASE k = 0 -> Quantity
             [] k = 1 -> After(Quantity, 1)
             [] k = 2 -> After(After(Quantity, 1), 2)

\* exit_qty of tier k
ExitQuantity(k) == Left(k - 1) - Left(k)

\* TrailingStop.__init__
NewStop(owner, entry, at) ==
    [for |-> owner, entry |-> entry, high |-> entry, at |-> at, fired |-> FALSE,
     reached |-> {}, exits |-> {}, early |-> TRUE]

TiersAt(s, x) == {k \in 1..Len(Tiers) : 100 * x >= s.entry * (100 + Tiers[k].trigger)}

\* Variant: a tier is asked again after it has triggered.
CheckTiersAgain(s, x) ==
    [s EXCEPT !.reached = @ \cup TiersAt(s, x), !.exits = @ \cup TiersAt(s, x)]

\* _check_tiers: every tier whose level the price has reached is triggered.
CheckTiers(s, x) ==
    [s EXCEPT !.reached = @ \cup TiersAt(s, x),
              !.exits = @ \cup (TiersAt(s, x) \ s.reached)]

\* _update_long
Trail(s, x) ==
    LET trail == x * (100 - TrailPct)
        raised == IF x > s.high
                  THEN [s EXCEPT !.high = x, !.at = IF trail > @ THEN trail ELSE @]
                  ELSE s
    IN [raised EXCEPT !.fired = ~s.early /\ 100 * x <= raised.at]

\* Variant: a stop that fired is judged again at the next price.
UpdateAgain(s, x) == Trail(CheckTiers(s, x), x)

\* TrailingStop.update
Update(s, x) == IF s.fired THEN s ELSE Trail(CheckTiers(s, x), x)

\* The open trade that loses the stop of p, other than the one that goes with it
Bereave(p, closed) ==
    abandoned' = abandoned \cup
        {t \in Trade \ {closed} : HasStop(p) /\ stops[p].for = t
                                 /\ trades[t].st \in {"pending", "filled"}}

-----------------------------------------------------------------------------
(* Between two passes *)

Fresh(t) ==
    /\ trades[t].st = "none"
    /\ \A u \in 1..(t - 1) : trades[u].st # "none"

StopLoss(t) == trades[t].basis * (100 - StopLossPct)

TakeProfit(t) == trades[t].basis * (100 + TakeProfitPct)

\* Variant: add_stop does not get the risk manager's stop_loss.
AddStopAtTrail(t, p, entry) ==
    /\ stops' = [stops EXCEPT ![p] = NewStop(t, entry, entry * (100 - TrailPct))]
    /\ Bereave(p, t)

\* add_stop with the risk manager's stop_loss as initial stop.  Only the
\* pipeline calls it: a buy approved by chat, or one whose cycle times out
\* before the call, gets no stop.
AddStop(t, p, entry) ==
    \/ /\ stops' = [stops EXCEPT ![p] = NewStop(t, entry, entry * (100 - StopLossPct))]
       /\ Bereave(p, t)
    \/ /\ abandoned' = abandoned \cup {t}
       /\ UNCHANGED stops

\* A market buy, recorded as filled
Buy(t, p) ==
    /\ phase = "idle" /\ Fresh(t)
    /\ trades' = [trades EXCEPT ![t] = [st |-> "filled", pair |-> p,
                                        entry |-> price[p], basis |-> price[p],
                                        held |-> Quantity]]
    /\ coins' = [coins EXCEPT ![p] = @ + Quantity]
    /\ AddStop(t, p, price[p])
    /\ UNCHANGED <<discovered, price, loopVars, failures, lossRecords, uneven>>

\* A limit buy that rests below the market.  Its stop is set at once, from the
\* market's price, as a reply without a fill has no filled_price.
PlaceResting(t, p, limit) ==
    /\ phase = "idle" /\ Fresh(t) /\ limit <= price[p]
    /\ trades' = [trades EXCEPT ![t] = [st |-> "pending", pair |-> p,
                                        entry |-> limit, basis |-> price[p],
                                        held |-> 0]]
    /\ AddStop(t, p, price[p])
    /\ UNCHANGED <<coins, discovered, price, loopVars, failures, lossRecords, uneven>>

\* check_pending_orders finds the order filled, or ended.  The stop of an
\* ended order stays, for nobody.
Settle(t) ==
    /\ phase = "idle" /\ trades[t].st = "pending"
    /\ \/ /\ trades' = [trades EXCEPT ![t].st = "filled", ![t].held = Quantity]
          /\ coins' = [coins EXCEPT ![trades[t].pair] = @ + Quantity]
       \/ /\ trades' = [trades EXCEPT ![t] = Over(@, "ended")]
          /\ UNCHANGED coins
    /\ UNCHANGED <<discovered, price, stops, loopVars, failures, lossRecords, ghostVars>>

\* Coins without a trade appear on the account and maybe_refresh_holdings
\* gives them a stop below the price of their discovery.
Discover(p) ==
    /\ phase = "idle"
    /\ p \notin discovered
    /\ \A t \in Trade : trades[t].pair = p => trades[t].st \notin {"pending", "filled"}
    /\ discovered' = discovered \cup {p}
    /\ coins' = [coins EXCEPT ![p] = @ + Quantity]
    /\ stops' = [stops EXCEPT ![p] = NewStop(External, price[p], price[p] * (100 - TrailPct))]
    /\ UNCHANGED <<trades, price, loopVars, failures, lossRecords, ghostVars>>

\* The dashboard's tighten_stop
TightenToBreakeven(p) ==
    /\ phase = "idle" /\ HasStop(p)
    /\ stops' = [stops EXCEPT ![p].at = 100 * stops[p].entry]
    /\ UNCHANGED <<trades, coins, discovered, price, loopVars, failures, lossRecords, ghostVars>>

\* min_hold_minutes have passed; only update_prices asks, so between passes.
EndMinHold(p) ==
    /\ phase = "idle" /\ HasStop(p) /\ stops[p].early
    /\ stops' = [stops EXCEPT ![p].early = FALSE]
    /\ UNCHANGED <<trades, coins, discovered, price, loopVars, failures, lossRecords, ghostVars>>

MovePrice(p, x) ==
    /\ x # price[p]
    /\ price' = [price EXCEPT ![p] = x]
    /\ UNCHANGED <<trades, coins, discovered, stops, loopVars, failures, lossRecords, ghostVars>>

-----------------------------------------------------------------------------
(* Sells *)

Filled(p) == {t \in Trade : trades[t].pair = p /\ trades[t].st = "filled"}

\* The trade close_position_by_pair finds, if there is one
First(p) == {t \in Filled(p) : \A u \in Filled(p) : t <= u}

\* _cap_qty_to_balance
Capped(p, n) == IF coins[p] < n THEN coins[p] ELSE n

\* A close comes about when there is nothing to sell or the sell succeeds.
Closes(t, sold) == coins[trades[t].pair] = 0 \/ sold

\* Variant: close_trade is called whether or not the sell succeeded.
ClosePositionAnyway(t, sold, records) ==
    /\ trades' = [trades EXCEPT ![t] = Over(@, "closed")]
    /\ coins' = IF sold THEN [coins EXCEPT ![trades[t].pair] = @ - Capped(trades[t].pair, trades[t].held)]
                        ELSE coins
    /\ UNCHANGED lossRecords

\* _close_position_inner; records is how often the callers pass a loss on.
ClosePosition(t, sold, records) ==
    LET p == trades[t].pair
        qty == Capped(p, trades[t].held)
    IN
    IF Closes(t, sold)
    THEN /\ trades' = [trades EXCEPT ![t] = Over(@, "closed")]
         /\ coins' = [coins EXCEPT ![p] = @ - qty]
         /\ lossRecords' = IF qty > 0 /\ price[p] < trades[t].entry
                           THEN [lossRecords EXCEPT ![t] = @ + records] ELSE lossRecords
    ELSE UNCHANGED <<trades, coins, lossRecords>>

RemoveStop(p, closed) ==
    /\ stops' = [stops EXCEPT ![p] = NoStop]
    /\ Bereave(p, closed)

\* The dashboard's liquidate: the stop goes whenever there was a trade to
\* sell, sold or not.
Liquidate(p, sold) ==
    /\ phase = "idle"
    /\ \E t \in First(p) :
          /\ ClosePosition(t, sold, 1)
          /\ RemoveStop(p, IF Closes(t, sold) THEN t ELSE External)
    /\ UNCHANGED <<discovered, price, loopVars, failures, uneven>>

-----------------------------------------------------------------------------
(* The pass *)

\* update_prices
UpdatePrices ==
    /\ phase = "idle"
    /\ stops' = [p \in Pair |-> IF HasStop(p) THEN Update(stops[p], price[p]) ELSE NoStop]
    /\ firing' = {p \in Pair : HasStop(p) /\ stops'[p].fired}
    /\ phase' = "stops"
    /\ UNCHANGED <<trades, coins, discovered, price, unchecked, failures, lossRecords, ghostVars>>

\* Variant: the result of the sell is not looked at.
DoneRegardless(t, sold) == TRUE

\* The stop goes with a success; a failed sell keeps it.
Done(t, sold) == Closes(t, sold)

\* A stop has fired: sell the pair's first trade.  A loss is recorded by the
\* executor and by the orchestrator.  With no trade to sell the stop goes.
SellFired(p, sold) ==
    /\ phase = "stops" /\ p \in firing
    /\ firing' = firing \ {p}
    /\ \/ /\ Filled(p) = {}
          /\ RemoveStop(p, External)
          /\ UNCHANGED <<trades, coins, lossRecords>>
       \/ \E t \in First(p) :
             /\ ClosePosition(t, sold, 2)
             /\ IF Done(t, sold) THEN RemoveStop(p, t) ELSE UNCHANGED <<stops, abandoned>>
    /\ UNCHANGED <<discovered, price, phase, unchecked, failures, uneven>>

\* _partial_sell of tier k
PartialSell(t, k) ==
    LET p == trades[t].pair
        qty == Capped(p, ExitQuantity(k))
        rest == trades[t].held - qty
    IN
    /\ coins' = [coins EXCEPT ![p] = @ - qty]
    /\ trades' = [trades EXCEPT ![t] = IF rest > 0 THEN [@ EXCEPT !.held = rest]
                                                  ELSE Over(@, "closed")]
    /\ uneven' = IF t = stops[p].for /\ qty = ExitQuantity(k)
                 THEN uneven ELSE uneven \cup {t} \cup ({stops[p].for} \cap Trade)

\* A tier was reached.  Its exit is popped before the sell and is gone when
\* the sell fails or finds nothing to sell.
SellTier(p, k, sold) ==
    /\ phase = "tiers" /\ HasStop(p) /\ k \in stops[p].exits
    /\ \A j \in stops[p].exits : k <= j
    /\ stops' = [stops EXCEPT ![p].exits = @ \ {k}]
    /\ IF sold /\ coins[p] > 0 /\ Filled(p) # {}
       THEN \E t \in First(p) : PartialSell(t, k)
       ELSE /\ uneven' = uneven \cup ({stops[p].for} \cap Trade)
            /\ UNCHANGED <<trades, coins>>
    /\ UNCHANGED <<discovered, price, loopVars, failures, lossRecords, abandoned>>

\* Variant: no attempt is the last.
NeverStuck(t) == FALSE

\* After _close_failure_limit failures the stop-loss is left to the owner.
Stuck(t) == failures[t] >= FailureLimit

\* check_stop_losses, for one trade
CheckExit(t, sold) ==
    LET x == 100 * price[trades[t].pair]
        breached == x <= StopLoss(t)
    IN
    /\ phase = "losses" /\ t \in unchecked
    /\ unchecked' = unchecked \ {t}
    /\ IF \/ breached /\ ~Stuck(t)
          \/ ~breached /\ x >= TakeProfit(t)
       THEN ClosePosition(t, sold, 1)
       ELSE UNCHANGED <<trades, coins, lossRecords>>
    /\ failures' = IF breached /\ ~Stuck(t)
                   THEN [failures EXCEPT ![t] = IF Closes(t, sold) THEN 0 ELSE @ + 1]
                   ELSE failures
    /\ UNCHANGED <<discovered, price, stops, phase, firing, ghostVars>>

\* The pass moves on when a phase has nothing left to do.
Advance ==
    /\ \/ /\ phase = "stops" /\ firing = {}
          /\ phase' = "tiers"
          /\ UNCHANGED unchecked
       \/ /\ phase = "tiers"
          /\ \A p \in Pair : HasStop(p) => stops[p].exits = {}
          /\ phase' = "losses"
          /\ unchecked' = {t \in Trade : trades[t].st = "filled"}
       \/ /\ phase = "losses" /\ unchecked = {}
          /\ phase' = "idle"
          /\ UNCHANGED unchecked
    /\ UNCHANGED <<trades, coins, discovered, price, stops, firing, failures, lossRecords, ghostVars>>

-----------------------------------------------------------------------------

Next ==
    \/ \E t \in Trade : \/ \E p \in Pair : Buy(t, p)
                        \/ \E p \in Pair, x \in Price : PlaceResting(t, p, x)
                        \/ Settle(t)
                        \/ \E sold \in BOOLEAN : CheckExit(t, sold)
    \/ \E p \in Pair : \/ Discover(p)
                       \/ TightenToBreakeven(p)
                       \/ EndMinHold(p)
                       \/ \E x \in Price : MovePrice(p, x)
                       \/ \E sold \in BOOLEAN : Liquidate(p, sold) \/ SellFired(p, sold)
                       \/ \E k \in 1..Len(Tiers), sold \in BOOLEAN : SellTier(p, k, sold)
    \/ UpdatePrices
    \/ Advance

Spec == Init /\ [][Next]_vars

(***************************************************************************)
(* Fairness.  The loop turns: every pass is begun and finished.  Time      *)
(* passes, so a minimum hold ends.  The exchange may reject any sell, but  *)
(* does not reject the sell of one fired stop in every cycle for ever.     *)
(* The price, the owner and the buys are under no obligation.              *)
(***************************************************************************)
Fairness ==
    /\ WF_vars(UpdatePrices)
    /\ WF_vars(Advance)
    /\ \A p \in Pair :
           /\ SF_vars(EndMinHold(p))
           /\ WF_vars(\E sold \in BOOLEAN : SellFired(p, sold))
           /\ SF_vars(SellFired(p, TRUE))
           /\ WF_vars(\E k \in 1..Len(Tiers), sold \in BOOLEAN : SellTier(p, k, sold))
    /\ \A t \in Trade : WF_vars(\E sold \in BOOLEAN : CheckExit(t, sold))

FairSpec == Spec /\ Fairness

-----------------------------------------------------------------------------
(* Properties *)

\* A bought position always has the trailing stop that was set for it, unless
\* one of the listed causes took it away: no rejected sell, no tier and no
\* stop-loss check of another trade leaves a position unwatched.
PositionsAreWatched ==
    \A t \in Trade : trades[t].st = "filled" => Owns(t) \/ t \in abandoned

ExitQuantities == [k \in 1..Len(Tiers) |-> ExitQuantity(k)]

Holdings == [t \in Trade |-> trades[t].held]

\* What a trade still holds is what its stop's tiers have left it, plus the
\* tiers reached and not yet sold: no tier is sold twice or skipped, although
\* stop, trade and balance each keep a quantity of their own.
TiersSumToHolding ==
    \A t \in Trade : trades[t].st = "filled" /\ Owns(t) /\ t \notin uneven =>
        LET s == stops[trades[t].pair] IN
        trades[t].held = Left(Cardinality(s.reached)) + SumFunctionOnSet(ExitQuantities, s.exits)

\* The trailing stop of a trade never lies below the trade's own stop-loss.
\* It is why a trade whose stop-loss gave up after three failures, which
\* executor.py announces as stuck, is still being sold.
StopCoversStopLoss ==
    \A t \in Trade : trades[t].st = "filled" /\ Owns(t) =>
        stops[trades[t].pair].at >= StopLoss(t)

\* Every coin bought is either held by a filled trade or was sold for one: no
\* exit closes a trade whose coins are still there.  Discovered coins stay.
CoinsBelongToTrades ==
    uneven = {} =>
        \A p \in Pair :
            coins[p] = SumFunctionOnSet(Holdings, Filled(p))
                       + (IF p \in discovered THEN Quantity ELSE 0)

\* A stop that fired is retried cycle after cycle until its position is
\* closed, whatever the price does meanwhile (orchestrator: "Sell failed -
\* keep the stop so it retries next cycle").
HasFired(t) == trades[t].st = "filled" /\ Owns(t) /\ stops[trades[t].pair].fired

FiredStopSells ==
    \A t \in Trade : HasFired(t) ~> trades[t].st = "closed" \/ t \in abandoned

\* A position whose price is under its stop-loss does not stay there for ever,
\* also after check_stop_losses has given up on it.
Breached(t) == /\ trades[t].st = "filled"
               /\ 100 * price[trades[t].pair] <= StopLoss(t)

BreachEnds ==
    \A t \in Trade : Breached(t) ~> ~Breached(t) \/ t \in abandoned
=============================================================================
