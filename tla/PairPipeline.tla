----------------------------- MODULE PairPipeline -----------------------------
(***************************************************************************)
(* How large a trade gets, and what it was checked against: the pipelines  *)
(* of core/managers/pipeline_manager.py (run_pipeline), one per pair and   *)
(* concurrent in a batch, with the sizing of agents/risk_manager.py, the   *)
(* per-order rules of core/rules.py, the fee gate of core/fee_manager.py   *)
(* and the sizing of agents/executor.py.  A pipeline awaits its data, then *)
(* its agents with the cash it has read, then the verification of its      *)
(* order; from the proposal to the order nothing is awaited, and that is   *)
(* one step here.  In between the other pipelines and the owner go on.     *)
(*                                                                         *)
(* Live mode on Coinbase with market orders, at a price of one, so that    *)
(* the portfolio keeps its value; an order is filled whole or refused.     *)
(* What analysts, strategists and multipliers come to is a choice here.    *)
(* A pair is not taken up while a buy of it waits for the owner.  Limit    *)
(* orders, exits and unconfirmed fills are in OrderExecution and           *)
(* ExitEngine, the daily counters and the cooldown in AbsoluteRules.       *)
(***************************************************************************)
EXTENDS Integers, FiniteSets, FiniteSetsExt

CONSTANTS
    Pair,
    InitialCash,    \* the account's cash, and the value of the portfolio
    Amount,         \* the quote amounts that are proposed
    Share,          \* the shares of a position proposed to sell, in percent
    MaxPosition,    \* what Kelly and the multipliers allow a position
    Viable,         \* the amounts from which a gain may be worth its fees
    CaMult,         \* the executor's cross-asset multipliers, in percent
    CashPct,        \* max_cash_per_trade_pct of the tier, in percent
    RiskPct,        \* max_portfolio_risk_pct, in percent
    PositionPct,    \* max_position_pct, in percent
    ExposurePct,    \* max_total_exposure_pct, in percent
    MaxSingle,      \* max_single_trade
    MaxDaily,       \* max_daily_spend
    ApprovalAbove,  \* require_approval_above
    MinTrade,       \* get_dynamic_min_trade
    MaxOpen,        \* max_open_positions
    MaxOrders       \* bound: the orders a behaviour places

ASSUME PipelineAssumption ==
    /\ IsFiniteSet(Pair)
    /\ {InitialCash, MaxSingle, MaxDaily, ApprovalAbove, MaxOpen, MaxOrders}
          \subseteq Nat
    /\ {MinTrade} \cup Amount \cup MaxPosition \cup Viable \subseteq Nat \ {0}
    /\ CaMult \subseteq 70..130
    /\ Share \cup {CashPct, RiskPct, PositionPct, ExposurePct} \subseteq 0..100

VARIABLES
    stage,      \* how far the pipeline of each pair is
    seen,       \* the cash balance it has read
    order,      \* the trade it decided on
    pos,        \* state.positions
    tracked,    \* the keys of state.positions
    liveCash,   \* live_cash_balances, as of the last refresh
    spent,      \* _daily_spend
    money,      \* the account's cash
    coins,      \* the account's coins
    placed,     \* for MaxOrders
    crowded     \* for the properties: see MaxOpenHolds

account == <<money, coins, placed>>
ledger == <<pos, tracked, liveCash, spent>>
vars == <<stage, seen, order, ledger, account, crowded>>

Stage == {"idle",
          "fetching",   \* awaits holdings, candles, price and signals
          "asking",     \* awaits analysts and strategists
          "queued",     \* in _pending_approvals
          "verifying"}  \* awaits _verify_fill

\* A decided trade: whether the owner approved it, the least amount that is
\* worth the fees, and whether the rules have stopped the fee gate's bump.
Order == [side: {"buy", "sell"}, amount: Nat, approved: BOOLEAN, viable: Nat,
          blocked: BOOLEAN]

NoOrder == [side |-> "buy", amount |-> 0, approved |-> FALSE, viable |-> 0,
            blocked |-> FALSE]

Init ==
    /\ stage = [p \in Pair |-> "idle"]
    /\ seen = [p \in Pair |-> 0]
    /\ order = [p \in Pair |-> NoOrder]
    /\ pos = [p \in Pair |-> 0] /\ tracked = {}
    /\ liveCash = InitialCash /\ spent = 0
    /\ money = InitialCash /\ coins = [p \in Pair |-> 0] /\ placed = 0
    /\ crowded = {}

-----------------------------------------------------------------------------
(* Sizing *)

Pct(pct, x) == (pct * x) \div 100

SmallestOf(S) == CHOOSE x \in S : \A y \in S : x <= y

LargestOf(S) == CHOOSE x \in S : \A y \in S : y <= x

\* _get_effective_limits: the single-trade limit grows with the account.
SingleTrade == SmallestOf({MaxSingle, Pct(CashPct, InitialCash)})

\* Without cash there is no share of it to observe.
CashShare(cash) == IF cash > 0 THEN Pct(CashPct, cash) ELSE SingleTrade

\* get_effective_buy_caps
RuleCap(cash) == SmallestOf({SingleTrade, CashShare(cash), Pct(RiskPct, InitialCash)})

\* check_trade for a buy.  The caps leave out the daily limit.
Allowed(amount, cash) ==
    /\ amount <= RuleCap(cash)
    /\ spent + amount <= MaxDaily

\* The buy is cut to what the cash and the single-trade limit allow.
Clamped(amount, cash) ==
    IF cash > 0 THEN SmallestOf({amount, Pct(CashPct, cash), SingleTrade}) ELSE amount

\* The positions are plain numbers, and getattr finds no quantity in them.
ExistingExposure == 0

Headroom == LargestOf({0, Pct(ExposurePct, InitialCash) - ExistingExposure})

\* The sizing behind the check of the rules only ever cuts.
Sized(amount, maxPosition) == SmallestOf({amount, maxPosition, Headroom})

\* Variant: the amount is only held against the smallest trade.
WorthwhileAboveMinimum(amount, viable) == amount >= MinTrade

\* is_trade_worthwhile: smaller amounts lose more of a gain to fixed fees.
Worthwhile(amount, viable) == amount >= LargestOf({MinTrade, viable})

\* What the fee gate may raise a buy to
BumpCap(cash) == SmallestOf({cash, Pct(PositionPct, InitialCash), RuleCap(cash)})

\* get_minimum_worthwhile_quote, 0 for none
LeastWorthwhile(viable, cap) ==
    IF Worthwhile(cap, viable) THEN LargestOf({MinTrade, viable}) ELSE 0

Bumped(amount, viable, cash) ==
    SmallestOf({LargestOf({amount, MinTrade, LeastWorthwhile(viable, BumpCap(cash))}),
                BumpCap(cash)})

Asks(amount) == amount > ApprovalAbove

\* Variant: the answer to the first check stands.
NeedsAnswerAfterBump(checked, bumped) == Asks(checked)

\* The rules are asked again for the raised amount.
NeedsApproval(checked, bumped) == Asks(bumped)

\* The fee gate: the ways a buy of a sized amount goes on.  When the rules
\* refuse the raised amount the verdict on it stands, and the buy goes on
\* with the amount that was too small.
Gated(amount, asks, viable, cash) ==
    LET bumped == Bumped(amount, viable, cash)
        buy == [NoOrder EXCEPT !.viable = viable]
    IN CASE Worthwhile(amount, viable) ->
              {[asks |-> asks, order |-> [buy EXCEPT !.amount = amount]]}
         [] /\ ~Worthwhile(amount, viable)
            /\ bumped > amount /\ Worthwhile(bumped, viable) ->
              IF Allowed(bumped, cash)
              THEN {[asks |-> NeedsApproval(amount, bumped),
                     order |-> [buy EXCEPT !.amount = bumped]]}
              ELSE {[asks |-> asks, order |-> [buy EXCEPT !.amount = amount, !.blocked = TRUE]]}
         [] OTHER -> {}

-----------------------------------------------------------------------------
(* Pipelines *)

OpenPositions == {p \in Pair : pos[p] # 0}

Bought == {p \in Pair : stage[p] = "verifying" /\ order[p].side = "buy"}

GoesTo(p, s) == stage' = [stage EXCEPT ![p] = s]

\* Out of run_pipeline with nothing left behind
Ends(p) ==
    /\ GoesTo(p, "idle")
    /\ seen' = [seen EXCEPT ![p] = 0]
    /\ order' = [order EXCEPT ![p] = NoOrder]

Start(p) ==
    /\ stage[p] = "idle"
    /\ GoesTo(p, "fetching")
    /\ UNCHANGED <<seen, order, ledger, account, crowded>>

\* maybe_refresh_holdings: coins of pairs the ledger does not know are added.
Refresh(p) ==
    LET found == {q \in Pair \ tracked : coins[q] > 0} IN
    /\ stage[p] = "fetching"
    /\ liveCash' = money
    /\ pos' = [q \in Pair |-> IF q \in found THEN coins[q] ELSE pos[q]]
    /\ tracked' = tracked \cup found
    /\ UNCHANGED <<stage, seen, order, spent, account, crowded>>

Snapshot(p) ==
    /\ stage[p] = "fetching"
    /\ GoesTo(p, "asking")
    /\ seen' = [seen EXCEPT ![p] = liveCash]
    /\ UNCHANGED <<order, ledger, account, crowded>>

\* No candles or price, a failed analysis, hold, a rejection by one of the
\* rules that are not modelled, a drop by the fee gate, or the deadline
GiveUp(p) ==
    /\ stage[p] \in {"fetching", "asking"}
    /\ Ends(p)
    /\ UNCHANGED <<ledger, account, crowded>>

\* Variant: the limit itself may be exceeded by one.
FreeSlotAndOne == Cardinality(OpenPositions) <= MaxOpen

FreeSlot == Cardinality(OpenPositions) < MaxOpen

\* The market order of a buy is filled or refused at once; the pipeline then
\* awaits what became of it.
PlaceBuy(p, o) ==
    IF o.amount <= money
    THEN /\ placed < MaxOrders /\ placed' = placed + 1
         /\ GoesTo(p, "verifying")
         /\ order' = [order EXCEPT ![p] = o]
         /\ money' = money - o.amount
         /\ coins' = [coins EXCEPT ![p] = @ + o.amount]
         /\ crowded' = IF pos[p] = 0 /\ (Bought # {} \/ o.approved)
                       THEN crowded \cup {p} ELSE crowded
         /\ UNCHANGED seen
    ELSE Ends(p) /\ UNCHANGED <<account, crowded>>

\* The executor scales what has been checked.
Scaled(o, mult) == [o EXCEPT !.amount = Pct(mult, @)]

\* From the proposal of a buy to its order, or to the owner
Buy(p, amount, maxPosition, viable, mult) ==
    LET cash == seen[p]
        clamped == Clamped(amount, cash)
    IN /\ stage[p] = "asking"
       /\ FreeSlot
       /\ Allowed(clamped, cash)
       /\ \E way \in Gated(Sized(clamped, maxPosition), Asks(clamped), viable, cash) :
             IF way.asks
             THEN /\ GoesTo(p, "queued")
                  /\ order' = [order EXCEPT ![p] = way.order]
                  /\ UNCHANGED <<seen, account, crowded>>
             ELSE PlaceBuy(p, Scaled(way.order, mult))
       /\ UNCHANGED ledger

\* A sell is cut to what the ledger holds, then scaled; the exchange refuses
\* to sell more than there is.
Sell(p, share, mult) ==
    LET n == Pct(mult, Pct(share, pos[p])) IN
    /\ stage[p] = "asking"
    /\ pos[p] > 0
    /\ IF n <= coins[p]
       THEN /\ placed < MaxOrders /\ placed' = placed + 1
            /\ GoesTo(p, "verifying")
            /\ order' = [order EXCEPT ![p] = [NoOrder EXCEPT !.side = "sell", !.amount = n]]
            /\ money' = money + n
            /\ coins' = [coins EXCEPT ![p] = @ - n]
            /\ UNCHANGED seen
       ELSE Ends(p) /\ UNCHANGED account
    /\ UNCHANGED <<ledger, crowded>>

\* add_trade, forced if need be, and record_trade
Record(p) ==
    LET o == order[p]
        held == IF o.side = "buy" THEN pos[p] + o.amount ELSE pos[p] - o.amount
    IN /\ stage[p] = "verifying"
       /\ Ends(p)
       /\ pos' = [pos EXCEPT ![p] = held]
       /\ tracked' = tracked \cup {p}
       /\ spent' = IF o.side = "buy" THEN spent + o.amount ELSE spent
       /\ crowded' = IF held = 0 THEN crowded \ {p} ELSE crowded
       /\ UNCHANGED <<liveCash, account>>

\* The batch's deadline cancels a pipeline behind its order.
Deadline(p) ==
    /\ stage[p] = "verifying" /\ ~order[p].approved
    /\ Ends(p)
    /\ crowded' = IF order[p].side = "buy" /\ pos[p] = 0 THEN crowded \cup {p} ELSE crowded
    /\ UNCHANGED <<ledger, account>>

\* The owner approves: the amount is ordered as it was queued.
Approve(p) ==
    /\ stage[p] = "queued"
    /\ PlaceBuy(p, [order[p] EXCEPT !.approved = TRUE])
    /\ UNCHANGED ledger

Reject(p) ==
    /\ stage[p] = "queued"
    /\ Ends(p)
    /\ UNCHANGED <<ledger, account, crowded>>

Midnight ==
    /\ spent > 0
    /\ spent' = 0
    /\ UNCHANGED <<stage, seen, order, pos, tracked, liveCash, account, crowded>>

Next ==
    \/ \E p \in Pair :
          \/ Start(p) \/ Refresh(p) \/ Snapshot(p) \/ GiveUp(p)
          \/ \E a \in Amount, s \in MaxPosition, v \in Viable, m \in CaMult : Buy(p, a, s, v, m)
          \/ \E h \in Share, m \in CaMult : Sell(p, h, m)
          \/ Record(p) \/ Deadline(p) \/ Approve(p) \/ Reject(p)
    \/ Midnight

Spec == Init /\ [][Next]_vars

-----------------------------------------------------------------------------
(* Properties *)

TypeOK ==
    /\ stage \in [Pair -> Stage]
    /\ seen \in [Pair -> Nat]
    /\ order \in [Pair -> Order]
    /\ pos \in [Pair -> Int] /\ tracked \subseteq Pair
    /\ liveCash \in Nat /\ spent \in Nat
    /\ money \in Nat /\ coins \in [Pair -> Nat] /\ placed \in 0..MaxOrders
    /\ crowded \subseteq Pair

Largest == 130   \* the executor's multiplier at most, in percent
Smallest == 70   \* and at least

\* max_open_positions holds, whatever the pipelines overlap, but for positions
\* that were opened by an order that was sent while another was being verified,
\* by one the owner approved, or by one whose pipeline the deadline cut off.
MaxOpenHolds == Cardinality(OpenPositions \ crowded) <= MaxOpen

\* Through clamping, sizing and the fee gate's bump, no buy is larger than the
\* rules allow for the cash its pipeline has read, and none is above the
\* approval threshold unless the owner approved it; but the executor may add
\* its multiplier to either limit.
LimitsButForMultiplier ==
    \A p \in Bought :
       /\ order[p].amount <= Pct(Largest, RuleCap(seen[p]))
       /\ order[p].amount <= Pct(Largest, ApprovalAbove) \/ order[p].approved

\* A buy is worth its fees, but for what the executor's multiplier takes from
\* it, unless the rules have refused to raise it to such an amount.
OrdersBeatFees ==
    \A p \in Bought :
       order[p].amount >= Pct(Smallest, order[p].viable) \/ order[p].blocked

\* The coins that were bought never exceed max_total_exposure_pct of the
\* portfolio, as long as no two buys overlapped.
ExposureWithinCap ==
    crowded = {} => MapThenSumSet(LAMBDA p : coins[p], Pair) <= Pct(ExposurePct, InitialCash)
=============================================================================
