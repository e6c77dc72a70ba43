---------------------------- MODULE AbsoluteRules ----------------------------
(***************************************************************************)
(* The daily limits of core/rules.py (AbsoluteRules) and the callers that  *)
(* are held to them.  check_trade and record_trade each run under the      *)
(* engine's lock, but a buy is checked by the risk manager and recorded by *)
(* the executor, and in between its pipeline awaits, its order rests at    *)
(* the exchange, or it waits for the owner's approval.  A caller is one    *)
(* such buy on its way from the check to its last record.                  *)
(*                                                                         *)
(* Meanwhile the owner moves the limits, one attribute at a time, from     *)
(* the chat or with a preset; the preset that disables trading sets them   *)
(* to 0.  What settings.yaml holds matters at the next start only.         *)
(*                                                                         *)
(* Sells and exits pass every check and only add to the trade count.       *)
(* Rules that compare one order with the state of the moment (position     *)
(* share, stop-loss, blacklist, cash share) are the choice of `amount`.    *)
(***************************************************************************)
EXTENDS Integers, FiniteSets

CONSTANTS
    Caller,        \* bound: the buys that may be under way at once
    Seed,          \* the spend seed_daily_counters may find at a start
    Amount,        \* the quote amounts the risk manager proposes
    Portfolio,     \* bound: the values the portfolio can have
    Loss,          \* bound: the losses a closed trade can have
    Single,        \* bound: the values max_single_trade is given
    Daily,         \* bound: the values max_daily_spend is given
    MaxLoss,       \* max_daily_loss
    MaxCount,      \* max_trades_per_day
    MaxGrown,      \* the largest quote_amount after the executor's sizing
    HaltPct,       \* portfolio_drawdown_halt_pct, in percent
    CaMult,        \* bound: the executor's cross-asset multipliers, in percent
    ApprovalAbove  \* require_approval_above

ASSUME RulesAssumption ==
    /\ IsFiniteSet(Caller)
    /\ Amount \subseteq Nat \ {0}
    /\ Portfolio \subseteq Nat \ {0} /\ Portfolio # {}
    /\ Loss \subseteq Nat
    /\ Single \subseteq Nat /\ Single # {} /\ Daily \subseteq Nat /\ Daily # {}
    /\ MaxLoss \in Nat /\ MaxCount \in Nat
    /\ HaltPct \in Nat /\ ApprovalAbove \in Nat
    /\ CaMult \subseteq 70..130
    /\ Seed \subseteq Nat
    /\ MaxGrown \in Nat /\ \A s \in Single : 10 * MaxGrown >= 13 * s

VARIABLES
    dailySpend,     \* _daily_spend
    dailyLoss,      \* _daily_loss
    dailyCount,     \* _daily_trade_count
    stale,          \* _last_reset_date is before today
    coolingDown,    \* less than min_trade_interval_seconds since a record
    seedingFailed,  \* _seeding_failed
    peak,           \* _portfolio_peak
    portfolio,      \* the portfolio value the callers pass in
    stage,          \* how far each caller is
    quoted,         \* the quote amount each caller carries
    maxSingle,      \* max_single_trade
    maxDaily,       \* max_daily_spend
    base            \* for the properties: the day's spend when max_daily_spend
                    \* was last set

counters == <<dailySpend, dailyLoss, dailyCount, stale, coolingDown, base>>
limits == <<maxSingle, maxDaily>>
engine == <<counters, limits, seedingFailed, peak>>
vars == <<engine, portfolio, stage, quoted>>

Stage == {"idle",        \* nothing under way
          "approved",    \* passed check_trade, on its way to the executor
          "queued",      \* passed check_trade, waits for the owner
          "released",    \* the owner approved it, on its way to the executor
          "resting",     \* its limit order rests, not recorded yet
          "unconfirmed"} \* recorded as placed, will be recorded again as filled

\* A start: the counters as seed_daily_counters finds them in the database.
Init ==
    /\ dailySpend \in Seed \cup {0}
    /\ dailyLoss \in Loss \cup {0}
    /\ dailyCount \in 0..MaxCount    \* a larger count acts like the limit
    /\ stale = FALSE
    /\ coolingDown = FALSE
    /\ seedingFailed \in BOOLEAN
    /\ seedingFailed => dailySpend = 0 /\ dailyLoss = 0 /\ dailyCount = 0
    /\ peak = 0
    /\ portfolio \in Portfolio
    /\ stage = [c \in Caller |-> "idle"]
    /\ quoted = [c \in Caller |-> 0]
    /\ maxSingle \in Single /\ maxDaily \in Daily
    /\ base = dailySpend

-----------------------------------------------------------------------------
(* The engine *)

\* _reset_daily_if_needed: the counter as the next operation sees it
Today(counter) == IF stale THEN 0 ELSE counter

\* The peak is moved before anything else is looked at.
RaisedPeak == IF portfolio > peak THEN portfolio ELSE peak

Drawdown == (RaisedPeak - portfolio) * 100 >= HaltPct * RaisedPeak

\* Variant: the amount is held against the limit without what was spent.
WithinDailySpendAlone(amount) == amount <= maxDaily

\* The daily and portfolio-wide rules of _check_trade_impl for a buy
WithinDailySpend(amount) == Today(dailySpend) + amount <= maxDaily

Allowed(amount) ==
    /\ ~seedingFailed
    /\ ~(HaltPct > 0 /\ Drawdown)
    /\ amount <= maxSingle
    /\ WithinDailySpend(amount)
    /\ Today(dailyLoss) < MaxLoss
    /\ Today(dailyCount) < MaxCount
    /\ ~coolingDown

\* A failed seeding answers before the counters are reset.
ResetCounters ==
    IF seedingFailed THEN UNCHANGED counters
    ELSE /\ dailySpend' = Today(dailySpend)
         /\ dailyLoss' = Today(dailyLoss)
         /\ dailyCount' = Today(dailyCount)
         /\ base' = Today(base)
         /\ stale' = FALSE
         /\ UNCHANGED coolingDown

\* record_trade
RecordTrade(amount, action) ==
    /\ dailySpend' = Today(dailySpend) + (IF action = "buy" THEN amount ELSE 0)
    /\ dailyLoss' = Today(dailyLoss)
    /\ dailyCount' = Today(dailyCount) + 1
    /\ base' = Today(base)
    /\ stale' = FALSE
    /\ coolingDown' = TRUE

\* One attribute is set, in a lock section of its own: a preset is seen half
\* applied by the checks in between.
SetRule(single, daily) ==
    /\ maxSingle' = single /\ maxDaily' = daily
    /\ base' = IF daily = maxDaily THEN base ELSE dailySpend
    /\ UNCHANGED <<dailySpend, dailyLoss, dailyCount, stale, coolingDown, seedingFailed,
                   peak, portfolio, stage, quoted>>

\* update_param accepts what lies within _RULE_BOUNDS, from 1 on.
UpdateParam ==
    \/ \E v \in Single \ {0} : SetRule(v, maxDaily)
    \/ \E v \in Daily \ {0} : SetRule(maxSingle, v)

\* A preset or a setting that was saved may also disable.
PushToRuntime ==
    \/ \E v \in Single : SetRule(v, maxDaily)
    \/ \E v \in Daily : SetRule(maxSingle, v)

-----------------------------------------------------------------------------
(* Callers *)

Moves(c, from, to, amount) ==
    /\ stage[c] = from
    /\ stage' = [stage EXCEPT ![c] = to]
    /\ quoted' = [quoted EXCEPT ![c] = amount]

\* RiskManagerAgent: check_trade, then execution or the approval queue
CheckBuy(c, amount) ==
    /\ Allowed(amount)
    /\ Moves(c, "idle", IF amount > ApprovalAbove THEN "queued" ELSE "approved", amount)
    /\ ResetCounters
    /\ peak' = RaisedPeak
    /\ UNCHANGED <<limits, seedingFailed, portfolio>>

\* A rejected buy leaves its mark on the engine all the same.
RejectBuy(amount) ==
    /\ ~Allowed(amount)
    /\ ResetCounters
    /\ peak' = RaisedPeak
    /\ UNCHANGED <<limits, seedingFailed, portfolio, stage, quoted>>

\* /approve hands the stored proposal to the executor and checks nothing.
Approve(c) ==
    /\ Moves(c, "queued", "released", quoted[c])
    /\ UNCHANGED <<engine, portfolio>>

\* The executor gives up, the order fails, the owner rejects, the approval
\* expires, or a resting order ends unfilled.
Drop(c) ==
    /\ stage[c] # "idle"
    /\ Moves(c, stage[c], "idle", 0)
    /\ UNCHANGED <<engine, portfolio>>

\* The amount the executor works with.  A buy from a pipeline is scaled by
\* the cross-asset multiplier, an approved proposal carries no signal.
Grown(c) ==
    {a \in 0..MaxGrown :
        \/ stage[c] = "approved" /\ \E m \in CaMult : 100 * a = m * quoted[c]
        \/ stage[c] = "released" /\ a = quoted[c]}

\* ExecutorAgent.run takes the buy of c over.
Executes(c, amount, to) ==
    /\ amount \in Grown(c)
    /\ Moves(c, stage[c], to, amount)

\* A market buy is filled at once and recorded.
FillNow(c, amount) ==
    /\ Executes(c, amount, "idle")
    /\ RecordTrade(amount, "buy")
    /\ UNCHANGED <<limits, seedingFailed, peak, portfolio>>

\* A limit buy rests; nothing is recorded.
Rest(c, amount) ==
    /\ Executes(c, amount, "resting")
    /\ UNCHANGED <<engine, portfolio>>

\* The fill of a market buy cannot be verified: it is recorded and PENDING.
RecordUnconfirmed(c, amount) ==
    /\ Executes(c, amount, "unconfirmed")
    /\ RecordTrade(amount, "buy")
    /\ UNCHANGED <<limits, seedingFailed, peak, portfolio>>

\* check_pending_orders finds the order of a PENDING trade filled.
RecordPending(c) ==
    /\ \E from \in {"resting", "unconfirmed"} : Moves(c, from, "idle", 0)
    /\ RecordTrade(quoted[c], "buy")
    /\ UNCHANGED <<limits, seedingFailed, peak, portfolio>>

\* An exit: the trade counts, a loss is added.  After a trailing stop the
\* executor and the orchestrator each add it.
RecordExit(loss, byTrailingStop) ==
    /\ dailyCount' = Today(dailyCount) + 1
    /\ dailySpend' = Today(dailySpend)
    /\ dailyLoss' = Today(dailyLoss) + (IF byTrailingStop THEN 2 * loss ELSE loss)
    /\ base' = Today(base)
    /\ stale' = FALSE
    /\ coolingDown' = TRUE
    /\ UNCHANGED <<limits, seedingFailed, peak, portfolio, stage, quoted>>

Midnight ==
    /\ stale' = TRUE
    /\ UNCHANGED <<dailySpend, dailyLoss, dailyCount, coolingDown, base, limits,
                   seedingFailed, peak, portfolio, stage, quoted>>

CooledDown ==
    /\ coolingDown' = FALSE
    /\ UNCHANGED <<dailySpend, dailyLoss, dailyCount, stale, base, limits,
                   seedingFailed, peak, portfolio, stage, quoted>>

MarketMoves(value) ==
    /\ portfolio' = value
    /\ UNCHANGED <<engine, stage, quoted>>

Next ==
    \/ \E c \in Caller :
          \/ \E amount \in Amount : CheckBuy(c, amount)
          \/ Approve(c)
          \/ Drop(c)
          \/ \E amount \in 0..MaxGrown : \/ FillNow(c, amount)
                                         \/ Rest(c, amount)
                                         \/ RecordUnconfirmed(c, amount)
          \/ RecordPending(c)
    \/ \E amount \in Amount : RejectBuy(amount)
    \/ \E loss \in Loss, byTrailingStop \in BOOLEAN : RecordExit(loss, byTrailingStop)
    \/ UpdateParam
    \/ PushToRuntime
    \/ Midnight
    \/ CooledDown
    \/ \E value \in Portfolio : MarketMoves(value)

Spec == Init /\ [][Next]_vars

-----------------------------------------------------------------------------
(* Properties *)

TypeOK ==
    /\ dailySpend \in Nat /\ dailyLoss \in Nat /\ dailyCount \in Nat
    /\ stale \in BOOLEAN /\ coolingDown \in BOOLEAN /\ seedingFailed \in BOOLEAN
    /\ peak \in Portfolio \cup {0}
    /\ portfolio \in Portfolio
    /\ stage \in [Caller -> Stage]
    /\ quoted \in [Caller -> Nat]
    /\ maxSingle \in Single /\ maxDaily \in Daily /\ base \in Nat

\* Buys that may still be recorded twice, and once.
Early == {c \in Caller : stage[c] \in {"approved", "queued", "released"}}
Late == {c \in Caller : stage[c] \in {"resting", "unconfirmed"}}

\* What the buys under way may still add to the daily spend
Outstanding == MaxGrown * (2 * Cardinality(Early) + Cardinality(Late))

\* What the day may spend: the limit, or what had been spent already when the
\* limit was set.
Allowance(spent) == IF spent > maxDaily THEN spent ELSE maxDaily

\* How far the daily spend can pass max_daily_spend although every buy was
\* checked: by two records of the largest order per buy under way, because a
\* buy is checked before it is sized and long before it is recorded, and an
\* unconfirmed one is recorded twice.  A lowered limit and the preset that
\* disables trading stop the spend from there on, but for the same records.
\* What is still outstanding is part of the bound, so a day that is over the
\* limit admits nothing more.
SpendOvershootBounded ==
    dailySpend + Outstanding <= Allowance(base) + MaxGrown * 2 * Cardinality(Caller)
=============================================================================
