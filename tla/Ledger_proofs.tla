--------------------------- MODULE Ledger_proofs ---------------------------
(***************************************************************************)
(* The two modules that drive the ledger against a venue, for any number   *)
(* of trades and any prices, fees, quantities and fills.                   *)
(*                                                                         *)
(* OrderExecution is well typed, follows the lifecycle of its trades and   *)
(* keeps exact books.  The books are sums over the trades; a step moves    *)
(* one trade, so every sum moves by one term, and what the step does to    *)
(* positions, cash and pnl is compared with that term.                     *)
(*                                                                         *)
(* IbkrVenue is well typed, its ledger agrees with the account up to what  *)
(* is outstanding, and a closed trade was sold.  The same sums serve; what *)
(* links a term to its order is that a pending trade knows its order, and  *)
(* that an open order has a pending trade as long as nothing went wrong.   *)
(***************************************************************************)
EXTENDS OrderExecution, IbkrVenue, FiniteSetTheorems, WellFoundedInduction, TLAPS

\* A booked trade has an order, and the trades being verified or polled are
\* where their pipelines left them.
Linked ==
    /\ \A t \in Trade : orders[t].st = "none" => trades[t].status = "none"
    /\ \A t \in verifying : trades[t].status = "none" /\ orders[t].st # "none"
    /\ polling # 0 => trades[polling].status = "pending"

IInv == ExecutionTypeOK /\ Linked

-----------------------------------------------------------------------------
(* The records the ledger is built from *)

\* Python's `or` on two numbers is a number.
LEMMA OrInt == ASSUME NEW x \in Int, NEW y \in Int PROVE Or(x, y) \in Int
BY DEF Or

\* A fresh Trade is a trade record.
LEMMA NewTradeTyped ==
    ASSUME NEW s \in Status, NEW a \in Action, NEW p \in Pair,
           NEW q \in Int, NEW x \in Int
    PROVE  NewTrade(s, a, p, q, x) \in TradeRecord
BY DEF NewTrade, TradeRecord, Unset

\* The numbers read off a trade record are integers.
LEMMA TradeNumbers ==
    ASSUME NEW tr \in TradeRecord
    PROVE  /\ Held(tr) \in Int /\ Booked(tr) \in Int /\ Entry(tr) \in Int
           /\ Value(tr) \in Int /\ Sign(tr) \in Int
           /\ tr.pair \in Pair /\ tr.qty \in Int /\ tr.price \in Int
           /\ tr.fqty \in Int /\ tr.fees \in Int
<1>1. /\ tr.pair \in Pair /\ tr.qty \in Int /\ tr.price \in Int
      /\ tr.fqty \in Int /\ tr.fprice \in Int /\ tr.fees \in Int
  BY DEF TradeRecord
<1>2. Held(tr) \in Int /\ Entry(tr) \in Int
  BY <1>1, OrInt DEF Held, Entry
<1>3. Booked(tr) \in Int /\ Sign(tr) \in Int
  BY <1>1 DEF Booked, Sign
<1> QED
  BY <1>1, <1>2, <1>3 DEF Value

\* Trade.close returns a closed trade record and keeps the rest.
LEMMA ClosedTyped ==
    ASSUME NEW tr \in TradeRecord, NEW x \in Int, NEW fee \in Int
    PROVE  Closed(tr, x, fee) \in TradeRecord /\ Closed(tr, x, fee).status = "closed"
<1>1. Held(tr) \in Int /\ Entry(tr) \in Int /\ Sign(tr) \in Int /\ tr.fees \in Int
  BY TradeNumbers
<1>2. Sign(tr) * (x - Entry(tr)) * Held(tr) - tr.fees - fee \in Int
  BY <1>1
<1>3. tr.fees + fee \in Int
  BY <1>1
<1> QED
  BY <1>2, <1>3 DEF Closed, TradeRecord, Status, Terminal

\* Clipping at zero keeps a number a number.
LEMMA PosPartInt == ASSUME NEW x \in Int PROVE PosPart(x) \in Int
BY DEF PosPart

-----------------------------------------------------------------------------
(* The operations of the ledger *)

\* add_trade keeps the ledger typed.
LEMMA AddTradeTyped ==
    ASSUME LedgerTypeOK, NEW t \in Trade, NEW tr \in TradeRecord, AddTrade(t, tr)
    PROVE  LedgerTypeOK' /\ trades' = [trades EXCEPT ![t] = tr]
<1>1. Value(tr) \in Int /\ Sign(tr) \in Int /\ tr.pair \in Pair /\ tr.qty \in Int
  BY TradeNumbers
<1>2. Sign(tr) * tr.qty \in Int /\ Sign(tr) * Value(tr) \in Int
  BY <1>1
<1> QED
  BY <1>1, <1>2 DEF LedgerTypeOK, AddTrade

\* close_trade keeps the ledger typed and touches one open trade.
LEMMA CloseTradeTyped ==
    ASSUME LedgerTypeOK, NEW t \in Trade, NEW x \in Int, NEW fee \in Int,
           IsOpen(trades[t]), CloseTrade(t, x, fee)
    PROVE  LedgerTypeOK' /\ trades' = [trades EXCEPT ![t] = Closed(trades[t], x, fee)]
<1> DEFINE tr == trades[t]
<1>1. tr \in TradeRecord
  BY DEF LedgerTypeOK
<1>2. Closed(tr, x, fee) \in TradeRecord
  BY <1>1, ClosedTyped
<1>3. Held(tr) \in Int /\ tr.pair \in Pair
  BY <1>1, TradeNumbers
<1>4. /\ trades' = [trades EXCEPT ![t] = Closed(tr, x, fee)]
      /\ tracked' = tracked \cup {tr.pair}
      /\ \/ /\ positions' = [positions EXCEPT ![tr.pair] = PosPart(@ - Held(tr))]
            /\ cash' = cash + x * Held(tr) - fee
         \/ /\ positions' = [positions EXCEPT ![tr.pair] = @ + Held(tr)]
            /\ cash' = cash - (x * Held(tr) + fee)
  BY DEF CloseTrade, Closable
<1>5. x * Held(tr) \in Int
  BY <1>3
<1>6. cash' \in Int
  BY <1>4, <1>5 DEF LedgerTypeOK
<1>7. positions' \in [Pair -> Int]
  BY <1>3, <1>4 DEF LedgerTypeOK, PosPart
<1>8. tracked' \subseteq Pair
  BY <1>3, <1>4 DEF LedgerTypeOK
<1>9. trades' \in [Trade -> TradeRecord]
  BY <1>2, <1>4 DEF LedgerTypeOK
<1> QED
  BY <1>4, <1>6, <1>7, <1>8, <1>9 DEF LedgerTypeOK

\* update_partial_fill keeps the ledger typed.
LEMMA UpdatePartialFillTyped ==
    ASSUME LedgerTypeOK, NEW t \in Trade, NEW left \in Int, NEW sold \in Int,
           NEW proceeds \in Int, UpdatePartialFill(t, left, sold, proceeds)
    PROVE  LedgerTypeOK' /\ trades' = [trades EXCEPT ![t].fqty = left]
<1>1. trades[t] \in TradeRecord /\ trades[t].pair \in Pair
  BY TradeNumbers DEF LedgerTypeOK
<1>2. trades' = [trades EXCEPT ![t].fqty = left]
  BY DEF UpdatePartialFill
<1>3. [trades[t] EXCEPT !.fqty = left] \in TradeRecord
  BY <1>1 DEF TradeRecord
<1>4. trades' \in [Trade -> TradeRecord]
  BY <1>2, <1>3 DEF LedgerTypeOK
<1>5. positions' \in [Pair -> Int] /\ tracked' \subseteq Pair
  BY <1>1 DEF LedgerTypeOK, UpdatePartialFill, PosPart
<1>6. cash' \in Int
  BY DEF LedgerTypeOK, UpdatePartialFill, PosPart
<1> QED
  BY <1>2, <1>4, <1>5, <1>6 DEF LedgerTypeOK

Refilled(tr, st, price, qty, fee) ==
    [tr EXCEPT !.status = st, !.fprice = price, !.fqty = qty, !.fees = fee]

\* update_trade_fill keeps the ledger typed.
LEMMA UpdateTradeFillTyped ==
    ASSUME LedgerTypeOK, NEW t \in Trade, NEW price \in Int, NEW qty \in Int,
           NEW fee \in Int, NEW st \in Status, UpdateTradeFill(t, price, qty, fee, st)
    PROVE  /\ LedgerTypeOK'
           /\ trades' = [trades EXCEPT ![t] = Refilled(trades[t], st, price, qty, fee)]
           /\ Refilled(trades[t], st, price, qty, fee).status = st
<1> DEFINE tr == trades[t]
           new == Refilled(tr, st, price, qty, fee)
<1>1. /\ tr \in TradeRecord /\ tr.pair \in Pair
      /\ Entry(tr) \in Int /\ Booked(tr) \in Int /\ Sign(tr) \in Int
  BY TradeNumbers DEF LedgerTypeOK
<1>2. new \in TradeRecord /\ new.status = st
  BY <1>1 DEF TradeRecord, Refilled
<1>3. trades' = [trades EXCEPT ![t] = new]
  BY DEF UpdateTradeFill, LedgerTypeOK, Refilled
<1>4. trades' \in [Trade -> TradeRecord]
  BY <1>2, <1>3 DEF LedgerTypeOK
<1>5. positions' \in [Pair -> Int] /\ tracked' \subseteq Pair
  BY <1>1 DEF LedgerTypeOK, UpdateTradeFill, PosPart
<1>6. cash' \in Int
  <2>1. price * qty \in Int /\ Entry(tr) * Booked(tr) \in Int
    BY <1>1
  <2>2. price * qty - Entry(tr) * Booked(tr) + fee \in Int
    BY <2>1
  <2>3. Sign(tr) * (price * qty - Entry(tr) * Booked(tr) + fee) \in Int
    BY <1>1, <2>2
  <2> QED
    BY <2>3 DEF LedgerTypeOK, UpdateTradeFill
<1> QED
  BY <1>2, <1>3, <1>4, <1>5, <1>6 DEF LedgerTypeOK

\* reverse_trade_booking keeps positions and cash typed.
LEMMA ReverseTyped ==
    ASSUME LedgerTypeOK, NEW tr \in TradeRecord, ReverseTradeBooking(tr)
    PROVE  positions' \in [Pair -> Int] /\ tracked' \subseteq Pair /\ cash' \in Int
<1>1. /\ tr.pair \in Pair /\ tr.qty \in Int /\ tr.fqty \in Int
      /\ Entry(tr) \in Int /\ Value(tr) \in Int /\ Sign(tr) \in Int
  BY TradeNumbers
<1> DEFINE unfilled == PosPart(tr.qty - PosPart(tr.fqty))
           refund == IF unfilled > 0 THEN unfilled * Entry(tr) ELSE Value(tr)
<1>2. unfilled \in Int
  BY <1>1 DEF PosPart
<1>3. refund \in Int
  BY <1>1, <1>2
<1>4. positions' \in [Pair -> Int] /\ tracked' \subseteq Pair
  BY <1>1, <1>2 DEF LedgerTypeOK, ReverseTradeBooking, PosPart
<1>5. Sign(tr) * refund \in Int
  BY <1>1, <1>3
<1> QED
  BY <1>4, <1>5 DEF LedgerTypeOK, ReverseTradeBooking

\* reconcile_position keeps positions and cash typed.
LEMMA ReconcileTyped ==
    ASSUME LedgerTypeOK, NEW p \in Pair, NEW actual \in Int, NEW x \in Int,
           ReconcilePosition(p, actual, x)
    PROVE  positions' \in [Pair -> Int] /\ tracked' \subseteq Pair /\ cash' \in Int
<1>1. positions[p] \in Int
  BY DEF LedgerTypeOK
<1>2. (actual - positions[p]) * x \in Int
  BY <1>1
<1> QED
  BY <1>2 DEF LedgerTypeOK, ReconcilePosition

-----------------------------------------------------------------------------
(* What a step may do to the trades *)

Others(S) == \A u \in Trade \ S : trades'[u] = trades[u]

Opens ==
    \E t \in Trade : /\ trades[t].status = "none"
                     /\ trades'[t].status \in {"pending", "filled"}
                     /\ Others({t})

Settles ==
    \E t \in Trade : /\ trades[t].status = "pending"
                     /\ trades'[t].status \in {"filled", "cancelled", "failed"}
                     /\ Others({t})

Closes ==
    \E S \in SUBSET OpenTrades : /\ \A t \in S : trades'[t].status = "closed"
                                 /\ Others(S)

Rewrites ==
    \E S \in SUBSET OpenTrades : /\ \A t \in S : trades'[t].status = trades[t].status
                                 /\ Others(S)

Lawful == Opens \/ Settles \/ Closes \/ Rewrites

\* A step that leaves the trades alone is lawful.
LEMMA SameTrades == ASSUME trades' = trades PROVE Lawful
<1>1. {} \in SUBSET OpenTrades /\ Others({})
  BY DEF Others
<1>2. Rewrites
  BY <1>1 DEF Rewrites
<1> QED
  BY <1>2 DEF Lawful

\* The steps that leave ledger and links alone.
LEMMA Quiet ==
    ASSUME IInv, ExecutionTypeOK', trades' = trades,
           \A t \in Trade : orders'[t].st = "none" => orders[t].st = "none",
           verifying' \subseteq verifying, polling' \in {polling, 0}
    PROVE  IInv' /\ Lawful
<1>1. Linked'
  <2>1. \A t \in Trade : orders'[t].st = "none" => trades'[t].status = "none"
    BY DEF IInv, Linked
  <2>2. \A t \in verifying' : trades'[t].status = "none" /\ orders'[t].st # "none"
    BY DEF IInv, ExecutionTypeOK, Linked
  <2>3. polling' # 0 => trades'[polling'].status = "pending"
    BY DEF IInv, Linked
  <2> QED
    BY <2>1, <2>2, <2>3 DEF Linked
<1> QED
  BY <1>1, SameTrades DEF IInv

\* A listed cause keeps the set of causes typed.
LEMMA Diverges ==
    ASSUME diverged \subseteq Cause, NEW c \in Cause, NEW happened, Diverge(c, happened)
    PROVE  diverged' \subseteq Cause
BY DEF Diverge

-----------------------------------------------------------------------------
(* Pipelines *)

\* The units an approved amount buys are a number.
LEMMA SpendQty == ASSUME NEW x \in Price PROVE x \in Int /\ Spend \div x \in Int
BY ExecutionAssumption DEF ExecutionAssumption

\* A placed order is an order record.
LEMMA OrderTyped ==
    ASSUME NEW k \in {"limit", "market"}, NEW a \in Action, NEW p \in Pair,
           NEW x \in Int, NEW q \in Int
    PROVE  NewOrder("open", k, a, p, x, q) \in Order /\ NewOrder("open", k, a, p, x, q).st = "open"
BY DEF NewOrder, Order, OrderState

\* A limit order that is planned at another price is one, too.
LEMMA LimitOrderTyped ==
    ASSUME NEW p \in Pair, NEW m \in Price, NEW x \in Price
    PROVE  /\ NewLimitBuy(p, m, x) \in Order
           /\ NewLimitBuy(p, m, x).st = "open" /\ NewLimitBuy(p, m, x).filled = 0
           /\ NewLimitBuy(p, m, x).fee = 0 /\ NewLimitBuy(p, m, x).price = x
           /\ NewLimitBuy(p, m, x).qty = Spend \div x
           /\ NewLimitBuy(p, m, x).want = Spend \div m
<1> DEFINE o == NewOrder("open", "limit", "buy", p, x, Spend \div x)
<1>1. x \in Int /\ Spend \div x \in Int /\ m \in Int /\ Spend \div m \in Int
  BY SpendQty
<1>2. o \in Order /\ o.st = "open"
  BY <1>1, OrderTyped DEF Action
<1>3. o.filled = 0 /\ o.fee = 0 /\ o.price = x /\ o.qty = Spend \div x
  BY DEF NewOrder
<1> HIDE DEF o
<1>4. NewLimitBuy(p, m, x) = [o EXCEPT !.plan = m, !.want = Spend \div m]
  BY DEF NewLimitBuy, o
<1> QED
  BY <1>1, <1>2, <1>3, <1>4 DEF Order

\* A resting limit buy is recorded in a slot nobody used.
LEMMA LimitBuyKeeps ==
    ASSUME IInv, NEW t \in Trade, NEW p \in Pair, NEW x \in Price, PlaceLimitBuy(t, p, x)
    PROVE  IInv' /\ Lawful
<1> DEFINE qty == Spend \div x
           tr == NewTrade("pending", "buy", p, qty, x)
           o == NewOrder("open", "limit", "buy", p, x, qty)
<1>1. /\ orders[t].st = "none" /\ polling = 0
      /\ orders' = [orders EXCEPT ![t] = o]
      /\ \/ AddTrade(t, tr) /\ stops' \in {stops, stops \cup {p}}
         \/ UNCHANGED <<ledgerVars, stops>>
      /\ Diverge("untracked", ~CanAdd(tr))
      /\ UNCHANGED <<base, quote, verifying, polling, liveCash, monitoring, tierPnl, unbookedFees>>
  BY DEF PlaceLimitBuy, Fresh, AddStop
<1>2. x \in Int /\ qty \in Int
  BY SpendQty
<1>3. o \in Order /\ o.st = "open"
  BY <1>2, OrderTyped DEF Action
<1>4. tr \in TradeRecord /\ tr.status = "pending"
  BY <1>2, NewTradeTyped DEF Status, Action, NewTrade
<1>5. orders' \in [Trade -> Order]
  BY <1>1, <1>3 DEF IInv, ExecutionTypeOK
<1>6. diverged' \subseteq Cause
  BY <1>1, Diverges DEF IInv, ExecutionTypeOK, Cause
<1>7. CASE AddTrade(t, tr) /\ stops' \in {stops, stops \cup {p}}
  <2>1. LedgerTypeOK' /\ trades' = [trades EXCEPT ![t] = tr]
    BY <1>4, <1>7, AddTradeTyped DEF IInv, ExecutionTypeOK
  <2>2. ExecutionTypeOK'
    BY <1>1, <1>5, <1>6, <1>7, <2>1 DEF IInv, ExecutionTypeOK
  <2>3. trades[t].status = "none" /\ t \notin verifying
    BY <1>1 DEF IInv, Linked
  <2>4. trades'[t] = tr /\ Others({t})
    BY <2>1 DEF IInv, ExecutionTypeOK, LedgerTypeOK, Others
  <2>5. Lawful
    BY <1>4, <2>3, <2>4 DEF Lawful, Opens
  <2>6. Linked'
    BY <1>1, <1>3, <2>3, <2>4 DEF IInv, ExecutionTypeOK, Linked, Others
  <2> QED
    BY <2>2, <2>5, <2>6 DEF IInv
<1>8. CASE UNCHANGED <<ledgerVars, stops>>
  <2>1. trades' = trades /\ LedgerTypeOK'
    BY <1>8 DEF IInv, ExecutionTypeOK, LedgerTypeOK, ledgerVars
  <2>2. ExecutionTypeOK'
    BY <1>1, <1>5, <1>6, <1>8, <2>1 DEF IInv, ExecutionTypeOK
  <2>3. \A u \in Trade : orders'[u].st = "none" => orders[u].st = "none"
    BY <1>1, <1>3 DEF IInv, ExecutionTypeOK
  <2> QED
    BY <1>1, <2>1, <2>2, <2>3, Quiet
<1> QED
  BY <1>1, <1>7, <1>8

\* An order that awaits verification opens its slot, unrecorded.
LEMMA AwaitedKeeps ==
    ASSUME IInv, NEW t \in Trade, NEW o \in Order, o.st = "open", orders[t].st = "none",
           orders' = [orders EXCEPT ![t] = o], verifying' = verifying \cup {t},
           UNCHANGED <<ledgerVars, base, quote, polling, loopVars, ghostVars>>
    PROVE  IInv' /\ Lawful
<1>1. trades' = trades /\ LedgerTypeOK'
  BY DEF IInv, ExecutionTypeOK, LedgerTypeOK, ledgerVars
<1>2. ExecutionTypeOK'
  BY <1>1 DEF IInv, ExecutionTypeOK, loopVars, ghostVars
<1>3. Linked'
  <2>1. trades[t].status = "none" /\ orders'[t].st = "open"
    BY DEF IInv, ExecutionTypeOK, Linked
  <2>2. \A u \in Trade : orders'[u].st = "none" => orders[u].st = "none"
    BY DEF IInv, ExecutionTypeOK
  <2> QED
    BY <1>1, <2>1, <2>2 DEF IInv, ExecutionTypeOK, Linked
<1> QED
  BY <1>1, <1>2, <1>3, SameTrades DEF IInv

\* A market order does so,
LEMMA MarketKeeps ==
    ASSUME IInv, NEW t \in Trade, NEW p \in Pair, NEW a \in Action, NEW x \in Price,
           PlaceMarket(t, p, a, x)
    PROVE  IInv' /\ Lawful
<1> DEFINE qty == IF a = "buy" THEN Spend \div x ELSE positions[p]
           o == NewOrder("open", "market", a, p, x, qty)
<1>1. /\ orders[t].st = "none"
      /\ orders' = [orders EXCEPT ![t] = o]
      /\ verifying' = verifying \cup {t}
      /\ UNCHANGED <<ledgerVars, base, quote, polling, loopVars, ghostVars>>
  BY DEF PlaceMarket, Fresh
<1>2. x \in Int /\ qty \in Int
  BY SpendQty DEF IInv, ExecutionTypeOK, LedgerTypeOK
<1>3. o \in Order /\ o.st = "open"
  BY <1>2, OrderTyped
<1> HIDE DEF o
<1> QED
  BY <1>1, <1>3, AwaitedKeeps

\* ... and a limit buy that was answered with neither OPEN nor an end.
LEMMA LimitUnansweredKeeps ==
    ASSUME IInv, NEW t \in Trade, NEW p \in Pair, NEW m \in Price, NEW x \in Price,
           PlaceLimitUnanswered(t, p, m, x)
    PROVE  IInv' /\ Lawful
<1> DEFINE o == NewLimitBuy(p, m, x)
<1>1. /\ orders[t].st = "none"
      /\ orders' = [orders EXCEPT ![t] = o]
      /\ verifying' = verifying \cup {t}
      /\ UNCHANGED <<ledgerVars, base, quote, polling, loopVars, ghostVars>>
  BY DEF PlaceLimitUnanswered, Fresh
<1>2. o \in Order /\ o.st = "open"
  BY LimitOrderTyped
<1> HIDE DEF o
<1> QED
  BY <1>1, <1>2, AwaitedKeeps

\* The trade that run records after verification is a trade record.
LEMMA VerifiedTradeTyped ==
    ASSUME ExecutionTypeOK, NEW t \in Trade, NEW s \in Status, NEW x \in Int,
           NEW q \in Int, NEW fee \in Int
    PROVE  VerifiedTrade(t, s, x, q, fee) \in TradeRecord /\ VerifiedTrade(t, s, x, q, fee).status = s
<1>1. /\ orders[t].side \in Action /\ orders[t].pair \in Pair
      /\ orders[t].want \in Int /\ orders[t].plan \in Int
  BY DEF ExecutionTypeOK, Order
<1> DEFINE tr == NewTrade(s, orders[t].side, orders[t].pair, orders[t].want, orders[t].plan)
<1>2. tr \in TradeRecord /\ tr.status = s
  BY <1>1, NewTradeTyped DEF NewTrade
<1>3. VerifiedTrade(t, s, x, q, fee) = [tr EXCEPT !.fprice = x, !.fqty = q, !.fees = fee]
  BY DEF VerifiedTrade
<1> HIDE DEF tr
<1> QED
  BY <1>2, <1>3 DEF TradeRecord

\* Recording a verified order opens its trade and ends its verification.
LEMMA RecordKeeps ==
    ASSUME IInv, NEW t \in verifying, polling = 0, NEW tr \in TradeRecord,
           tr.status \in {"pending", "filled"}, Record(t, tr),
           diverged' \subseteq Cause, unbookedFees' \in Int
    PROVE  IInv' /\ Lawful
<1>1. t \in Trade /\ trades[t].status = "none" /\ orders[t].st # "none"
  BY DEF IInv, ExecutionTypeOK, Linked
<1>2. LedgerTypeOK' /\ trades' = [trades EXCEPT ![t] = tr]
  BY <1>1, AddTradeTyped DEF IInv, ExecutionTypeOK, Record
<1>3. /\ stops' \in {stops, stops \cup {tr.pair}}
      /\ verifying' = verifying \ {t}
      /\ UNCHANGED <<exchangeVars, polling, liveCash, monitoring, tierPnl>>
  BY DEF Record, AddStop
<1>4. stops' \subseteq Pair
  BY <1>3 DEF IInv, ExecutionTypeOK, TradeRecord
<1>5. ExecutionTypeOK'
  BY <1>2, <1>3, <1>4 DEF IInv, ExecutionTypeOK, exchangeVars
<1>6. trades'[t] = tr /\ Others({t})
  BY <1>1, <1>2 DEF IInv, ExecutionTypeOK, LedgerTypeOK, Others
<1>7. Linked'
  BY <1>1, <1>3, <1>6 DEF IInv, ExecutionTypeOK, Linked, Others, exchangeVars
<1> QED
  BY <1>1, <1>5, <1>6, <1>7 DEF IInv, Lawful, Opens

\* ... when _verify_fill saw the fill,
LEMMA RecordFilledKeeps ==
    ASSUME IInv, NEW t \in Trade, RecordFilled(t)
    PROVE  IInv' /\ Lawful
<1> DEFINE o == orders[t]
           tr == VerifiedTrade(t, "filled", o.price, o.filled, o.fee)
<1>1. o.price \in Int /\ o.filled \in Int /\ o.fee \in Int
  BY DEF IInv, ExecutionTypeOK, Order
<1>2. tr \in TradeRecord /\ tr.status = "filled"
  BY <1>1, VerifiedTradeTyped DEF IInv, Status
<1>3. /\ t \in verifying /\ polling = 0 /\ Record(t, tr)
      /\ unbookedFees' = unbookedFees + o.fee
      /\ Diverge("slipped", o.filled # o.want)
  BY DEF RecordFilled
<1>4. diverged' \subseteq Cause
  BY <1>3, Diverges DEF IInv, ExecutionTypeOK, Cause
<1>5. unbookedFees' \in Int
  BY <1>1, <1>3 DEF IInv, ExecutionTypeOK
<1> HIDE DEF tr
<1> QED
  BY <1>2, <1>3, <1>4, <1>5, RecordKeeps

\* ... and when it saw nothing final.
LEMMA RecordUnconfirmedKeeps ==
    ASSUME IInv, NEW t \in Trade, NEW s \in {"filled", "pending"}, RecordUnconfirmed(t, s)
    PROVE  IInv' /\ Lawful
<1> DEFINE tr == VerifiedTrade(t, s, orders[t].plan, orders[t].want, 0)
<1>1. orders[t].plan \in Int /\ orders[t].want \in Int
  BY DEF IInv, ExecutionTypeOK, Order
<1>2. tr \in TradeRecord /\ tr.status \in {"pending", "filled"}
  BY <1>1, VerifiedTradeTyped DEF IInv, Status
<1>3. /\ t \in verifying /\ polling = 0 /\ Record(t, tr)
      /\ Diverge("assumed", s = "filled")
      /\ unbookedFees' = unbookedFees
  BY DEF RecordUnconfirmed
<1>4. diverged' \subseteq Cause
  BY <1>3, Diverges DEF IInv, ExecutionTypeOK, Cause
<1>5. unbookedFees' \in Int
  BY <1>3 DEF IInv, ExecutionTypeOK
<1> HIDE DEF tr
<1> QED
  BY <1>2, <1>3, <1>4, <1>5, RecordKeeps

\* An order that ended under verification leaves no trade.
LEMMA RecordEndedKeeps ==
    ASSUME IInv, NEW t \in Trade, RecordEnded(t)
    PROVE  IInv' /\ Lawful
<1>1. diverged' \subseteq Cause
  BY Diverges DEF IInv, ExecutionTypeOK, RecordEnded, Cause
<1>2. ExecutionTypeOK'
  BY <1>1 DEF IInv, ExecutionTypeOK, LedgerTypeOK, RecordEnded, ledgerVars, exchangeVars, loopVars
<1>3. /\ trades' = trades /\ orders' = orders /\ polling' = polling
      /\ verifying' \subseteq verifying
  BY DEF RecordEnded, ledgerVars, exchangeVars
<1> QED
  BY <1>2, <1>3, Quiet

\* A cancelled pipeline leaves no trade.
LEMMA CycleTimeoutKeeps ==
    ASSUME IInv, NEW S \in SUBSET verifying, CycleTimeout(S)
    PROVE  IInv' /\ Lawful
<1>1. diverged' \subseteq Cause
  BY Diverges DEF IInv, ExecutionTypeOK, CycleTimeout, Cause
<1>2. ExecutionTypeOK'
  BY <1>1 DEF IInv, ExecutionTypeOK, LedgerTypeOK, CycleTimeout, ledgerVars, exchangeVars, loopVars
<1>3. /\ trades' = trades /\ orders' = orders /\ polling' = polling
      /\ verifying' \subseteq verifying
  BY DEF CycleTimeout, ledgerVars, exchangeVars
<1> QED
  BY <1>2, <1>3, Quiet

-----------------------------------------------------------------------------
(* The exchange *)

\* A fill changes one placed order and leaves the ledger to the poll:
LEMMA FillKeeps ==
    ASSUME IInv, NEW t \in Trade, orders[t].st = "open", NEW n \in Int, NEW x \in Int,
           NEW last \in BOOLEAN, Fill(t, n, x, last)
    PROVE  IInv' /\ Lawful
<1> DEFINE o == orders[t]
           fee == IF o.filled = 0 THEN Fee ELSE 0
           sign == IF o.side = "buy" THEN 1 ELSE -1
           new == [o EXCEPT !.st = IF last THEN "filled" ELSE "open",
                            !.filled = @ + n, !.price = x, !.fee = @ + fee]
<1>1. /\ o \in Order /\ o.pair \in Pair /\ o.filled \in Int /\ o.fee \in Int
  BY DEF IInv, ExecutionTypeOK, Order
<1>2. fee \in Int /\ sign \in Int
  BY ExecutionAssumption DEF ExecutionAssumption
<1>3. new \in Order /\ new.st # "none"
  <2>1. o.filled + n \in Int /\ o.fee + fee \in Int
    BY <1>1, <1>2
  <2> HIDE DEF fee
  <2> QED
    BY <1>1, <2>1 DEF Order, OrderState
<1>4. orders' = [orders EXCEPT ![t] = new]
  BY DEF Fill, IInv, ExecutionTypeOK
<1>5. /\ base' = [base EXCEPT ![o.pair] = @ + sign * n]
      /\ quote' = quote - sign * n * x - fee
      /\ UNCHANGED <<ledgerVars, verifying, polling, loopVars, ghostVars>>
  BY DEF Fill
<1>6. sign * n \in Int /\ sign * n * x \in Int
  BY <1>2
<1> HIDE DEF fee, sign, new
<1>7. ExecutionTypeOK'
  <2>1. orders' \in [Trade -> Order]
    BY <1>3, <1>4 DEF IInv, ExecutionTypeOK
  <2>2. base' \in [Pair -> Int] /\ quote' \in Int
    BY <1>1, <1>2, <1>5, <1>6 DEF IInv, ExecutionTypeOK
  <2> QED
    BY <1>5, <2>1, <2>2 DEF IInv, ExecutionTypeOK, LedgerTypeOK, ledgerVars, loopVars, ghostVars
<1>8. \A u \in Trade : orders'[u].st = "none" => orders[u].st = "none"
  BY <1>3, <1>4 DEF IInv, ExecutionTypeOK
<1>9. trades' = trades /\ verifying' = verifying /\ polling' = polling
  BY <1>5 DEF ledgerVars
<1> QED
  BY <1>7, <1>8, <1>9, Quiet

\* ... for a limit order,
LEMMA FillLimitKeeps ==
    ASSUME IInv, NEW t \in Trade, FillLimit(t)
    PROVE  IInv' /\ Lawful
<1> DEFINE left == orders[t].qty - orders[t].filled
<1>1. left \in Int /\ orders[t].price \in Int
  BY DEF IInv, ExecutionTypeOK, Order
<1>2. /\ orders[t].st = "open"
      /\ \E n \in {left} \cup (IF PartialFills THEN {1} ELSE {}) :
            Fill(t, n, orders[t].price, n = left)
  BY DEF FillLimit
<1> HIDE DEF left
<1>3. PICK n \in {left} \cup {1} : Fill(t, n, orders[t].price, n = left)
  BY <1>2
<1>4. n \in Int /\ (n = left) \in BOOLEAN
  BY <1>1
<1> QED
  BY <1>1, <1>2, <1>3, <1>4, FillKeeps

\* ... and for a market order.
LEMMA FillMarketKeeps ==
    ASSUME IInv, NEW t \in Trade, NEW x \in Price, FillMarket(t, x)
    PROVE  IInv' /\ Lawful
<1> DEFINE n == IF orders[t].side = "buy" THEN Spend \div x ELSE orders[t].qty
<1>1. n \in Int /\ n - orders[t].filled \in Int /\ x \in Int
  BY SpendQty DEF IInv, ExecutionTypeOK, Order
<1>2. /\ orders[t].st = "open"
      /\ Fill(t, n - orders[t].filled, x, TRUE) \/ Fill(t, 1, x, FALSE)
  BY DEF FillMarket
<1> HIDE DEF n
<1>3. CASE Fill(t, n - orders[t].filled, x, TRUE)
  BY <1>1, <1>2, <1>3, FillKeeps
<1>4. CASE Fill(t, 1, x, FALSE)
  <2>1. 1 \in Int /\ FALSE \in BOOLEAN
    OBVIOUS
  <2> QED
    BY <1>1, <1>2, <1>4, <2>1, FillKeeps, Zenon
<1> QED
  BY <1>2, <1>3, <1>4

\* An order that ends at the exchange stays placed.
LEMMA EndOrderKeeps ==
    ASSUME IInv, NEW t \in Trade, NEW s \in {"cancelled", "failed"}, EndOrder(t, s)
    PROVE  IInv' /\ Lawful
<1>1. /\ orders' = [orders EXCEPT ![t].st = s]
      /\ UNCHANGED <<ledgerVars, base, quote, verifying, polling, loopVars, ghostVars>>
  BY DEF EndOrder
<1>2. [orders[t] EXCEPT !.st = s] \in Order
  BY DEF IInv, ExecutionTypeOK, Order, OrderState
<1>3. ExecutionTypeOK'
  BY <1>1, <1>2 DEF IInv, ExecutionTypeOK, LedgerTypeOK, ledgerVars, loopVars, ghostVars
<1>4. \A u \in Trade : orders'[u].st = "none" => orders[u].st = "none"
  BY <1>1 DEF IInv, ExecutionTypeOK, Order
<1>5. trades' = trades /\ verifying' = verifying /\ polling' = polling
  BY <1>1 DEF ledgerVars
<1> QED
  BY <1>3, <1>4, <1>5, Quiet

\* A withdrawal moves no order and no trade.
LEMMA WithdrawKeeps ==
    ASSUME IInv, NEW p \in Pair, NEW n \in 1..base[p], Withdraw(p, n)
    PROVE  IInv' /\ Lawful
<1>1. diverged' \subseteq Cause
  BY Diverges DEF IInv, ExecutionTypeOK, Withdraw, Cause
<1>2. base' \in [Pair -> Int]
  BY DEF IInv, ExecutionTypeOK, Withdraw
<1>3. ExecutionTypeOK'
  BY <1>1, <1>2 DEF IInv, ExecutionTypeOK, LedgerTypeOK, Withdraw, ledgerVars, loopVars
<1>4. trades' = trades /\ orders' = orders /\ verifying' = verifying /\ polling' = polling
  BY DEF Withdraw, ledgerVars
<1> QED
  BY <1>3, <1>4, Quiet

-----------------------------------------------------------------------------
(* Polls *)

\* A pending trade takes a new record: its order is settled.
LEMMA SettleKeeps ==
    ASSUME IInv, ExecutionTypeOK', NEW t \in Trade, NEW tr, trades[t].status = "pending",
           trades' = [trades EXCEPT ![t] = tr],
           tr.status \in {"filled", "cancelled", "failed"},
           \A u \in Trade : orders'[u].st = "none" => orders[u].st = "none",
           verifying' = verifying, polling' = 0
    PROVE  IInv' /\ Lawful
<1>1. trades'[t] = tr /\ Others({t})
  BY DEF IInv, ExecutionTypeOK, LedgerTypeOK, Others
<1>2. t \notin verifying /\ orders[t].st # "none"
  BY DEF IInv, Linked
<1>3. Linked'
  BY <1>1, <1>2 DEF IInv, ExecutionTypeOK, Linked, Others
<1> QED
  BY <1>1, <1>3 DEF IInv, Lawful, Settles

\* A polled trade is pending, and none is under cancellation.
LEMMA PolledTyped ==
    ASSUME IInv, NEW t \in Trade, Polled(t)
    PROVE  polling = 0 /\ trades[t].status = "pending" /\ trades[t] \in TradeRecord
BY DEF IInv, ExecutionTypeOK, LedgerTypeOK, Polled, Idle

\* mark_trade_status keeps the trades typed.
LEMMA MarkTyped ==
    ASSUME LedgerTypeOK, NEW t \in Trade, NEW tr \in TradeRecord, NEW s \in Status,
           MarkTradeStatus(t, tr, s)
    PROVE  /\ [tr EXCEPT !.status = s].status = s
           /\ trades' = [trades EXCEPT ![t] = [tr EXCEPT !.status = s]]
           /\ trades' \in [Trade -> TradeRecord]
<1>1. [tr EXCEPT !.status = s] \in TradeRecord /\ [tr EXCEPT !.status = s].status = s
  BY DEF TradeRecord
<1> QED
  BY <1>1 DEF MarkTradeStatus, LedgerTypeOK

\* A poll without a reply ends a pending trade.
LEMMA PollNotFoundKeeps ==
    ASSUME IInv, NEW t \in Trade, PollNotFound(t)
    PROVE  IInv' /\ Lawful
<1>1. polling = 0 /\ trades[t].status = "pending" /\ trades[t] \in TradeRecord
  BY PolledTyped DEF PollNotFound
<1> DEFINE new == [trades[t] EXCEPT !.status = "failed"]
<1>2. /\ new.status = "failed"
      /\ trades' = [trades EXCEPT ![t] = new]
      /\ trades' \in [Trade -> TradeRecord]
  BY <1>1, MarkTyped DEF PollNotFound, IInv, ExecutionTypeOK, Status, Terminal
<1>3. diverged' \subseteq Cause
  BY Diverges DEF IInv, ExecutionTypeOK, PollNotFound, Cause
<1>4. UNCHANGED <<positions, tracked, cash, exchangeVars, verifying, polling, loopVars, unbookedFees>>
  BY DEF PollNotFound
<1>5. ExecutionTypeOK'
  BY <1>2, <1>3, <1>4 DEF IInv, ExecutionTypeOK, LedgerTypeOK, exchangeVars, loopVars
<1>6. orders' = orders /\ verifying' = verifying /\ polling' = 0
  BY <1>1, <1>4 DEF exchangeVars
<1> HIDE DEF new
<1> QED
  BY <1>1, <1>2, <1>5, <1>6, SettleKeeps

\* A poll that sees the fill confirms a pending trade.
LEMMA PollFilledKeeps ==
    ASSUME IInv, NEW t \in Trade, PollFilled(t)
    PROVE  IInv' /\ Lawful
<1> DEFINE o == orders[t]
           new == Refilled(trades[t], "filled", o.price, o.filled, o.fee)
<1>1. polling = 0 /\ trades[t].status = "pending" /\ trades[t] \in TradeRecord
  BY PolledTyped DEF PollFilled
<1>2. o.price \in Int /\ o.filled \in Int /\ o.fee \in Int
  BY DEF IInv, ExecutionTypeOK, Order
<1>3. /\ UpdateTradeFill(t, o.price, o.filled, o.fee, "filled")
      /\ Diverge("sellfee", o.side = "sell")
      /\ UNCHANGED <<exchangeVars, verifying, polling, loopVars, unbookedFees>>
  BY DEF PollFilled
<1>4. LedgerTypeOK' /\ trades' = [trades EXCEPT ![t] = new] /\ new.status = "filled"
  <2>1. LedgerTypeOK /\ "filled" \in Status
    BY DEF IInv, ExecutionTypeOK, Status
  <2> QED
    BY <1>2, <1>3, <2>1, UpdateTradeFillTyped
<1>6. diverged' \subseteq Cause
  BY <1>3, Diverges DEF IInv, ExecutionTypeOK, Cause
<1>7. ExecutionTypeOK'
  BY <1>3, <1>4, <1>6 DEF IInv, ExecutionTypeOK, exchangeVars, loopVars
<1>8. orders' = orders /\ verifying' = verifying /\ polling' = 0
  BY <1>1, <1>3 DEF exchangeVars
<1> HIDE DEF new
<1> QED
  BY <1>1, <1>4, <1>7, <1>8, SettleKeeps

\* A poll that sees the end of the order ends a pending trade.
LEMMA PollEndedKeeps ==
    ASSUME IInv, NEW t \in Trade, PollEnded(t)
    PROVE  IInv' /\ Lawful
<1> DEFINE o == orders[t]
           tr == IF o.filled > 0 /\ o.filled # trades[t].fqty
                 THEN [trades[t] EXCEPT !.fqty = o.filled, !.fprice = o.price]
                 ELSE trades[t]
           new == [tr EXCEPT !.status = o.st]
<1>1. polling = 0 /\ trades[t].status = "pending" /\ trades[t] \in TradeRecord
  BY PolledTyped DEF PollEnded
<1>2. o.price \in Int /\ o.filled \in Int
  BY DEF IInv, ExecutionTypeOK, Order
<1>3. /\ o.st \in {"cancelled", "failed"}
      /\ MarkTradeStatus(t, tr, o.st)
      /\ ReverseTradeBooking(tr)
      /\ diverged' \subseteq diverged \cup {"partial", "refunded", "floored"}
      /\ UNCHANGED <<exchangeVars, verifying, polling, loopVars, unbookedFees>>
  BY DEF PollEnded
<1>4. tr \in TradeRecord
  BY <1>1, <1>2 DEF TradeRecord
<1>5. LedgerTypeOK /\ o.st \in Status
  BY <1>3 DEF IInv, ExecutionTypeOK, Status, Terminal
<1> HIDE DEF tr, o
<1>6. /\ new.status = o.st
      /\ trades' = [trades EXCEPT ![t] = new]
      /\ trades' \in [Trade -> TradeRecord]
  BY <1>3, <1>4, <1>5, MarkTyped
<1>7. positions' \in [Pair -> Int] /\ tracked' \subseteq Pair /\ cash' \in Int
  BY <1>3, <1>4, <1>5, ReverseTyped
<1>8. diverged' \subseteq Cause
  BY <1>3 DEF IInv, ExecutionTypeOK, Cause
<1>9. ExecutionTypeOK'
  BY <1>3, <1>6, <1>7, <1>8 DEF IInv, ExecutionTypeOK, LedgerTypeOK, exchangeVars, loopVars
<1>10. orders' = orders /\ verifying' = verifying /\ polling' = 0
  BY <1>1, <1>3 DEF exchangeVars
<1>11. new.status \in {"filled", "cancelled", "failed"}
  BY <1>3, <1>6
<1> HIDE DEF new
<1> QED
  BY <1>1, <1>6, <1>9, <1>10, <1>11, SettleKeeps

\* A stale order's trade is pending when its cancel is sent.
LEMMA PollStaleKeeps ==
    ASSUME IInv, NEW t \in Trade, PollStale(t)
    PROVE  IInv' /\ Lawful
<1>1. trades[t].status = "pending"
  BY PolledTyped DEF PollStale
<1>2. polling' = t /\ UNCHANGED <<ledgerVars, exchangeVars, verifying, loopVars, ghostVars>>
  BY DEF PollStale
<1>3. ExecutionTypeOK'
  BY <1>2 DEF IInv, ExecutionTypeOK, LedgerTypeOK, ledgerVars, exchangeVars, loopVars, ghostVars
<1>4. trades' = trades /\ orders' = orders /\ verifying' = verifying
  BY <1>2 DEF ledgerVars, exchangeVars
<1>5. Linked'
  BY <1>1, <1>2, <1>4 DEF IInv, Linked
<1> QED
  BY <1>3, <1>4, <1>5, SameTrades DEF IInv

\* The cancelled order's trade is still pending, and ends.
LEMMA CancelStaleKeeps ==
    ASSUME IInv, NEW t \in Trade, CancelStale(t)
    PROVE  IInv' /\ Lawful
<1> DEFINE new == [trades[t] EXCEPT !.status = "cancelled"]
<1>1. t # 0 /\ trades[t].status = "pending" /\ trades[t] \in TradeRecord
  BY DEF CancelStale, IInv, Linked, ExecutionTypeOK, LedgerTypeOK, Trade
<1>2. /\ polling' = 0
      /\ orders' = IF orders[t].st = "open"
                   THEN [orders EXCEPT ![t].st = "cancelled"] ELSE orders
      /\ MarkTradeStatus(t, trades[t], "cancelled")
      /\ ReverseTradeBooking(trades[t])
      /\ diverged' \subseteq diverged \cup {"raced", "refunded", "floored"}
      /\ UNCHANGED <<base, quote, verifying, loopVars, unbookedFees>>
  BY DEF CancelStale
<1>3. LedgerTypeOK /\ "cancelled" \in Status
  BY DEF IInv, ExecutionTypeOK, Status, Terminal
<1>4. /\ new.status = "cancelled"
      /\ trades' = [trades EXCEPT ![t] = new]
      /\ trades' \in [Trade -> TradeRecord]
  BY <1>1, <1>2, <1>3, MarkTyped
<1>5. positions' \in [Pair -> Int] /\ tracked' \subseteq Pair /\ cash' \in Int
  BY <1>1, <1>2, <1>3, ReverseTyped
<1>6. orders' \in [Trade -> Order]
  <2>1. [orders[t] EXCEPT !.st = "cancelled"] \in Order
    BY DEF IInv, ExecutionTypeOK, Order, OrderState
  <2> QED
    BY <1>2, <2>1 DEF IInv, ExecutionTypeOK
<1>7. \A u \in Trade : orders'[u].st = "none" => orders[u].st = "none"
  BY <1>2 DEF IInv, ExecutionTypeOK, Order
<1>8. diverged' \subseteq Cause
  BY <1>2 DEF IInv, ExecutionTypeOK, Cause
<1>9. ExecutionTypeOK'
  BY <1>2, <1>4, <1>5, <1>6, <1>8 DEF IInv, ExecutionTypeOK, LedgerTypeOK, loopVars
<1>10. new.status \in {"filled", "cancelled", "failed"}
  BY <1>4
<1> HIDE DEF new
<1> QED
  BY <1>1, <1>2, <1>4, <1>7, <1>9, <1>10, SettleKeeps

\* A failed cancel changes nothing.
LEMMA CancelFailsKeeps ==
    ASSUME IInv, NEW t \in Trade, CancelFails(t)
    PROVE  IInv' /\ Lawful
<1>1. polling' = 0 /\ UNCHANGED <<ledgerVars, exchangeVars, verifying, loopVars, ghostVars>>
  BY DEF CancelFails
<1>2. ExecutionTypeOK'
  BY <1>1 DEF IInv, ExecutionTypeOK, LedgerTypeOK, ledgerVars, exchangeVars, loopVars, ghostVars
<1>3. trades' = trades /\ orders' = orders /\ verifying' = verifying
  BY <1>1 DEF ledgerVars, exchangeVars
<1> QED
  BY <1>1, <1>2, <1>3, Quiet

-----------------------------------------------------------------------------
(* Exits and holdings *)

\* Open trades are closed, or rewritten and left open, between two cycles.
LEMMA OpenKeeps ==
    ASSUME IInv, ExecutionTypeOK', NEW S \in SUBSET OpenTrades, Others(S),
           \/ \A t \in S : trades'[t].status = "closed"
           \/ \A t \in S : trades'[t].status = trades[t].status,
           orders' = orders, verifying' = verifying, polling = 0, polling' = 0
    PROVE  IInv' /\ Lawful
<1>1. Lawful
  BY DEF Lawful, Closes, Rewrites
<1>2. \A t \in S : trades[t].status # "none"
  BY DEF OpenTrades, IsOpen
<1>3. Linked'
  <2>1. \A t \in Trade : orders'[t].st = "none" => trades'[t].status = "none"
    BY <1>2 DEF IInv, Linked, Others
  <2>2. \A t \in verifying' : trades'[t].status = "none" /\ orders'[t].st # "none"
    BY <1>2 DEF IInv, ExecutionTypeOK, Linked, Others
  <2> QED
    BY <2>1, <2>2 DEF Linked
<1> QED
  BY <1>1, <1>3 DEF IInv

\* What the exits look at is a recorded, filled buy.
LEMMA ExitableTyped ==
    ASSUME IInv, NEW t \in Trade, Exitable(t)
    PROVE  /\ LedgerTypeOK /\ polling = 0
           /\ IsOpen(trades[t]) /\ {t} \in SUBSET OpenTrades
           /\ trades[t] \in TradeRecord /\ trades[t].pair \in Pair
           /\ Held(trades[t]) \in Int /\ Booked(trades[t]) \in Int
<1>1. LedgerTypeOK /\ polling = 0 /\ trades[t].status = "filled"
  BY DEF Exitable, Idle, IInv, ExecutionTypeOK
<1>2. trades[t] \in TradeRecord
  BY <1>1 DEF LedgerTypeOK
<1> QED
  BY <1>1, <1>2, TradeNumbers DEF OpenTrades, IsOpen

\* What the exchange sells on behalf of an exit
LEMMA SellTyped ==
    ASSUME ExecutionTypeOK, NEW p \in Pair, NEW n \in Int, NEW x \in Int, SellNow(p, n, x)
    PROVE  base' \in [Pair -> Int] /\ quote' \in Int /\ orders' = orders
<1>1. n * x \in Int /\ Fee \in Int
  BY ExecutionAssumption DEF ExecutionAssumption
<1> QED
  BY <1>1 DEF ExecutionTypeOK, SellNow

\* The causes an exit may add are listed ones.
LEMMA ShortfallTyped ==
    ASSUME diverged \subseteq Cause, NEW p, NEW n, NEW m, NEW y, Shortfall(p, n, m, y)
    PROVE  diverged' \subseteq Cause
BY DEF Shortfall, Cause

\* close_trade on a filled trade is one lawful close.
LEMMA CloseOpens ==
    ASSUME IInv, NEW t \in Trade, Exitable(t), NEW x \in Int, NEW fee \in Int,
           CloseTrade(t, x, fee)
    PROVE  LedgerTypeOK' /\ Others({t}) /\ \A u \in {t} : trades'[u].status = "closed"
<1>1. LedgerTypeOK /\ IsOpen(trades[t]) /\ trades[t] \in TradeRecord
  BY ExitableTyped
<1>2. LedgerTypeOK' /\ trades' = [trades EXCEPT ![t] = Closed(trades[t], x, fee)]
  BY <1>1, CloseTradeTyped
<1>3. Closed(trades[t], x, fee).status = "closed"
  BY <1>1, ClosedTyped
<1> QED
  BY <1>1, <1>2, <1>3 DEF LedgerTypeOK, Others

\* The capped quantity is a number.
LEMMA CappedInt ==
    ASSUME ExecutionTypeOK, NEW p \in Pair, NEW q \in Int
    PROVE  Capped(p, q) \in Int /\ \A n \in SoldOf(Capped(p, q)) : n \in Int
<1>1. Capped(p, q) \in Int
  BY DEF ExecutionTypeOK, Capped, Least
<1> QED
  BY <1>1 DEF SoldOf

\* A whole exit closes one filled buy.
LEMMA ClosePositionKeeps ==
    ASSUME IInv, NEW t \in Trade, NEW x \in Price, NEW fromStop \in BOOLEAN,
           ClosePosition(t, x, fromStop)
    PROVE  IInv' /\ Lawful
<1> DEFINE p == trades[t].pair
           qty == Capped(p, Booked(trades[t]))
<1>1. Exitable(t) /\ x \in Int /\ Fee \in Int /\ ExecutionTypeOK
  BY SpendQty, ExecutionAssumption DEF ClosePosition, ExecutionAssumption, IInv
<1>2. /\ polling = 0 /\ {t} \in SUBSET OpenTrades
      /\ p \in Pair /\ Booked(trades[t]) \in Int
  BY <1>1, ExitableTyped
<1>3. /\ \/ /\ CloseTrade(t, x, 0)
            /\ Diverge("unsold", TRUE)
            /\ UNCHANGED exchangeVars
         \/ /\ CloseTrade(t, x, Fee)
            /\ \E n \in SoldOf(qty) : SellNow(p, n, x) /\ Shortfall(p, n, Held(trades[t]), 0)
      /\ stops' \subseteq stops
      /\ UNCHANGED <<verifying, polling, liveCash, monitoring, tierPnl, unbookedFees>>
  BY DEF ClosePosition
<1>4. LedgerTypeOK' /\ Others({t}) /\ \A u \in {t} : trades'[u].status = "closed"
  <2>1. 0 \in Int
    OBVIOUS
  <2>2. CloseTrade(t, x, 0) \/ CloseTrade(t, x, Fee)
    BY <1>3
  <2> QED
    BY <1>1, <2>1, <2>2, CloseOpens
<1>5. /\ base' \in [Pair -> Int] /\ quote' \in Int /\ orders' = orders
      /\ diverged' \subseteq Cause
  <2>1. CASE Diverge("unsold", TRUE) /\ UNCHANGED exchangeVars
    BY <1>1, <2>1, Diverges DEF ExecutionTypeOK, exchangeVars, Cause
  <2>2. CASE \E n \in SoldOf(qty) : SellNow(p, n, x) /\ Shortfall(p, n, Held(trades[t]), 0)
    <3>1. PICK n \in SoldOf(qty) : SellNow(p, n, x) /\ Shortfall(p, n, Held(trades[t]), 0)
      BY <2>2
    <3>2. n \in Int
      BY <1>1, <1>2, CappedInt
    <3> QED
      BY <1>1, <1>2, <3>1, <3>2, SellTyped, ShortfallTyped DEF ExecutionTypeOK
  <2> QED
    BY <1>3, <2>1, <2>2
<1>6. ExecutionTypeOK'
  BY <1>1, <1>3, <1>4, <1>5 DEF ExecutionTypeOK
<1> QED
  BY <1>2, <1>3, <1>4, <1>5, <1>6, OpenKeeps

\* A tier exit closes one filled buy or leaves it filled.
LEMMA PartialSellKeeps ==
    ASSUME IInv, NEW t \in Trade, NEW q \in Int, NEW x \in Price, PartialSell(t, q, x)
    PROVE  IInv' /\ Lawful
<1> DEFINE tr == trades[t]
           qty == Capped(tr.pair, q)
           left == PosPart(Held(tr) - qty)
<1>1. Exitable(t) /\ x \in Int /\ Fee \in Int /\ ExecutionTypeOK
  BY SpendQty, ExecutionAssumption DEF PartialSell, ExecutionAssumption, IInv
<1>2. /\ LedgerTypeOK /\ polling = 0 /\ {t} \in SUBSET OpenTrades
      /\ tr \in TradeRecord /\ tr.pair \in Pair /\ Held(tr) \in Int /\ Entry(tr) \in Int
  BY <1>1, ExitableTyped, TradeNumbers
<1>3. qty \in Int /\ \A n \in SoldOf(qty) : n \in Int
  BY <1>1, <1>2, CappedInt
<1>4. /\ \E n \in SoldOf(qty) :
            /\ SellNow(tr.pair, n, x)
            /\ \E m, y : Shortfall(tr.pair, n, m, y)
      /\ \/ /\ UpdatePartialFill(t, left, qty, x * qty - Fee)
            /\ tierPnl' = tierPnl + (x - Entry(tr)) * qty - Fee
         \/ /\ CloseTrade(t, x, Fee)
            /\ UNCHANGED tierPnl
      /\ UNCHANGED <<verifying, polling, stops, liveCash, monitoring, unbookedFees>>
  BY DEF PartialSell
<1> HIDE DEF qty
<1>5. left \in Int /\ x * qty - Fee \in Int /\ (x - Entry(tr)) * qty \in Int
  BY <1>1, <1>2, <1>3 DEF PosPart
<1>6. PICK n \in SoldOf(qty) :
        /\ SellNow(tr.pair, n, x)
        /\ \E m, y : Shortfall(tr.pair, n, m, y)
  BY <1>4
<1>7. /\ base' \in [Pair -> Int] /\ quote' \in Int /\ orders' = orders
      /\ diverged' \subseteq Cause
  BY <1>1, <1>2, <1>3, <1>6, SellTyped, ShortfallTyped DEF ExecutionTypeOK
<1> HIDE DEF left
<1>8. /\ LedgerTypeOK' /\ Others({t}) /\ tierPnl' \in Int
      /\ \/ \A u \in {t} : trades'[u].status = "closed"
         \/ \A u \in {t} : trades'[u].status = trades[u].status
  <2>1. CASE /\ UpdatePartialFill(t, left, qty, x * qty - Fee)
             /\ tierPnl' = tierPnl + (x - Entry(tr)) * qty - Fee
    <3>1. LedgerTypeOK' /\ trades' = [trades EXCEPT ![t].fqty = left]
      BY <1>2, <1>3, <1>5, <2>1, UpdatePartialFillTyped
    <3>2. Others({t}) /\ trades'[t].status = trades[t].status
      BY <1>2, <3>1 DEF LedgerTypeOK, TradeRecord, Others
    <3>3. tierPnl' \in Int
      BY <1>1, <1>5, <2>1 DEF ExecutionTypeOK
    <3> QED
      BY <3>1, <3>2, <3>3
  <2>2. CASE CloseTrade(t, x, Fee) /\ UNCHANGED tierPnl
    BY <1>1, <2>2, CloseOpens DEF ExecutionTypeOK
  <2> QED
    BY <1>4, <2>1, <2>2
<1>9. ExecutionTypeOK'
  BY <1>1, <1>4, <1>7, <1>8 DEF ExecutionTypeOK
<1> QED
  BY <1>2, <1>4, <1>7, <1>8, <1>9, OpenKeeps

\* Choosing the mode of a cycle touches no trade.
LEMMA StartCycleKeeps ==
    ASSUME IInv, StartCycle
    PROVE  IInv' /\ Lawful
<1>1. UNCHANGED <<ledgerVars, exchangeVars, verifying, polling, stops, liveCash, tierPnl, ghostVars>>
  BY DEF StartCycle
<1>2. monitoring' \in BOOLEAN
  BY DEF StartCycle, NothingToBuyWith
<1>3. ExecutionTypeOK'
  BY <1>1, <1>2 DEF IInv, ExecutionTypeOK, LedgerTypeOK, ledgerVars, exchangeVars, ghostVars
<1>4. trades' = trades /\ orders' = orders /\ verifying' = verifying /\ polling' = polling
  BY <1>1 DEF ledgerVars, exchangeVars
<1> QED
  BY <1>3, <1>4, Quiet

\* Dropping a stop touches no trade.
LEMMA DropStopKeeps ==
    ASSUME IInv, NEW p \in Pair, DropStop(p)
    PROVE  IInv' /\ Lawful
<1>1. stops' = stops \ {p}
  BY DEF DropStop
<1>2. UNCHANGED <<ledgerVars, exchangeVars, verifying, polling, liveCash, monitoring, tierPnl, ghostVars>>
  BY DEF DropStop
<1>3. ExecutionTypeOK'
  BY <1>1, <1>2 DEF IInv, ExecutionTypeOK, LedgerTypeOK, ledgerVars, exchangeVars, ghostVars
<1>4. trades' = trades /\ orders' = orders /\ verifying' = verifying /\ polling' = polling
  BY <1>2 DEF ledgerVars, exchangeVars
<1> QED
  BY <1>3, <1>4, Quiet

\* sync_live_holdings touches no trade.
LEMMA RefreshKeeps ==
    ASSUME IInv, RefreshHoldings
    PROVE  IInv' /\ Lawful
<1>1. /\ SyncLiveHoldings(quote, base)
      /\ liveCash' \in {"low", "enough"}
      /\ stops' = stops \cup NewExternals(base)
      /\ unbookedFees' \in {0, unbookedFees}
      /\ diverged' \in {diverged, diverged \cup {"resynced"}}
      /\ UNCHANGED <<exchangeVars, verifying, polling, monitoring, tierPnl>>
  BY DEF RefreshHoldings, Diverge
<1>2. NewExternals(base) \subseteq Pair
  BY DEF NewExternals
<1>3. LedgerTypeOK' /\ trades' = trades
  BY <1>1, <1>2 DEF IInv, ExecutionTypeOK, LedgerTypeOK, SyncLiveHoldings
<1>4. diverged' \subseteq Cause
  BY <1>1 DEF IInv, ExecutionTypeOK, Cause
<1>5. ExecutionTypeOK'
  BY <1>1, <1>2, <1>3, <1>4 DEF IInv, ExecutionTypeOK, exchangeVars
<1>6. orders' = orders /\ verifying' = verifying /\ polling' = polling
  BY <1>1 DEF exchangeVars
<1> QED
  BY <1>3, <1>5, <1>6, Quiet

\* The shares are booked as filled quantities of the open buys.
LEMMA ShareOutTyped ==
    ASSUME ExecutionTypeOK, NEW p \in Pair, ShareOut(p)
    PROVE  /\ trades' \in [Trade -> TradeRecord]
           /\ OpenBuys(p) \in SUBSET OpenTrades /\ Others(OpenBuys(p))
           /\ \A t \in OpenBuys(p) : trades'[t].status = trades[t].status
<1>1. PICK share \in [OpenBuys(p) -> 1..base[p]] :
        trades' = [t \in Trade |-> IF t \in OpenBuys(p)
                                   THEN [trades[t] EXCEPT !.fqty = share[t]] ELSE trades[t]]
  BY DEF ShareOut
<1>2. OpenBuys(p) \subseteq Trade /\ OpenBuys(p) \in SUBSET OpenTrades
  BY DEF OpenBuys, OpenTrades
<1>3. \A t \in OpenBuys(p) : share[t] \in Int
  BY DEF ExecutionTypeOK
<1>4. \A t \in OpenBuys(p) : /\ [trades[t] EXCEPT !.fqty = share[t]] \in TradeRecord
                             /\ [trades[t] EXCEPT !.fqty = share[t]].status = trades[t].status
  BY <1>2, <1>3 DEF ExecutionTypeOK, LedgerTypeOK, TradeRecord
<1>5. trades' \in [Trade -> TradeRecord]
  BY <1>1, <1>4 DEF ExecutionTypeOK, LedgerTypeOK
<1>6. Others(OpenBuys(p)) /\ \A t \in OpenBuys(p) : trades'[t].status = trades[t].status
  BY <1>1, <1>2, <1>4 DEF Others
<1> QED
  BY <1>2, <1>5, <1>6

\* Closing all open buys at price 0 keeps the ledger typed.
LEMMA AutoCloseTyped ==
    ASSUME ExecutionTypeOK, NEW p \in Pair, AutoClose(p)
    PROVE  /\ LedgerTypeOK'
           /\ OpenBuys(p) \in SUBSET OpenTrades /\ Others(OpenBuys(p))
           /\ \A t \in OpenBuys(p) : trades'[t].status = "closed"
<1>1. /\ trades' = [t \in Trade |-> IF t \in OpenBuys(p) THEN Closed(trades[t], 0, 0) ELSE trades[t]]
      /\ ReconcilePosition(p, 0, 0)
  BY DEF AutoClose
<1>2. OpenBuys(p) \subseteq Trade /\ OpenBuys(p) \in SUBSET OpenTrades
  BY DEF OpenBuys, OpenTrades
<1>3. 0 \in Int /\ LedgerTypeOK /\ \A t \in Trade : trades[t] \in TradeRecord
  BY DEF ExecutionTypeOK, LedgerTypeOK
<1>4. \A t \in OpenBuys(p) : /\ Closed(trades[t], 0, 0) \in TradeRecord
                             /\ Closed(trades[t], 0, 0).status = "closed"
  BY <1>2, <1>3, ClosedTyped
<1>5. trades' \in [Trade -> TradeRecord]
  BY <1>1, <1>3, <1>4
<1>6. positions' \in [Pair -> Int] /\ tracked' \subseteq Pair /\ cash' \in Int
  BY <1>1, <1>3, ReconcileTyped
<1>7. Others(OpenBuys(p)) /\ \A t \in OpenBuys(p) : trades'[t].status = "closed"
  BY <1>1, <1>2, <1>4 DEF Others
<1> QED
  BY <1>2, <1>5, <1>6, <1>7 DEF LedgerTypeOK

\* Reconciliation shares out or closes open buys and nothing else.
LEMMA ReconcileKeeps ==
    ASSUME IInv, NEW p \in Pair, NEW x \in Price \cup {0}, Reconcile(p, x)
    PROVE  IInv' /\ Lawful
<1>1. /\ polling = 0 /\ ExecutionTypeOK /\ LedgerTypeOK
      /\ Diverge("reconciled", TRUE)
      /\ UNCHANGED <<exchangeVars, verifying, polling, loopVars, unbookedFees>>
  BY DEF Reconcile, Idle, IInv, ExecutionTypeOK
<1>2. /\ diverged' \subseteq Cause
      /\ orders' = orders /\ verifying' = verifying /\ polling' = 0
  BY <1>1, Diverges DEF ExecutionTypeOK, Cause, exchangeVars
<1>3. LedgerTypeOK' => ExecutionTypeOK'
  BY <1>1, <1>2 DEF ExecutionTypeOK, exchangeVars, loopVars
<1>4. base[p] \in Int /\ x \in Int
  BY <1>1, SpendQty DEF ExecutionTypeOK
<1>5. CASE AutoClose(p)
  BY <1>1, <1>2, <1>3, <1>5, AutoCloseTyped, OpenKeeps
<1>6. CASE ReconcilePosition(p, base[p], x) /\ ShareOut(p)
  <2>1. positions' \in [Pair -> Int] /\ tracked' \subseteq Pair /\ cash' \in Int
    BY <1>1, <1>4, <1>6, ReconcileTyped
  <2>2. LedgerTypeOK'
    BY <1>1, <1>6, <2>1, ShareOutTyped DEF LedgerTypeOK
  <2> QED
    BY <1>1, <1>2, <1>3, <1>6, <2>2, ShareOutTyped, OpenKeeps
<1>7. CASE /\ positions' = [positions EXCEPT ![p] = base[p]]
           /\ tracked' = tracked \cup {p}
           /\ UNCHANGED <<trades, cash>>
  <2>1. LedgerTypeOK' /\ trades' = trades
    BY <1>1, <1>4, <1>7 DEF LedgerTypeOK
  <2> QED
    BY <1>2, <1>3, <2>1, Quiet
<1> QED
  BY <1>5, <1>6, <1>7 DEF Reconcile

-----------------------------------------------------------------------------
(* The specification *)

\* The invariant holds before the first cycle.
LEMMA InitInv == Init => IInv
<1> SUFFICES ASSUME Init PROVE IInv
  OBVIOUS
<1>1. SomePair \in Pair
  BY LedgerAssumption DEF LedgerAssumption, SomePair
<1>2. LedgerTypeOK
  <2>1. NewTrade("none", "buy", SomePair, 0, 0) \in TradeRecord
    BY <1>1, NewTradeTyped DEF Status, Action
  <2> QED
    BY <2>1, LedgerAssumption DEF LedgerAssumption, LedgerTypeOK, Init, LedgerInit
<1>3. NewOrder("none", "limit", "buy", SomePair, 0, 0) \in Order
  BY <1>1 DEF NewOrder, Order, OrderState, Action
<1>4. ExecutionTypeOK
  <2>1. orders \in [Trade -> Order] /\ base \in [Pair -> Int]
    BY <1>3 DEF Init
  <2>2. quote \in Int /\ tierPnl \in Int /\ unbookedFees \in Int
    BY LedgerAssumption DEF LedgerAssumption, Init
  <2>3. /\ verifying \subseteq Trade /\ polling \in Trade \cup {0}
        /\ stops \subseteq Pair /\ diverged \subseteq Cause
        /\ liveCash \in {"unknown", "low", "enough"} /\ monitoring \in BOOLEAN
    BY DEF Init
  <2> QED
    BY <1>2, <2>1, <2>2, <2>3 DEF ExecutionTypeOK
<1>5. Linked
  BY DEF Linked, Init, LedgerInit, NewTrade
<1> QED
  BY <1>4, <1>5 DEF IInv

\* Every step keeps the invariant and moves each trade lawfully.
LEMMA StepInv == IInv /\ [Next]_vars => IInv' /\ Lawful
<1> SUFFICES ASSUME IInv, [Next]_vars PROVE IInv' /\ Lawful
  OBVIOUS
<1>1. ASSUME NEW t \in Trade, Pipeline(t) PROVE IInv' /\ Lawful
  BY <1>1, LimitBuyKeeps, LimitUnansweredKeeps, MarketKeeps, RecordFilledKeeps,
     RecordEndedKeeps, RecordUnconfirmedKeeps DEF Pipeline
<1>2. ASSUME NEW t \in Trade, Exchange(t) PROVE IInv' /\ Lawful
  BY <1>2, FillLimitKeeps, FillMarketKeeps, EndOrderKeeps DEF Exchange
<1>3. ASSUME NEW t \in Trade, Poll(t) PROVE IInv' /\ Lawful
  BY <1>3, PollNotFoundKeeps, PollFilledKeeps, PollEndedKeeps, PollStaleKeeps,
     CancelStaleKeeps, CancelFailsKeeps DEF Poll
<1>4. ASSUME NEW t \in Trade, Exit(t) PROVE IInv' /\ Lawful
  BY <1>4, ClosePositionKeeps, PartialSellKeeps DEF Exit
<1>5. ASSUME NEW p \in Pair,
             \/ DropStop(p) \/ \E n \in 1..base[p] : Withdraw(p, n)
             \/ \E x \in Price \cup {0} : Reconcile(p, x)
      PROVE  IInv' /\ Lawful
  BY <1>5, DropStopKeeps, WithdrawKeeps, ReconcileKeeps
<1>6. CASE UNCHANGED vars
  <2>1. ExecutionTypeOK'
    BY <1>6 DEF IInv, ExecutionTypeOK, LedgerTypeOK, vars, ledgerVars, exchangeVars,
                loopVars, ghostVars
  <2>2. trades' = trades /\ orders' = orders /\ verifying' = verifying /\ polling' = polling
    BY <1>6 DEF vars, ledgerVars, exchangeVars
  <2> QED
    BY <2>1, <2>2, Quiet
<1> QED
  BY <1>1, <1>2, <1>3, <1>4, <1>5, <1>6, CycleTimeoutKeeps, StartCycleKeeps,
     RefreshKeeps DEF Next

\* The ledger, the exchange and the executor's bookkeeping stay well typed
\* through every interleaving of pipelines, fills, polls, exits and syncs.
THEOREM TypeCorrect == Spec => []ExecutionTypeOK
<1>1. Spec => []IInv
  BY InitInv, StepInv, PTL DEF Spec
<1>2. IInv => ExecutionTypeOK
  BY DEF IInv
<1> QED
  BY <1>1, <1>2, PTL

\* Every trade that awaits _verify_fill is unrecorded, and the trade between
\* get_order and cancel_order of check_pending_orders is still pending: no
\* other step of the bot settles or closes it under the executor's hands.
THEOREM LinksHold == Spec => []Linked
<1>1. Spec => []IInv
  BY InitInv, StepInv, PTL DEF Spec
<1>2. IInv => Linked
  BY DEF IInv
<1> QED
  BY <1>1, <1>2, PTL

\* A lawful step leaves closed, cancelled and failed trades alone.
LEMMA LawfulIsFinal ==
    ASSUME Lawful, NEW t \in Trade, trades[t].status \in Terminal
    PROVE  trades'[t] = trades[t]
<1>1. trades[t].status \notin {"none", "pending"} /\ t \notin OpenTrades
  BY DEF Terminal, OpenTrades, IsOpen
<1>2. CASE Opens \/ Settles
  BY <1>1, <1>2 DEF Opens, Settles, Others
<1>3. CASE Closes \/ Rewrites
  BY <1>1, <1>3 DEF Closes, Rewrites, Others
<1> QED
  BY <1>2, <1>3 DEF Lawful

\* A closed, cancelled or failed trade keeps its record for ever: no poll,
\* exit, sync or reconciliation of the code rewrites its fill, fees or pnl.
THEOREM TerminalFinal == Spec => TerminalTradesAreFinal
<1> DEFINE Final == \A t \in Trade : trades[t].status \in Terminal => trades'[t] = trades[t]
<1>1. IInv /\ [Next]_vars => [Final]_vars
  BY StepInv, LawfulIsFinal
<1>2. Spec => []IInv
  BY InitInv, StepInv, PTL DEF Spec
<1>3. Spec => [][Final]_vars
  BY <1>1, <1>2, PTL DEF Spec
<1> QED
  BY <1>3 DEF TerminalTradesAreFinal

status == [t \in Trade |-> trades[t].status]

\* A lawful step is one step of the lifecycle, or none.
LEMMA LawfulIsLifecycle == Lawful => Lifecycle!Next \/ status' = status
<1> SUFFICES ASSUME Lawful PROVE Lifecycle!Next \/ status' = status
  OBVIOUS
<1>1. CASE Opens
  <2>1. PICK t \in Trade : /\ trades[t].status = "none"
                          /\ trades'[t].status \in {"pending", "filled"}
                          /\ Others({t})
    BY <1>1 DEF Opens
  <2>2. PICK s \in {"pending", "filled"} : s = trades'[t].status
    BY <2>1
  <2>3. Lifecycle!Open(t, s)
    BY <2>1, <2>2 DEF Lifecycle!Open, Others
  <2> QED
    BY <2>3 DEF Lifecycle!Next, Lifecycle!Live
<1>2. CASE Settles
  <2>1. PICK t \in Trade : /\ trades[t].status = "pending"
                          /\ trades'[t].status \in {"filled", "cancelled", "failed"}
                          /\ Others({t})
    BY <1>2 DEF Settles
  <2>2. PICK s \in {"filled", "cancelled", "failed"} : s = trades'[t].status
    BY <2>1
  <2>3. Lifecycle!Settle(t, s)
    BY <2>1, <2>2 DEF Lifecycle!Settle, Lifecycle!Waiting, Others
  <2> QED
    BY <2>3 DEF Lifecycle!Next, Lifecycle!Ended
<1>3. CASE Closes
  <2>1. PICK S \in SUBSET OpenTrades : (\A t \in S : trades'[t].status = "closed") /\ Others(S)
    BY <1>3 DEF Closes
  <2>2. S \in SUBSET Trade /\ \A t \in S : trades[t].status \in {"pending", "filled"}
    BY DEF OpenTrades, IsOpen
  <2>3. Lifecycle!Close(S)
    BY <2>1, <2>2 DEF Lifecycle!Close, Lifecycle!Live, Others
  <2> QED
    BY <2>2, <2>3 DEF Lifecycle!Next
<1>4. CASE Rewrites
  BY <1>4 DEF Rewrites, Others, status
<1> QED
  BY <1>1, <1>2, <1>3, <1>4 DEF Lawful

\* The executor with its polls, exits and reconciliation implements the
\* lifecycle of models/trade.py for any number of trades and pairs.
THEOREM Refinement == Spec => FollowsLifecycle
<1>1. Init => Lifecycle!Init
  BY DEF Init, LedgerInit, NewTrade, Lifecycle!Init
<1>2. IInv /\ [Next]_vars => [Lifecycle!Next]_status
  BY StepInv, LawfulIsLifecycle
<1>3. Spec => []IInv
  BY InitInv, StepInv, PTL DEF Spec
<1>4. Spec => Lifecycle!Init /\ [][Lifecycle!Next]_status
  BY <1>1, <1>2, <1>3, PTL DEF Spec
<1> QED
  BY <1>4, PTL DEF FollowsLifecycle, Lifecycle!Spec, status

-----------------------------------------------------------------------------
(* Sums.  SumFunctionOnSet folds a set in an order CHOOSE picks; these     *)
(* lemmas say that the sum exists and does not depend on the order.        *)

Smaller(T) == (SUBSET T) \ {T}

\* What holds of a set once it holds of its smaller subsets holds of all.
LEMMA SubsetInduction ==
    ASSUME NEW S, IsFiniteSet(S), NEW G,
           \A T \in SUBSET S : Smaller(T) \subseteq G => T \in G
    PROVE  SUBSET S \subseteq G
<1> DEFINE Bad == (SUBSET S) \ G
           R == StrictSubsetOrdering(S)
<1> SUFFICES ASSUME Bad # {} PROVE FALSE
  OBVIOUS
<1>1. IsWellFoundedOn(R, SUBSET S)
  BY FS_StrictSubsetOrderingWellFounded, FS_FiniteSubsetsOfFinite
<1>2. Bad \subseteq SUBSET S
  OBVIOUS
<1>3. \E T \in Bad : \A U \in Bad : <<U, T>> \notin R
  <2> HIDE DEF Bad, R
  <2> QED
    BY <1>1, <1>2, WFMin
<1>4. PICK T \in Bad : \A U \in Bad : <<U, T>> \notin R
  BY <1>3
<1>5. \A U \in Smaller(T) : <<U, T>> \in R
  BY DEF Smaller, StrictSubsetOrdering
<1>6. Smaller(T) \subseteq G
  BY <1>4, <1>5 DEF Smaller
<1> QED
  BY <1>6

Picked(s) == CHOOSE x \in s : TRUE

\* g is the recursive function by which the fold of module Folds sums f.
Adds(f, S, g) ==
    g = [s \in SUBSET S |-> IF s = {} THEN 0 ELSE f[Picked(s)] + g[s \ {Picked(s)}]]

Adder(f, S) == CHOOSE g : Adds(f, S, g)

\* The sum is the value of that function.
LEMMA SumAdder == ASSUME NEW f, NEW S PROVE SumFunctionOnSet(f, S) = Adder(f, S)[S]
BY DEF SumFunctionOnSet, FoldFunctionOnSet, MapThenFoldSet, Adder, Adds, Picked

\* CHOOSE picks a member.
LEMMA PickedIn == ASSUME NEW s, s # {} PROVE Picked(s) \in s
BY DEF Picked

\* Two such functions agree where both are defined.
LEMMA AddsAgree ==
    ASSUME NEW f, NEW S, IsFiniteSet(S), NEW T \in SUBSET S, NEW g, NEW h,
           Adds(f, S, g), Adds(f, T, h)
    PROVE  \A U \in SUBSET T : g[U] = h[U]
<1> DEFINE G == {U \in SUBSET T : g[U] = h[U]}
<1>1. IsFiniteSet(T)
  BY FS_Subset
<1>2. ASSUME NEW U \in SUBSET T, Smaller(U) \subseteq G
      PROVE  U \in G
  <2>1. U \in SUBSET S
    OBVIOUS
  <2>2. g[U] = IF U = {} THEN 0 ELSE f[Picked(U)] + g[U \ {Picked(U)}]
    BY <2>1 DEF Adds
  <2>3. h[U] = IF U = {} THEN 0 ELSE f[Picked(U)] + h[U \ {Picked(U)}]
    BY DEF Adds
  <2>4. U # {} => U \ {Picked(U)} \in Smaller(U)
    BY PickedIn DEF Smaller
  <2> QED
    BY <1>2, <2>2, <2>3, <2>4
<1>3. SUBSET T \subseteq G
  <2> HIDE DEF G
  <2> QED
    BY <1>1, <1>2, SubsetInduction
<1> QED
  BY <1>3

\* Such a function exists for every finite set.
LEMMA AdderAdds ==
    ASSUME NEW f, NEW S, IsFiniteSet(S)
    PROVE  Adds(f, S, Adder(f, S))
<1> DEFINE G == {T \in SUBSET S : Adds(f, T, Adder(f, T))}
<1>1. ASSUME NEW T \in SUBSET S, Smaller(T) \subseteq G
      PROVE  T \in G
  <2> DEFINE I(u) == Adder(f, u)[u]
             h == [s \in SUBSET T |-> IF s = {} THEN 0 ELSE f[Picked(s)] + I(s \ {Picked(s)})]
  <2>1. ASSUME NEW u \in Smaller(T)
        PROVE  h[u] = I(u)
    <3>1. Adds(f, u, Adder(f, u)) /\ u \in SUBSET T /\ IsFiniteSet(u)
      BY <1>1, FS_Subset DEF Smaller
    <3>2. I(u) = IF u = {} THEN 0 ELSE f[Picked(u)] + Adder(f, u)[u \ {Picked(u)}]
      BY <3>1 DEF Adds
    <3>3. ASSUME u # {}
          PROVE  Adder(f, u)[u \ {Picked(u)}] = I(u \ {Picked(u)})
      <4> DEFINE v == u \ {Picked(u)}
      <4>1. v \in Smaller(T) /\ v \in SUBSET u
        BY PickedIn, <3>3 DEF Smaller
      <4>2. Adds(f, v, Adder(f, v))
        BY <1>1, <4>1
      <4> HIDE DEF v
      <4>3. \A U \in SUBSET v : Adder(f, u)[U] = Adder(f, v)[U]
        BY <3>1, <4>1, <4>2, AddsAgree
      <4> QED
        BY <4>3 DEF v
    <3>4. h[u] = IF u = {} THEN 0 ELSE f[Picked(u)] + I(u \ {Picked(u)})
      BY <3>1
    <3> HIDE DEF h, I
    <3> QED
      BY <3>2, <3>3, <3>4
  <2>2. \A s \in SUBSET T : s # {} => s \ {Picked(s)} \in Smaller(T)
    BY PickedIn DEF Smaller
  <2>3. \A s \in SUBSET T : s # {} => I(s \ {Picked(s)}) = h[s \ {Picked(s)}]
    <3> HIDE DEF h, I
    <3> QED
      BY <2>1, <2>2
  <2>4. Adds(f, T, h)
    <3> DEFINE e(g) == [s \in SUBSET T |->
                          IF s = {} THEN 0 ELSE f[Picked(s)] + g[s \ {Picked(s)}]]
    <3>1. h = e(h)
      BY <2>3
    <3> HIDE DEF h
    <3> QED
      BY <3>1 DEF Adds
  <2>5. Adds(f, T, Adder(f, T))
    <3> HIDE DEF h
    <3> QED
      BY <2>4 DEF Adder
  <2> QED
    BY <2>5
<1>2. SUBSET S \subseteq G
  <2> HIDE DEF G
  <2> QED
    BY <1>1, SubsetInduction
<1> QED
  BY <1>2

\* The recursion of the sum
LEMMA SumUnfold ==
    ASSUME NEW f, NEW S, IsFiniteSet(S)
    PROVE  SumFunctionOnSet(f, S) =
             IF S = {} THEN 0 ELSE f[Picked(S)] + SumFunctionOnSet(f, S \ {Picked(S)})
<1> DEFINE T == S \ {Picked(S)}
<1>1. Adds(f, S, Adder(f, S)) /\ Adds(f, T, Adder(f, T))
  BY AdderAdds, FS_Subset
<1>2. Adder(f, S)[S] = IF S = {} THEN 0 ELSE f[Picked(S)] + Adder(f, S)[T]
  BY <1>1 DEF Adds
<1>3. Adder(f, S)[T] = Adder(f, T)[T]
  BY <1>1, AddsAgree
<1> QED
  BY <1>2, <1>3, SumAdder

\* Nothing sums to nothing.
LEMMA SumEmpty == ASSUME NEW f PROVE SumFunctionOnSet(f, {}) = 0
BY SumUnfold, FS_EmptySet

\* A finite sum of integers is an integer.
LEMMA SumInt ==
    ASSUME NEW f, NEW S, IsFiniteSet(S), \A x \in S : f[x] \in Int
    PROVE  SumFunctionOnSet(f, S) \in Int
<1> DEFINE G == {T \in SUBSET S : SumFunctionOnSet(f, T) \in Int}
<1>1. ASSUME NEW T \in SUBSET S, Smaller(T) \subseteq G
      PROVE  T \in G
  <2>1. IsFiniteSet(T)
    BY FS_Subset
  <2>2. SumFunctionOnSet(f, T) =
          IF T = {} THEN 0 ELSE f[Picked(T)] + SumFunctionOnSet(f, T \ {Picked(T)})
    BY <2>1, SumUnfold
  <2>3. CASE T = {}
    BY <2>2, <2>3
  <2>4. CASE T # {}
    <3>1. f[Picked(T)] \in Int /\ SumFunctionOnSet(f, T \ {Picked(T)}) \in Int
      BY <1>1, <2>4, PickedIn DEF Smaller
    <3> QED
      BY <2>2, <2>4, <3>1
  <2> QED
    BY <2>3, <2>4
<1>2. SUBSET S \subseteq G
  <2> HIDE DEF G
  <2> QED
    BY <1>1, SubsetInduction
<1> QED
  BY <1>2

\* Equal terms have equal sums.
LEMMA SumSame ==
    ASSUME NEW f, NEW g, NEW S, IsFiniteSet(S), \A x \in S : f[x] = g[x]
    PROVE  SumFunctionOnSet(f, S) = SumFunctionOnSet(g, S)
<1> DEFINE G == {T \in SUBSET S : SumFunctionOnSet(f, T) = SumFunctionOnSet(g, T)}
<1>1. ASSUME NEW T \in SUBSET S, Smaller(T) \subseteq G
      PROVE  T \in G
  <2>1. IsFiniteSet(T)
    BY FS_Subset
  <2>2. T # {} => /\ Picked(T) \in T
                  /\ SumFunctionOnSet(f, T \ {Picked(T)}) = SumFunctionOnSet(g, T \ {Picked(T)})
    BY <1>1, PickedIn DEF Smaller
  <2> QED
    BY <2>1, <2>2, SumUnfold
<1>2. SUBSET S \subseteq G
  <2> HIDE DEF G
  <2> QED
    BY <1>1, SubsetInduction
<1> QED
  BY <1>2

\* Any member may be taken out of a sum first.
LEMMA SumRemove ==
    ASSUME NEW f, NEW S, IsFiniteSet(S), \A x \in S : f[x] \in Int, NEW x \in S
    PROVE  SumFunctionOnSet(f, S) = f[x] + SumFunctionOnSet(f, S \ {x})
<1> DEFINE Sum(T) == SumFunctionOnSet(f, T)
           G == {T \in SUBSET S : \A y \in T : Sum(T) = f[y] + Sum(T \ {y})}
<1>1. ASSUME NEW T \in SUBSET S, Smaller(T) \subseteq G
      PROVE  T \in G
  <2> SUFFICES ASSUME NEW y \in T PROVE Sum(T) = f[y] + Sum(T \ {y})
    OBVIOUS
  <2> DEFINE c == Picked(T)
             U == (T \ {c}) \ {y}
  <2>1. IsFiniteSet(T) /\ c \in T
    BY FS_Subset, PickedIn
  <2>2. Sum(T) = f[c] + Sum(T \ {c})
    BY <2>1, SumUnfold
  <2>3. CASE y = c
    BY <2>2, <2>3
  <2>4. CASE y # c
    <3>1. T \ {c} \in G /\ T \ {y} \in G
      BY <1>1, <2>1 DEF Smaller
    <3>2. Sum(T \ {c}) = f[y] + Sum(U)
      BY <2>4, <3>1
    <3>3. Sum(T \ {y}) = f[c] + Sum((T \ {y}) \ {c})
      BY <2>1, <2>4, <3>1
    <3>4. (T \ {y}) \ {c} = U
      OBVIOUS
    <3>5. Sum(U) \in Int
      <4>1. IsFiniteSet(U) /\ \A z \in U : f[z] \in Int
        BY <2>1, FS_Subset
      <4> QED
        BY <4>1, SumInt
    <3>6. f[c] \in Int /\ f[y] \in Int
      BY <2>1
    <3>7. f[c] + (f[y] + Sum(U)) = f[y] + (f[c] + Sum(U))
      BY <3>5, <3>6
    <3> QED
      BY <2>2, <3>2, <3>3, <3>4, <3>7
  <2> QED
    BY <2>3, <2>4
<1>2. SUBSET S \subseteq G
  <2> HIDE DEF G
  <2> QED
    BY <1>1, SubsetInduction
<1> QED
  BY <1>2

\* What x adds to the sum of f over S
Term(f, S, x) == IF x \in S THEN f[x] ELSE 0

\* A sum is one term and the sum of the others.
LEMMA SumSplit ==
    ASSUME NEW f, NEW S, IsFiniteSet(S), \A y \in S : f[y] \in Int, NEW x
    PROVE  /\ SumFunctionOnSet(f, S) = Term(f, S, x) + SumFunctionOnSet(f, S \ {x})
           /\ SumFunctionOnSet(f, S) \in Int /\ SumFunctionOnSet(f, S \ {x}) \in Int
           /\ Term(f, S, x) \in Int
<1>1. SumFunctionOnSet(f, S) \in Int
  BY SumInt
<1>2. IsFiniteSet(S \ {x}) /\ \A y \in S \ {x} : f[y] \in Int
  BY FS_Subset
<1>3. SumFunctionOnSet(f, S \ {x}) \in Int
  BY <1>2, SumInt
<1>4. CASE x \in S
  BY <1>1, <1>3, <1>4, SumRemove DEF Term
<1>5. CASE x \notin S
  <2>1. S \ {x} = S /\ Term(f, S, x) = 0
    BY <1>5 DEF Term
  <2>2. SumFunctionOnSet(f, S) = SumFunctionOnSet(f, S \ {x})
    BY <2>1
  <2> QED
    BY <1>1, <1>3, <2>1, <2>2
<1> QED
  BY <1>4, <1>5

\* Two finite sums of integers that differ in the term of x at most
OneTermMoves(f, S, g, T, x) ==
    /\ IsFiniteSet(S) /\ IsFiniteSet(T)
    /\ S \ {x} = T \ {x}
    /\ \A y \in S : f[y] \in Int
    /\ \A y \in T : g[y] \in Int
    /\ \A y \in S \ {x} : f[y] = g[y]

\* ... differ by the difference of that term.
LEMMA SumMoves ==
    ASSUME NEW f, NEW g, NEW S, NEW T, NEW x, OneTermMoves(f, S, g, T, x)
    PROVE  /\ SumFunctionOnSet(g, T) = SumFunctionOnSet(f, S) - Term(f, S, x) + Term(g, T, x)
           /\ SumFunctionOnSet(f, S) \in Int /\ SumFunctionOnSet(g, T) \in Int
           /\ Term(f, S, x) \in Int /\ Term(g, T, x) \in Int
<1>1. SumFunctionOnSet(f, S \ {x}) = SumFunctionOnSet(g, T \ {x})
  <2>1. IsFiniteSet(S \ {x}) /\ \A y \in S \ {x} : f[y] = g[y]
    BY FS_Subset DEF OneTermMoves
  <2>2. SumFunctionOnSet(f, S \ {x}) = SumFunctionOnSet(g, S \ {x})
    BY <2>1, SumSame
  <2> QED
    BY <2>2 DEF OneTermMoves
<1>2. /\ SumFunctionOnSet(f, S) = Term(f, S, x) + SumFunctionOnSet(f, S \ {x})
      /\ SumFunctionOnSet(f, S) \in Int /\ SumFunctionOnSet(f, S \ {x}) \in Int
      /\ Term(f, S, x) \in Int
  <2>1. IsFiniteSet(S) /\ \A y \in S : f[y] \in Int
    BY DEF OneTermMoves
  <2> QED
    BY <2>1, SumSplit
<1>3. /\ SumFunctionOnSet(g, T) = Term(g, T, x) + SumFunctionOnSet(g, T \ {x})
      /\ SumFunctionOnSet(g, T) \in Int /\ SumFunctionOnSet(g, T \ {x}) \in Int
      /\ Term(g, T, x) \in Int
  <2>1. IsFiniteSet(T) /\ \A y \in T : g[y] \in Int
    BY DEF OneTermMoves
  <2> QED
    BY <2>1, SumSplit
<1> QED
  BY <1>1, <1>2, <1>3

-----------------------------------------------------------------------------
(* The books: what ledger and exchange owe each other, trade by trade      *)

\* What the exchange reports of an order is possible.
OrderSound(o) ==
    /\ o.filled >= 0
    /\ o.filled = 0 => o.fee = 0
    /\ o.st = "filled" => o.filled > 0
    /\ o.st # "none" => o.qty > 0 /\ o.want > 0 /\ o.price > 0
    /\ o.st = "open" /\ o.kind = "limit" => o.filled < o.qty
    /\ o.st = "none" => o.filled = 0

\* A pending trade says what its order says, and nothing of a fill.
Mirrors(t) ==
    trades[t].status = "pending" =>
        /\ trades[t].action = orders[t].side /\ trades[t].pair = orders[t].pair
        /\ trades[t].pair \in tracked
        /\ trades[t].qty > 0 /\ trades[t].fqty \in {Unset, trades[t].qty}
        /\ trades[t].fprice \in {Unset, trades[t].price}

Watched(t) == orders[t].st = "open" => t \in verifying \/ trades[t].status = "pending"

AllPending == {t \in Trade : trades[t].status = "pending"}
AllFilled == {t \in Trade : trades[t].status = "filled"}
AllClosed == {t \in Trade : trades[t].status = "closed"}
Verified(p) == {t \in verifying : orders[t].pair = p}

\* What a filled trade has cost and not yet returned, and what a closed one made
AtStake == [t \in Trade |-> Sign(trades[t]) * Value(trades[t]) + trades[t].fees]
Made == [t \in Trade |-> trades[t].pnl]

PosTotal(p) == SumFunctionOnSet(ToCome, Pending(p)) - SumFunctionOnSet(Unbooked, Verified(p))
CashTotal == SumFunctionOnSet(Overdrawn, AllPending) + SumFunctionOnSet(Spent, verifying)
PnlTotal == SumFunctionOnSet(Made, AllClosed) - SumFunctionOnSet(Spent, AllPending)
            - SumFunctionOnSet(Spent, verifying) - SumFunctionOnSet(AtStake, AllFilled)

\* One trade's share of each of them
PosPartOf(p, t) ==
    (IF trades[t].status = "pending" /\ trades[t].pair = p
     THEN Sign(trades[t]) * trades[t].qty - Moved(t) ELSE 0)
    - (IF t \in verifying /\ orders[t].pair = p THEN Moved(t) ELSE 0)
CashPartOf(t) ==
    (IF trades[t].status = "pending" THEN Paid(t) - Sign(trades[t]) * Value(trades[t]) ELSE 0)
    + (IF t \in verifying THEN Paid(t) ELSE 0)
PnlPartOf(t) ==
    (IF trades[t].status = "closed" THEN trades[t].pnl ELSE 0)
    - (IF trades[t].status = "pending" THEN Paid(t) ELSE 0)
    - (IF t \in verifying THEN Paid(t) ELSE 0)
    - (IF trades[t].status = "filled"
       THEN Sign(trades[t]) * Value(trades[t]) + trades[t].fees ELSE 0)

PositionsBalance == \A p \in Pair : positions[p] = base[p] + PosTotal(p)
CashBalances == cash = quote + unbookedFees + CashTotal
PnlBalances == quote = InitialCash + tierPnl + PnlTotal

\* What holds until one of the listed causes strikes
Exact ==
    /\ \A t \in Trade : Watched(t) /\ Mirrors(t)
    /\ \A p \in Pair \ tracked : positions[p] = 0
    /\ PositionsBalance /\ CashBalances /\ PnlBalances

Books ==
    /\ \A t \in Trade : OrderSound(orders[t])
    /\ diverged = {} => Exact

\* A step that touches one trade and its order only
OnlyAt(t) ==
    \A u \in Trade \ {t} : /\ trades'[u] = trades[u] /\ orders'[u] = orders[u]
                           /\ (u \in verifying') = (u \in verifying)

TermsTyped ==
    \A t \in Trade : /\ Moved(t) \in Int /\ Paid(t) \in Int
                      /\ Sign(trades[t]) * trades[t].qty \in Int
                      /\ Sign(trades[t]) * Value(trades[t]) \in Int
                      /\ trades[t].fees \in Int /\ trades[t].pnl \in Int

\* The terms of the sums are integers, in every typed state,
LEMMA TermsAreInt == ExecutionTypeOK => TermsTyped
<1> SUFFICES ASSUME ExecutionTypeOK, NEW t \in Trade
             PROVE  /\ Moved(t) \in Int /\ Paid(t) \in Int
                    /\ Sign(trades[t]) * trades[t].qty \in Int
                    /\ Sign(trades[t]) * Value(trades[t]) \in Int
                    /\ trades[t].fees \in Int /\ trades[t].pnl \in Int
  BY DEF TermsTyped
<1>1. orders[t].filled \in Int /\ orders[t].price \in Int /\ orders[t].fee \in Int
  BY DEF ExecutionTypeOK, Order
<1>2. trades[t] \in TradeRecord
  BY DEF ExecutionTypeOK, LedgerTypeOK
<1>3. /\ Value(trades[t]) \in Int /\ Sign(trades[t]) \in Int /\ trades[t].qty \in Int
      /\ trades[t].fees \in Int
  BY <1>2, TradeNumbers
<1>4. Moved(t) \in Int
  BY <1>1 DEF Moved
<1>5. Moved(t) * orders[t].price \in Int
  BY <1>1, <1>4
<1>6. trades[t].pnl \in Int
  BY <1>2 DEF TradeRecord
<1> QED
  BY <1>1, <1>3, <1>4, <1>5, <1>6 DEF Paid

\* ... and finitely many.
LEMMA TradeSets ==
    ASSUME NEW S \in SUBSET Trade
    PROVE  IsFiniteSet(S)
<1>1. IsFiniteSet(Trade)
  BY LedgerAssumption, FS_Interval DEF Trade, LedgerAssumption
<1> QED
  BY <1>1, FS_Subset

\* Two sums over trades that differ in one term at most
OneTermApart(f, S, g, T, t) ==
    /\ \A u \in Trade : f[u] \in Int /\ g[u] \in Int
    /\ S \in SUBSET Trade /\ T \in SUBSET Trade
    /\ S \ {t} = T \ {t}
    /\ \A u \in Trade \ {t} : f[u] = g[u]

\* ... differ by the difference of that term.
LEMMA TradeSumMoves ==
    ASSUME NEW f, NEW g, NEW S, NEW T, NEW t, OneTermApart(f, S, g, T, t)
    PROVE  /\ SumFunctionOnSet(g, T) = SumFunctionOnSet(f, S) - Term(f, S, t) + Term(g, T, t)
           /\ SumFunctionOnSet(f, S) \in Int /\ SumFunctionOnSet(g, T) \in Int
           /\ Term(f, S, t) \in Int /\ Term(g, T, t) \in Int
<1>1. IsFiniteSet(S) /\ IsFiniteSet(T)
  BY TradeSets DEF OneTermApart
<1>2. OneTermMoves(f, S, g, T, t)
  BY <1>1 DEF OneTermApart, OneTermMoves
<1> QED
  BY <1>2, SumMoves

\* What a step on one trade leaves of the sets and the terms.
LEMMA OthersStay ==
    ASSUME ExecutionTypeOK, ExecutionTypeOK', NEW t \in Trade, OnlyAt(t)
    PROVE  /\ \A u \in Trade \ {t} :
                 /\ ToCome[u] = ToCome'[u] /\ Unbooked[u] = Unbooked'[u]
                 /\ Overdrawn[u] = Overdrawn'[u] /\ Spent[u] = Spent'[u]
                 /\ Made[u] = Made'[u] /\ AtStake[u] = AtStake'[u]
           /\ \A u \in Trade :
                 /\ ToCome[u] \in Int /\ ToCome'[u] \in Int
                 /\ Unbooked[u] \in Int /\ Unbooked'[u] \in Int
                 /\ Overdrawn[u] \in Int /\ Overdrawn'[u] \in Int
                 /\ Spent[u] \in Int /\ Spent'[u] \in Int
                 /\ Made[u] \in Int /\ Made'[u] \in Int
                 /\ AtStake[u] \in Int /\ AtStake'[u] \in Int
           /\ verifying \in SUBSET Trade /\ verifying' \in SUBSET Trade
           /\ verifying \ {t} = verifying' \ {t}
           /\ AllPending \ {t} = AllPending' \ {t}
           /\ AllFilled \ {t} = AllFilled' \ {t}
           /\ AllClosed \ {t} = AllClosed' \ {t}
           /\ \A p \in Pair : /\ Pending(p) \ {t} = Pending(p)' \ {t}
                               /\ Verified(p) \ {t} = Verified(p)' \ {t}
<1>1. \A u \in Trade \ {t} :
        /\ ToCome[u] = ToCome'[u] /\ Unbooked[u] = Unbooked'[u]
        /\ Overdrawn[u] = Overdrawn'[u] /\ Spent[u] = Spent'[u]
        /\ Made[u] = Made'[u] /\ AtStake[u] = AtStake'[u]
  BY DEF OnlyAt, ToCome, Unbooked, Overdrawn, Spent, Made, AtStake, Moved, Paid
<1>2. TermsTyped
  BY TermsAreInt
<1>3. TermsTyped'
  BY TermsAreInt, PTL
<1>4. \A u \in Trade :
        /\ ToCome[u] \in Int /\ Unbooked[u] \in Int /\ Overdrawn[u] \in Int
        /\ Spent[u] \in Int /\ Made[u] \in Int /\ AtStake[u] \in Int
  BY <1>2 DEF TermsTyped, ToCome, Unbooked, Overdrawn, Spent, Made, AtStake
<1>5. \A u \in Trade :
        /\ ToCome'[u] \in Int /\ Unbooked'[u] \in Int /\ Overdrawn'[u] \in Int
        /\ Spent'[u] \in Int /\ Made'[u] \in Int /\ AtStake'[u] \in Int
  BY <1>3 DEF TermsTyped, ToCome, Unbooked, Overdrawn, Spent, Made, AtStake
<1>6. verifying \in SUBSET Trade /\ verifying' \in SUBSET Trade
  BY DEF ExecutionTypeOK
<1>7. verifying \ {t} = verifying' \ {t}
  BY <1>6 DEF OnlyAt
<1>8. /\ AllPending \ {t} = AllPending' \ {t}
      /\ AllFilled \ {t} = AllFilled' \ {t}
      /\ AllClosed \ {t} = AllClosed' \ {t}
  BY DEF OnlyAt, AllPending, AllFilled, AllClosed
<1>9. \A p \in Pair : /\ Pending(p) \ {t} = Pending(p)' \ {t}
                      /\ Verified(p) \ {t} = Verified(p)' \ {t}
  BY <1>6 DEF OnlyAt, Pending, Verified
<1> QED
  BY <1>1, <1>4, <1>5, <1>6, <1>7, <1>8, <1>9

\* The totals move by the share of the one trade that moves.
LEMMA PosTotalMoves ==
    ASSUME ExecutionTypeOK, ExecutionTypeOK', NEW t \in Trade, OnlyAt(t), NEW p \in Pair
    PROVE  /\ PosTotal(p)' = PosTotal(p) - PosPartOf(p, t) + PosPartOf(p, t)'
           /\ PosTotal(p) \in Int /\ PosPartOf(p, t) \in Int /\ PosPartOf(p, t)' \in Int
<1> DEFINE S == Pending(p)
           T == Pending(p)'
           f == ToCome
           g == ToCome'
           U == Verified(p)
           V == Verified(p)'
           m == Unbooked
           k == Unbooked'
<1>1. /\ S \in SUBSET Trade /\ T \in SUBSET Trade
      /\ U \in SUBSET Trade /\ V \in SUBSET Trade
  BY DEF Pending, Verified, ExecutionTypeOK
<1>2. \A u \in Trade : f[u] \in Int /\ g[u] \in Int /\ m[u] \in Int /\ k[u] \in Int
  BY OthersStay
<1>3. /\ S \ {t} = T \ {t} /\ U \ {t} = V \ {t}
      /\ \A u \in Trade \ {t} : f[u] = g[u] /\ m[u] = k[u]
  BY OthersStay
<1>4. PosTotal(p) = SumFunctionOnSet(f, S) - SumFunctionOnSet(m, U)
  BY DEF PosTotal
<1>5. PosTotal(p)' = SumFunctionOnSet(g, T) - SumFunctionOnSet(k, V)
  BY DEF PosTotal
<1>6. PosPartOf(p, t) = Term(f, S, t) - Term(m, U, t)
  BY DEF PosPartOf, Term, Pending, Verified, ToCome, Unbooked
<1>7. PosPartOf(p, t)' = Term(g, T, t) - Term(k, V, t)
  BY DEF PosPartOf, Term, Pending, Verified, ToCome, Unbooked
<1> HIDE DEF f, g, m, k, S, T, U, V
<1>8. /\ SumFunctionOnSet(g, T) = SumFunctionOnSet(f, S) - Term(f, S, t) + Term(g, T, t)
      /\ SumFunctionOnSet(f, S) \in Int /\ SumFunctionOnSet(g, T) \in Int
      /\ Term(f, S, t) \in Int /\ Term(g, T, t) \in Int
  <2>1. OneTermApart(f, S, g, T, t)
    BY <1>1, <1>2, <1>3 DEF OneTermApart
  <2> QED
    BY <2>1, TradeSumMoves
<1>9. /\ SumFunctionOnSet(k, V) = SumFunctionOnSet(m, U) - Term(m, U, t) + Term(k, V, t)
      /\ SumFunctionOnSet(m, U) \in Int /\ SumFunctionOnSet(k, V) \in Int
      /\ Term(m, U, t) \in Int /\ Term(k, V, t) \in Int
  <2>1. OneTermApart(m, U, k, V, t)
    BY <1>1, <1>2, <1>3 DEF OneTermApart
  <2> QED
    BY <2>1, TradeSumMoves
<1> QED
  BY <1>4, <1>5, <1>6, <1>7, <1>8, <1>9

\* ... in cash,
LEMMA CashTotalMoves ==
    ASSUME ExecutionTypeOK, ExecutionTypeOK', NEW t \in Trade, OnlyAt(t)
    PROVE  /\ CashTotal' = CashTotal - CashPartOf(t) + CashPartOf(t)'
           /\ CashTotal \in Int /\ CashPartOf(t) \in Int /\ CashPartOf(t)' \in Int
<1> DEFINE S == AllPending
           T == AllPending'
           f == Overdrawn
           g == Overdrawn'
           U == verifying
           V == verifying'
           m == Spent
           k == Spent'
<1>1. /\ S \in SUBSET Trade /\ T \in SUBSET Trade
      /\ U \in SUBSET Trade /\ V \in SUBSET Trade
  BY DEF AllPending, ExecutionTypeOK
<1>2. \A u \in Trade : f[u] \in Int /\ g[u] \in Int /\ m[u] \in Int /\ k[u] \in Int
  BY OthersStay
<1>3. /\ S \ {t} = T \ {t} /\ U \ {t} = V \ {t}
      /\ \A u \in Trade \ {t} : f[u] = g[u] /\ m[u] = k[u]
  BY OthersStay
<1>4. CashTotal = SumFunctionOnSet(f, S) + SumFunctionOnSet(m, U)
  BY DEF CashTotal
<1>5. CashTotal' = SumFunctionOnSet(g, T) + SumFunctionOnSet(k, V)
  BY DEF CashTotal
<1>6. CashPartOf(t) = Term(f, S, t) + Term(m, U, t)
  BY DEF CashPartOf, Term, AllPending, Overdrawn, Spent
<1>7. CashPartOf(t)' = Term(g, T, t) + Term(k, V, t)
  BY DEF CashPartOf, Term, AllPending, Overdrawn, Spent
<1> HIDE DEF f, g, m, k, S, T, U, V
<1>8. /\ SumFunctionOnSet(g, T) = SumFunctionOnSet(f, S) - Term(f, S, t) + Term(g, T, t)
      /\ SumFunctionOnSet(f, S) \in Int /\ SumFunctionOnSet(g, T) \in Int
      /\ Term(f, S, t) \in Int /\ Term(g, T, t) \in Int
  <2>1. OneTermApart(f, S, g, T, t)
    BY <1>1, <1>2, <1>3 DEF OneTermApart
  <2> QED
    BY <2>1, TradeSumMoves
<1>9. /\ SumFunctionOnSet(k, V) = SumFunctionOnSet(m, U) - Term(m, U, t) + Term(k, V, t)
      /\ SumFunctionOnSet(m, U) \in Int /\ SumFunctionOnSet(k, V) \in Int
      /\ Term(m, U, t) \in Int /\ Term(k, V, t) \in Int
  <2>1. OneTermApart(m, U, k, V, t)
    BY <1>1, <1>2, <1>3 DEF OneTermApart
  <2> QED
    BY <2>1, TradeSumMoves
<1> QED
  BY <1>4, <1>5, <1>6, <1>7, <1>8, <1>9

\* ... and in profit.
LEMMA PnlTotalMoves ==
    ASSUME ExecutionTypeOK, ExecutionTypeOK', NEW t \in Trade, OnlyAt(t)
    PROVE  /\ PnlTotal' = PnlTotal - PnlPartOf(t) + PnlPartOf(t)'
           /\ PnlTotal \in Int /\ PnlPartOf(t) \in Int /\ PnlPartOf(t)' \in Int
<1> DEFINE C == AllClosed
           D == AllClosed'
           F == AllFilled
           G == AllFilled'
           S == AllPending
           T == AllPending'
           U == verifying
           V == verifying'
           c == Made
           d == Made'
           f == AtStake
           g == AtStake'
           m == Spent
           k == Spent'
<1>1. /\ C \in SUBSET Trade /\ D \in SUBSET Trade /\ F \in SUBSET Trade /\ G \in SUBSET Trade
      /\ S \in SUBSET Trade /\ T \in SUBSET Trade /\ U \in SUBSET Trade /\ V \in SUBSET Trade
  BY DEF AllClosed, AllFilled, AllPending, ExecutionTypeOK
<1>2. \A u \in Trade : /\ c[u] \in Int /\ d[u] \in Int /\ f[u] \in Int /\ g[u] \in Int
                       /\ m[u] \in Int /\ k[u] \in Int
  BY OthersStay
<1>3. /\ C \ {t} = D \ {t} /\ F \ {t} = G \ {t} /\ S \ {t} = T \ {t} /\ U \ {t} = V \ {t}
      /\ \A u \in Trade \ {t} : c[u] = d[u] /\ f[u] = g[u] /\ m[u] = k[u]
  BY OthersStay
<1>4. PnlTotal = SumFunctionOnSet(c, C) - SumFunctionOnSet(m, S) - SumFunctionOnSet(m, U)
                 - SumFunctionOnSet(f, F)
  BY DEF PnlTotal
<1>5. PnlTotal' = SumFunctionOnSet(d, D) - SumFunctionOnSet(k, T) - SumFunctionOnSet(k, V)
                  - SumFunctionOnSet(g, G)
  BY DEF PnlTotal
<1>6. PnlPartOf(t) = Term(c, C, t) - Term(m, S, t) - Term(m, U, t) - Term(f, F, t)
  BY DEF PnlPartOf, Term, AllClosed, AllFilled, AllPending, Made, Spent, AtStake
<1>7. PnlPartOf(t)' = Term(d, D, t) - Term(k, T, t) - Term(k, V, t) - Term(g, G, t)
  BY DEF PnlPartOf, Term, AllClosed, AllFilled, AllPending, Made, Spent, AtStake
<1> HIDE DEF C, D, F, G, S, T, U, V, c, d, f, g, m, k
<1>8. /\ SumFunctionOnSet(d, D) = SumFunctionOnSet(c, C) - Term(c, C, t) + Term(d, D, t)
      /\ SumFunctionOnSet(c, C) \in Int /\ SumFunctionOnSet(d, D) \in Int
      /\ Term(c, C, t) \in Int /\ Term(d, D, t) \in Int
  <2>1. OneTermApart(c, C, d, D, t)
    BY <1>1, <1>2, <1>3 DEF OneTermApart
  <2> QED
    BY <2>1, TradeSumMoves
<1>9. /\ SumFunctionOnSet(k, T) = SumFunctionOnSet(m, S) - Term(m, S, t) + Term(k, T, t)
      /\ SumFunctionOnSet(m, S) \in Int /\ SumFunctionOnSet(k, T) \in Int
      /\ Term(m, S, t) \in Int /\ Term(k, T, t) \in Int
  <2>1. OneTermApart(m, S, k, T, t)
    BY <1>1, <1>2, <1>3 DEF OneTermApart
  <2> QED
    BY <2>1, TradeSumMoves
<1>10. /\ SumFunctionOnSet(k, V) = SumFunctionOnSet(m, U) - Term(m, U, t) + Term(k, V, t)
       /\ SumFunctionOnSet(m, U) \in Int /\ SumFunctionOnSet(k, V) \in Int
       /\ Term(m, U, t) \in Int /\ Term(k, V, t) \in Int
  <2>1. OneTermApart(m, U, k, V, t)
    BY <1>1, <1>2, <1>3 DEF OneTermApart
  <2> QED
    BY <2>1, TradeSumMoves
<1>11. /\ SumFunctionOnSet(g, G) = SumFunctionOnSet(f, F) - Term(f, F, t) + Term(g, G, t)
       /\ SumFunctionOnSet(f, F) \in Int /\ SumFunctionOnSet(g, G) \in Int
       /\ Term(f, F, t) \in Int /\ Term(g, G, t) \in Int
  <2>1. OneTermApart(f, F, g, G, t)
    BY <1>1, <1>2, <1>3 DEF OneTermApart
  <2> QED
    BY <2>1, TradeSumMoves
<1> QED
  BY <1>4, <1>5, <1>6, <1>7, <1>8, <1>9, <1>10, <1>11

-----------------------------------------------------------------------------
(* What keeps the books exact *)

\* What ledger and exchange differ by without the trade t
PosRest(p, t) == positions[p] - base[p] - PosPartOf(p, t)
CashRest(t) == cash - quote - unbookedFees - CashPartOf(t)
PnlRest(t) == quote - tierPnl - PnlPartOf(t)

\* A step on the trade t changes the books by what it changes in t.
Balanced(t) ==
    /\ \A p \in Pair : PosRest(p, t)' = PosRest(p, t)
    /\ CashRest(t)' = CashRest(t)
    /\ PnlRest(t)' = PnlRest(t)

\* A position changes only together with its key.
KeysKept ==
    /\ tracked \subseteq tracked'
    /\ \A p \in Pair \ tracked' : positions'[p] = positions[p]

\* Such a step keeps the books exact.
LEMMA ExactMoves ==
    ASSUME ExecutionTypeOK, ExecutionTypeOK', NEW t \in Trade, OnlyAt(t),
           Exact, KeysKept, Watched(t)', Mirrors(t)', Balanced(t)
    PROVE  Exact'
<1>1. ASSUME NEW u \in Trade PROVE Watched(u)' /\ Mirrors(u)'
  <2>1. CASE u = t
    BY <2>1
  <2>2. CASE u # t
    BY <2>2 DEF Exact, OnlyAt, KeysKept, Watched, Mirrors
  <2> QED
    BY <2>1, <2>2
<1>2. \A p \in Pair \ tracked' : positions'[p] = 0
  BY DEF Exact, KeysKept
<1>3. ASSUME NEW p \in Pair PROVE positions'[p] = base'[p] + PosTotal(p)'
  <2>1. positions[p] \in Int /\ base[p] \in Int /\ positions'[p] \in Int /\ base'[p] \in Int
    BY DEF ExecutionTypeOK, LedgerTypeOK
  <2>2. /\ PosTotal(p)' = PosTotal(p) - PosPartOf(p, t) + PosPartOf(p, t)'
        /\ PosTotal(p) \in Int /\ PosPartOf(p, t) \in Int /\ PosPartOf(p, t)' \in Int
    BY PosTotalMoves
  <2>3. positions[p] = base[p] + PosTotal(p)
    BY DEF Exact, PositionsBalance
  <2>4. positions'[p] - base'[p] - PosPartOf(p, t)' = positions[p] - base[p] - PosPartOf(p, t)
    BY DEF Balanced, PosRest
  <2> QED
    BY <2>1, <2>2, <2>3, <2>4
<1>4. cash' = quote' + unbookedFees' + CashTotal'
  <2>1. /\ cash \in Int /\ quote \in Int /\ unbookedFees \in Int
        /\ cash' \in Int /\ quote' \in Int /\ unbookedFees' \in Int
    BY DEF ExecutionTypeOK, LedgerTypeOK
  <2>2. /\ CashTotal' = CashTotal - CashPartOf(t) + CashPartOf(t)'
        /\ CashTotal \in Int /\ CashPartOf(t) \in Int /\ CashPartOf(t)' \in Int
    BY CashTotalMoves
  <2>3. cash = quote + unbookedFees + CashTotal
    BY DEF Exact, CashBalances
  <2>4. cash' - quote' - unbookedFees' - CashPartOf(t)'
          = cash - quote - unbookedFees - CashPartOf(t)
    BY DEF Balanced, CashRest
  <2> QED
    BY <2>1, <2>2, <2>3, <2>4
<1>5. quote' = InitialCash + tierPnl' + PnlTotal'
  <2>1. /\ quote \in Int /\ tierPnl \in Int /\ quote' \in Int /\ tierPnl' \in Int
        /\ InitialCash \in Int
    BY LedgerAssumption DEF ExecutionTypeOK, LedgerAssumption
  <2>2. /\ PnlTotal' = PnlTotal - PnlPartOf(t) + PnlPartOf(t)'
        /\ PnlTotal \in Int /\ PnlPartOf(t) \in Int /\ PnlPartOf(t)' \in Int
    BY PnlTotalMoves
  <2>3. quote = InitialCash + tierPnl + PnlTotal
    BY DEF Exact, PnlBalances
  <2>4. quote' - tierPnl' - PnlPartOf(t)' = quote - tierPnl - PnlPartOf(t)
    BY DEF Balanced, PnlRest
  <2> QED
    BY <2>1, <2>2, <2>3, <2>4
<1> QED
  BY <1>1, <1>2, <1>3, <1>4, <1>5 DEF Exact, PositionsBalance, CashBalances, PnlBalances

\* So does a step that leaves trades, orders and balances alone.
LEMMA ExactStays ==
    ASSUME Exact,
           UNCHANGED <<trades, positions, tracked, cash, orders, base, quote, verifying,
                       tierPnl, unbookedFees>>
    PROVE  Exact'
<1>1. \A t \in Trade : Watched(t)' /\ Mirrors(t)'
  BY DEF Exact, Watched, Mirrors
<1>2. /\ \A p \in Pair : PosTotal(p)' = PosTotal(p)
      /\ CashTotal' = CashTotal /\ PnlTotal' = PnlTotal
  BY DEF PosTotal, CashTotal, PnlTotal, Pending, Verified, AllPending, AllFilled, AllClosed,
         ToCome, Unbooked, Overdrawn, Spent, Made, AtStake, Moved, Paid
<1> QED
  BY <1>1, <1>2 DEF Exact, PositionsBalance, CashBalances, PnlBalances

\* A verified trade has no record yet; a recorded one is not verified.
LEMMA Unrecorded ==
    ASSUME IInv, NEW t \in Trade
    PROVE  /\ t \in verifying => trades[t].status = "none"
           /\ orders[t].st = "none" => trades[t].status = "none" /\ t \notin verifying
BY DEF IInv, Linked

\* The numbers of an order are integers.
LEMMA OrderNumbers ==
    ASSUME ExecutionTypeOK, NEW t \in Trade
    PROVE  /\ orders[t].qty \in Int /\ orders[t].price \in Int /\ orders[t].plan \in Int
           /\ orders[t].want \in Int
           /\ orders[t].filled \in Int /\ orders[t].fee \in Int
           /\ orders[t].pair \in Pair /\ orders[t].side \in Action
           /\ orders[t].st \in OrderState /\ orders[t].kind \in {"limit", "market"}
           /\ orders[t] \in Order
           /\ positions \in [Pair -> Int] /\ base \in [Pair -> Int]
           /\ cash \in Int /\ quote \in Int /\ unbookedFees \in Int /\ tierPnl \in Int
           /\ tracked \subseteq Pair
BY DEF ExecutionTypeOK, LedgerTypeOK, Order

-----------------------------------------------------------------------------
(* Placing and recording orders *)

\* A resting limit buy reserves its cost and promises its units.
LEMMA LimitBuyExact ==
    ASSUME IInv, IInv', Exact, NEW t \in Trade, NEW p \in Pair, NEW x \in Price,
           PlaceLimitBuy(t, p, x), diverged' = {}
    PROVE  Exact'
<1> DEFINE qty == Spend \div x
           tr == NewTrade("pending", "buy", p, qty, x)
           o == NewOrder("open", "limit", "buy", p, x, qty)
<1>1. x \in Int /\ x > 0 /\ qty \in Int
  BY SpendQty, ExecutionAssumption DEF ExecutionAssumption
<1>2. /\ orders[t].st = "none" /\ qty > 0 /\ AddTrade(t, tr)
      /\ orders' = [orders EXCEPT ![t] = o]
      /\ UNCHANGED <<base, quote, verifying, tierPnl, unbookedFees>>
  BY DEF PlaceLimitBuy, Fresh, Diverge
<1>3. ExecutionTypeOK /\ ExecutionTypeOK'
  BY DEF IInv
<1>4. trades[t].status = "none" /\ t \notin verifying
  BY <1>2, Unrecorded
<1>5. /\ tr.status = "pending" /\ tr.action = "buy" /\ tr.pair = p /\ tr.qty = qty
      /\ tr.price = x /\ tr.fqty = Unset /\ tr.fprice = Unset
      /\ Sign(tr) = 1 /\ Value(tr) = x * qty
  BY <1>1 DEF NewTrade, Sign, Value, Entry, Held, Or, Unset
<1>6. /\ o.st = "open" /\ o.side = "buy" /\ o.pair = p /\ o.filled = 0 /\ o.price = x
      /\ o.fee = 0
  BY DEF NewOrder
<1> HIDE DEF tr, o, qty
<1>7. OnlyAt(t) /\ trades'[t] = tr /\ orders'[t] = o /\ verifying' = verifying
  BY <1>2, <1>3 DEF OnlyAt, AddTrade, ExecutionTypeOK, LedgerTypeOK
<1>8. /\ positions' = [positions EXCEPT ![p] = @ + qty]
      /\ tracked' = tracked \cup {p}
      /\ cash' = cash - x * qty
  <2>1. Sign(tr) * qty = qty /\ Sign(tr) * Value(tr) = x * qty
    BY <1>1, <1>5
  <2> QED
    BY <2>1, <1>2, <1>5 DEF AddTrade
<1>9. KeysKept
  BY <1>3, <1>8 DEF KeysKept, ExecutionTypeOK, LedgerTypeOK
<1>10. Watched(t)' /\ Mirrors(t)'
  BY <1>2, <1>5, <1>6, <1>7, <1>8 DEF Watched, Mirrors
<1>11. Moved(t)' = 0 /\ Paid(t)' = 0
  BY <1>1, <1>6, <1>7 DEF Moved, Paid
<1>12. \A q \in Pair : /\ PosPartOf(q, t) = 0
                       /\ PosPartOf(q, t)' = IF q = p THEN qty ELSE 0
  BY <1>1, <1>4, <1>5, <1>7, <1>11 DEF PosPartOf
<1>13. CashPartOf(t) = 0 /\ CashPartOf(t)' = -(x * qty)
  BY <1>1, <1>4, <1>5, <1>7, <1>11 DEF CashPartOf
<1>14. PnlPartOf(t) = 0 /\ PnlPartOf(t)' = 0
  BY <1>4, <1>5, <1>7, <1>11 DEF PnlPartOf
<1>15. Balanced(t)
  <2>1. x * qty \in Int
    BY <1>1
  <2>2. ASSUME NEW q \in Pair PROVE PosRest(q, t)' = PosRest(q, t)
    BY <1>1, <1>2, <1>3, <1>8, <1>12, OrderNumbers DEF PosRest
  <2>3. CashRest(t)' = CashRest(t)
    BY <2>1, <1>2, <1>3, <1>8, <1>13, OrderNumbers DEF CashRest
  <2>4. PnlRest(t)' = PnlRest(t)
    BY <1>2, <1>14 DEF PnlRest
  <2> QED
    BY <2>2, <2>3, <2>4 DEF Balanced
<1> QED
  BY <1>3, <1>7, <1>9, <1>10, <1>15, ExactMoves

\* An order that awaits verification has moved nothing and is owed nothing.
LEMMA AwaitedExact ==
    ASSUME IInv, IInv', Exact, NEW t \in Trade, NEW o \in Order, o.filled = 0, o.fee = 0,
           orders[t].st = "none", orders' = [orders EXCEPT ![t] = o],
           verifying' = verifying \cup {t},
           UNCHANGED <<trades, positions, tracked, cash, base, quote, tierPnl, unbookedFees>>
    PROVE  Exact'
<1>1. ExecutionTypeOK /\ ExecutionTypeOK' /\ o.price \in Int
  BY DEF IInv, Order
<1>2. trades[t].status = "none" /\ t \notin verifying
  BY Unrecorded
<1>3. OnlyAt(t) /\ trades'[t] = trades[t] /\ orders'[t] = o
  BY <1>1 DEF OnlyAt, ExecutionTypeOK
<1>4. KeysKept
  BY DEF KeysKept
<1>5. Watched(t)' /\ Mirrors(t)'
  BY <1>2 DEF Watched, Mirrors
<1>6. Moved(t)' = 0 /\ Paid(t)' = 0
  BY <1>1, <1>3 DEF Moved, Paid
<1>7. /\ \A q \in Pair : PosPartOf(q, t) = 0 /\ PosPartOf(q, t)' = 0
      /\ CashPartOf(t) = 0 /\ CashPartOf(t)' = 0
      /\ PnlPartOf(t) = 0 /\ PnlPartOf(t)' = 0
  BY <1>2, <1>6 DEF PosPartOf, CashPartOf, PnlPartOf
<1>8. Balanced(t)
  BY <1>7 DEF Balanced, PosRest, CashRest, PnlRest
<1> QED
  BY <1>1, <1>3, <1>4, <1>5, <1>8, ExactMoves

\* A market order waits for its verification,
LEMMA MarketExact ==
    ASSUME IInv, IInv', Exact, NEW t \in Trade, NEW p \in Pair, NEW a \in Action,
           NEW x \in Price, PlaceMarket(t, p, a, x)
    PROVE  Exact'
<1> DEFINE qty == IF a = "buy" THEN Spend \div x ELSE positions[p]
           o == NewOrder("open", "market", a, p, x, qty)
<1>1. x \in Int /\ qty \in Int
  BY SpendQty DEF IInv, ExecutionTypeOK, LedgerTypeOK
<1>2. /\ orders[t].st = "none"
      /\ orders' = [orders EXCEPT ![t] = o]
      /\ verifying' = verifying \cup {t}
      /\ UNCHANGED <<trades, positions, tracked, cash, base, quote, tierPnl, unbookedFees>>
  BY DEF PlaceMarket, Fresh, ledgerVars, loopVars, ghostVars
<1>3. o \in Order
  BY <1>1, OrderTyped
<1>4. o.filled = 0 /\ o.fee = 0
  BY DEF NewOrder
<1> HIDE DEF o
<1> QED
  BY <1>2, <1>3, <1>4, AwaitedExact

\* ... and so does an unanswered limit buy.
LEMMA LimitUnansweredExact ==
    ASSUME IInv, IInv', Exact, NEW t \in Trade, NEW p \in Pair, NEW m \in Price,
           NEW x \in Price, PlaceLimitUnanswered(t, p, m, x)
    PROVE  Exact'
<1> DEFINE o == NewLimitBuy(p, m, x)
<1>1. /\ orders[t].st = "none"
      /\ orders' = [orders EXCEPT ![t] = o]
      /\ verifying' = verifying \cup {t}
      /\ UNCHANGED <<trades, positions, tracked, cash, base, quote, tierPnl, unbookedFees>>
  BY DEF PlaceLimitUnanswered, Fresh, ledgerVars, loopVars, ghostVars
<1>2. o \in Order /\ o.filled = 0 /\ o.fee = 0
  BY LimitOrderTyped
<1> HIDE DEF o
<1> QED
  BY <1>1, <1>2, AwaitedExact

\* A verified fill is booked as it was delivered and paid for, less its fee.
LEMMA RecordFilledExact ==
    ASSUME IInv, IInv', Exact, NEW t \in Trade, OrderSound(orders[t]), RecordFilled(t),
           diverged' = {}
    PROVE  Exact'
<1> DEFINE o == orders[t]
           p == o.pair
           s == IF o.side = "buy" THEN 1 ELSE -1
           tr == VerifiedTrade(t, "filled", o.price, o.filled, o.fee)
<1>1. ExecutionTypeOK /\ ExecutionTypeOK'
  BY DEF IInv
<1>2. /\ t \in verifying /\ o.st = "filled" /\ o.filled = o.want
      /\ AddTrade(t, tr)
      /\ verifying' = verifying \ {t}
      /\ unbookedFees' = unbookedFees + o.fee
      /\ UNCHANGED <<orders, base, quote, tierPnl>>
  BY DEF RecordFilled, Record, Diverge, exchangeVars
<1>3. trades[t].status = "none"
  BY <1>2, Unrecorded
<1>4. /\ o.filled \in Int /\ o.price \in Int /\ o.fee \in Int /\ p \in Pair
      /\ o.filled > 0 /\ o.price > 0 /\ o.side \in Action
  BY <1>1, <1>2, OrderNumbers DEF OrderSound
<1>5. /\ tr.status = "filled" /\ tr.pair = p /\ tr.qty = o.filled /\ tr.fees = o.fee
      /\ Sign(tr) = s /\ Value(tr) = o.price * o.filled
  BY <1>2, <1>4 DEF VerifiedTrade, NewTrade, Sign, Value, Entry, Held, Or, Unset
<1>6. OnlyAt(t) /\ trades'[t] = tr /\ orders'[t] = o
  BY <1>1, <1>2 DEF OnlyAt, AddTrade, ExecutionTypeOK, LedgerTypeOK
<1>7. Moved(t) = s * o.filled /\ Paid(t) = s * (o.price * o.filled) + o.fee
  <2>1. s * o.filled * o.price = s * (o.price * o.filled)
    BY <1>4
  <2> QED
    BY <2>1 DEF Moved, Paid
<1> DEFINE v == s * (o.price * o.filled)
           m == s * o.filled
<1>8. v \in Int /\ m \in Int
  BY <1>4
<1>9. /\ positions' = [positions EXCEPT ![p] = @ + m]
      /\ tracked' = tracked \cup {p}
      /\ cash' = cash - v
  BY <1>2, <1>5 DEF AddTrade
<1>10. /\ \A q \in Pair : /\ PosPartOf(q, t) = IF q = p THEN -m ELSE 0
                          /\ PosPartOf(q, t)' = 0
       /\ CashPartOf(t) = v + o.fee /\ CashPartOf(t)' = 0
       /\ PnlPartOf(t) = -(v + o.fee) /\ PnlPartOf(t)' = -(v + o.fee)
  <2> HIDE DEF s, tr
  <2>1. Sign(tr) * Value(tr) = v
    BY <1>5
  <2> HIDE DEF v, m
  <2>2. t \notin verifying' /\ trades'[t].status = "filled"
    BY <1>2, <1>5, <1>6
  <2>3. Moved(t) = m /\ Paid(t) = v + o.fee
    BY <1>7 DEF v, m
  <2>4. \A q \in Pair : PosPartOf(q, t) = IF q = p THEN -m ELSE 0
    BY <2>3, <1>2, <1>3, <1>8 DEF PosPartOf
  <2>5. \A q \in Pair : PosPartOf(q, t)' = 0
    BY <2>2 DEF PosPartOf
  <2>6. CashPartOf(t) = v + o.fee /\ CashPartOf(t)' = 0
    BY <2>2, <2>3, <1>2, <1>3, <1>4, <1>8 DEF CashPartOf
  <2>7. PnlPartOf(t) = -(v + o.fee)
    BY <2>3, <1>2, <1>3, <1>4, <1>8 DEF PnlPartOf
  <2>8. PnlPartOf(t)' = -(v + o.fee)
    BY <2>1, <2>2, <1>4, <1>5, <1>6, <1>8 DEF PnlPartOf
  <2> QED
    BY <2>4, <2>5, <2>6, <2>7, <2>8
<1> HIDE DEF s, tr, v, m
<1>11. KeysKept
  BY <1>1, <1>4, <1>9, OrderNumbers DEF KeysKept
<1>12. Watched(t)' /\ Mirrors(t)'
  BY <1>2, <1>5, <1>6 DEF Watched, Mirrors
<1>13. Balanced(t)
  <2>1. ASSUME NEW q \in Pair PROVE PosRest(q, t)' = PosRest(q, t)
    BY <1>1, <1>2, <1>4, <1>8, <1>9, <1>10, OrderNumbers DEF PosRest
  <2>2. CashRest(t)' = CashRest(t)
    BY <1>1, <1>2, <1>4, <1>8, <1>9, <1>10, OrderNumbers DEF CashRest
  <2>3. PnlRest(t)' = PnlRest(t)
    BY <1>2, <1>10 DEF PnlRest
  <2> QED
    BY <2>1, <2>2, <2>3 DEF Balanced
<1> QED
  BY <1>1, <1>6, <1>11, <1>12, <1>13, ExactMoves

\* An order that ended without a fill owes nothing.
LEMMA RecordEndedExact ==
    ASSUME IInv, IInv', Exact, NEW t \in Trade, OrderSound(orders[t]), RecordEnded(t),
           diverged' = {}
    PROVE  Exact'
<1>1. ExecutionTypeOK /\ ExecutionTypeOK'
  BY DEF IInv
<1>2. /\ t \in verifying /\ orders[t].st \in {"cancelled", "failed"}
      /\ ~(orders[t].filled > 0)
      /\ verifying' = verifying \ {t}
      /\ UNCHANGED <<trades, positions, tracked, cash, orders, base, quote, tierPnl, unbookedFees>>
  BY DEF RecordEnded, Diverge, ledgerVars, exchangeVars, loopVars
<1>3. trades[t].status = "none"
  BY <1>2, Unrecorded
<1>4. Moved(t) = 0 /\ Paid(t) = 0
  <2>1. orders[t].filled = 0 /\ orders[t].fee = 0 /\ orders[t].price \in Int
    BY <1>1, <1>2, OrderNumbers DEF OrderSound
  <2> QED
    BY <2>1 DEF Moved, Paid
<1>5. OnlyAt(t)
  BY <1>2 DEF OnlyAt
<1>6. KeysKept
  BY <1>2 DEF KeysKept
<1>7. Watched(t)' /\ Mirrors(t)'
  BY <1>2, <1>3 DEF Watched, Mirrors
<1>8. /\ \A q \in Pair : PosPartOf(q, t) = 0 /\ PosPartOf(q, t)' = 0
      /\ CashPartOf(t) = 0 /\ CashPartOf(t)' = 0
      /\ PnlPartOf(t) = 0 /\ PnlPartOf(t)' = 0
  BY <1>2, <1>3, <1>4 DEF PosPartOf, CashPartOf, PnlPartOf
<1>9. Balanced(t)
  BY <1>2, <1>8 DEF Balanced, PosRest, CashRest, PnlRest
<1> QED
  BY <1>1, <1>5, <1>6, <1>7, <1>9, ExactMoves

\* An unconfirmed order is booked as planned, whatever it has filled by then.
LEMMA RecordUnconfirmedExact ==
    ASSUME IInv, IInv', Exact, NEW t \in Trade, OrderSound(orders[t]),
           NEW st \in {"filled", "pending"}, RecordUnconfirmed(t, st), diverged' = {}
    PROVE  Exact'
<1> DEFINE o == orders[t]
           p == o.pair
           s == IF o.side = "buy" THEN 1 ELSE -1
           tr == VerifiedTrade(t, "pending", o.plan, o.want, 0)
           v == s * (o.plan * o.want)
           m == s * o.want
<1>1. ExecutionTypeOK /\ ExecutionTypeOK'
  BY DEF IInv
<1>2. /\ t \in verifying
      /\ AddTrade(t, tr)
      /\ verifying' = verifying \ {t}
      /\ UNCHANGED <<orders, base, quote, tierPnl, unbookedFees>>
  BY DEF RecordUnconfirmed, Record, Diverge, exchangeVars
<1>3. trades[t].status = "none" /\ o.st # "none"
  BY <1>2, Unrecorded
<1>4. /\ o.want \in Int /\ o.plan \in Int /\ p \in Pair /\ o.want > 0 /\ o.side \in Action
  BY <1>1, <1>3, OrderNumbers DEF OrderSound
<1>5. /\ tr.status = "pending" /\ tr.action = o.side /\ tr.pair = p /\ tr.qty = o.want
      /\ tr.fqty = o.want /\ tr.fprice = o.plan /\ tr.price = o.plan
      /\ Sign(tr) = s /\ Value(tr) = o.plan * o.want
  BY <1>4 DEF VerifiedTrade, NewTrade, Sign, Value, Entry, Held, Or
<1>6. OnlyAt(t) /\ trades'[t] = tr /\ orders'[t] = o
  BY <1>1, <1>2 DEF OnlyAt, AddTrade, ExecutionTypeOK, LedgerTypeOK
<1>7. v \in Int /\ m \in Int
  BY <1>4
<1>8. /\ Moved(t)' = Moved(t) /\ Paid(t)' = Paid(t)
      /\ Moved(t) \in Int /\ Paid(t) \in Int
  <2>1. Moved(t)' = Moved(t) /\ Paid(t)' = Paid(t)
    BY <1>6 DEF Moved, Paid
  <2>2. TermsTyped
    BY <1>1, TermsAreInt
  <2> QED
    BY <2>1, <2>2 DEF TermsTyped
<1>9. /\ positions' = [positions EXCEPT ![p] = @ + m]
      /\ tracked' = tracked \cup {p}
      /\ cash' = cash - v
  BY <1>2, <1>5 DEF AddTrade
<1>10. Sign(tr) * Value(tr) = v /\ Sign(tr) * tr.qty = m
  BY <1>5
<1> HIDE DEF s, tr, v, m
<1>11. /\ t \notin verifying' /\ trades'[t].status = "pending" /\ trades'[t].pair = p
       /\ orders'[t].pair = p
       /\ Sign(trades'[t]) * Value(trades'[t]) = v /\ Sign(trades'[t]) * trades'[t].qty = m
  BY <1>2, <1>5, <1>6, <1>10
<1>12. \A q \in Pair : /\ PosPartOf(q, t) = IF q = p THEN -Moved(t) ELSE 0
                       /\ PosPartOf(q, t)' = IF q = p THEN m - Moved(t) ELSE 0
  BY <1>2, <1>3, <1>7, <1>8, <1>11 DEF PosPartOf
<1>13. CashPartOf(t) = Paid(t) /\ CashPartOf(t)' = Paid(t) - v
  BY <1>2, <1>3, <1>7, <1>8, <1>11 DEF CashPartOf
<1>14. PnlPartOf(t) = -Paid(t) /\ PnlPartOf(t)' = -Paid(t)
  BY <1>2, <1>3, <1>7, <1>8, <1>11 DEF PnlPartOf
<1>15. KeysKept
  BY <1>1, <1>4, <1>9, OrderNumbers DEF KeysKept
<1>16. Watched(t)' /\ Mirrors(t)'
  BY <1>4, <1>5, <1>6, <1>9 DEF Watched, Mirrors
<1>17. Balanced(t)
  <2>1. ASSUME NEW q \in Pair PROVE PosRest(q, t)' = PosRest(q, t)
    BY <1>1, <1>2, <1>4, <1>7, <1>8, <1>9, <1>12, OrderNumbers DEF PosRest
  <2>2. CashRest(t)' = CashRest(t)
    BY <1>1, <1>2, <1>7, <1>8, <1>9, <1>13, OrderNumbers DEF CashRest
  <2>3. PnlRest(t)' = PnlRest(t)
    BY <1>2, <1>14 DEF PnlRest
  <2> QED
    BY <2>1, <2>2, <2>3 DEF Balanced
<1> QED
  BY <1>1, <1>6, <1>15, <1>16, <1>17, ExactMoves

-----------------------------------------------------------------------------
(* Fills *)

\* What the ledger has booked for a trade that is pending
Promised(t) == IF trades[t].status = "pending" THEN Sign(trades[t]) * trades[t].qty ELSE 0
Reserving(t) == IF trades[t].status = "pending" THEN Sign(trades[t]) * Value(trades[t]) ELSE 0

\* The part of a live order: what is booked, less what was delivered and paid.
LivePart(t) ==
    /\ Promised(t) \in Int /\ Reserving(t) \in Int /\ Moved(t) \in Int /\ Paid(t) \in Int
    /\ \A q \in Pair : PosPartOf(q, t) = IF q = orders[t].pair THEN Promised(t) - Moved(t) ELSE 0
    /\ CashPartOf(t) = Paid(t) - Reserving(t)
    /\ PnlPartOf(t) = -Paid(t)

AllLiveParts ==
    \A t \in Trade :
        Mirrors(t) /\ (t \in verifying \/ trades[t].status = "pending") => LivePart(t)

\* Verified or pending, a live order has that part.
LEMMA LiveParts == IInv => AllLiveParts
<1> SUFFICES ASSUME IInv, NEW t \in Trade, Mirrors(t),
                    t \in verifying \/ trades[t].status = "pending"
             PROVE  LivePart(t)
  BY DEF AllLiveParts
<1>1. TermsTyped
  BY TermsAreInt DEF IInv
<1>2. /\ Moved(t) \in Int /\ Paid(t) \in Int
      /\ Sign(trades[t]) * trades[t].qty \in Int /\ Sign(trades[t]) * Value(trades[t]) \in Int
  BY <1>1 DEF TermsTyped
<1>3. CASE t \in verifying
  <2>1. trades[t].status = "none"
    BY <1>3, Unrecorded
  <2>2. Promised(t) = 0 /\ Reserving(t) = 0
    BY <2>1 DEF Promised, Reserving
  <2> QED
    BY <2>1, <2>2, <1>2, <1>3 DEF LivePart, PosPartOf, CashPartOf, PnlPartOf
<1>4. CASE trades[t].status = "pending"
  <2>1. t \notin verifying
    BY <1>4, Unrecorded
  <2>2. trades[t].pair = orders[t].pair
    BY <1>4 DEF Mirrors
  <2>3. /\ Promised(t) = Sign(trades[t]) * trades[t].qty
        /\ Reserving(t) = Sign(trades[t]) * Value(trades[t])
    BY <1>4 DEF Promised, Reserving
  <2>4. Promised(t) \in Int /\ Reserving(t) \in Int
    BY <2>3, <1>2
  <2>5. \A q \in Pair : PosPartOf(q, t) = (IF q = orders[t].pair THEN Promised(t) - Moved(t) ELSE 0) - 0
    BY <2>1, <2>2, <2>3, <1>4 DEF PosPartOf
  <2>6. CashPartOf(t) = (Paid(t) - Reserving(t)) + 0
    BY <2>1, <2>3, <1>4 DEF CashPartOf
  <2>7. PnlPartOf(t) = 0 - Paid(t) - 0 - 0
    BY <2>1, <1>4 DEF PnlPartOf
  <2> QED
    BY <2>4, <2>5, <2>6, <2>7, <1>2 DEF LivePart
<1> QED
  BY <1>3, <1>4

\* A fill moves units and quote at the exchange, and both count as underway.
LEMMA FillExact ==
    ASSUME IInv, IInv', Exact, NEW t \in Trade, OrderSound(orders[t]), orders[t].st = "open",
           NEW n \in Int, NEW x \in Int, NEW last \in BOOLEAN, Fill(t, n, x, last),
           orders[t].filled > 0 => x = orders[t].price
    PROVE  Exact'
<1> DEFINE o == orders[t]
           p == o.pair
           s == IF o.side = "buy" THEN 1 ELSE -1
           fee == IF o.filled = 0 THEN Fee ELSE 0
           new == [o EXCEPT !.st = IF last THEN "filled" ELSE "open",
                            !.filled = @ + n, !.price = x, !.fee = @ + fee]
           m == s * n
           v == s * n * x
<1>1. ExecutionTypeOK /\ ExecutionTypeOK'
  BY DEF IInv
<1>2. /\ o \in Order /\ p \in Pair /\ o.filled \in Int /\ o.fee \in Int /\ o.price \in Int
      /\ o.filled >= 0 /\ fee \in Int /\ s \in Int
      /\ o.filled = 0 => o.fee = 0
  BY <1>1, OrderNumbers, ExecutionAssumption DEF OrderSound, ExecutionAssumption
<1>3. /\ orders' = [orders EXCEPT ![t] = new]
      /\ base' = [base EXCEPT ![p] = @ + m]
      /\ quote' = quote - v - fee
      /\ UNCHANGED <<trades, positions, tracked, cash, verifying, tierPnl, unbookedFees>>
  BY <1>1 DEF Fill, ExecutionTypeOK, ledgerVars, loopVars, ghostVars
<1>4. /\ new.st \in {"filled", "open"} /\ new.kind = o.kind /\ new.side = o.side
      /\ new.pair = p /\ new.qty = o.qty
      /\ new.price = x /\ new.filled = o.filled + n /\ new.fee = o.fee + fee
  BY <1>2 DEF Order
<1> HIDE DEF new
<1>5. OnlyAt(t) /\ trades'[t] = trades[t] /\ orders'[t] = new
  BY <1>1, <1>3 DEF OnlyAt, ExecutionTypeOK
<1>6. m \in Int /\ v \in Int
  BY <1>2
<1>7. Moved(t)' = Moved(t) + m
  <2>1. Moved(t) = s * o.filled /\ Moved(t)' = s * (o.filled + n)
    BY <1>4, <1>5 DEF Moved
  <2> QED
    BY <2>1, <1>2
<1>8. Paid(t)' = Paid(t) + v + fee
  <2>1. Paid(t) = s * o.filled * o.price + o.fee
    BY DEF Paid, Moved
  <2>2. Paid(t)' = s * (o.filled + n) * x + (o.fee + fee)
    BY <1>4, <1>5 DEF Paid, Moved
  <2>3. s * (o.filled + n) * x = s * o.filled * x + v
    BY <1>2
  <2>4. s * o.filled * x = s * o.filled * o.price
    BY <1>2
  <2>5. s * o.filled * o.price \in Int
    BY <1>2
  <2> QED
    BY <2>1, <2>2, <2>3, <2>4, <2>5, <1>2, <1>6
<1> HIDE DEF m, v, fee, s
<1>9. t \in verifying \/ trades[t].status = "pending"
  BY DEF Exact, Watched
<1>10. Watched(t)' /\ Mirrors(t)'
  BY <1>3, <1>4, <1>5, <1>9 DEF Watched, Mirrors, Exact
<1>11. LivePart(t)
  BY <1>9, LiveParts DEF Exact, AllLiveParts
<1>12. LivePart(t)'
  <2>1. t \in verifying' \/ trades'[t].status = "pending"
    BY <1>3, <1>9
  <2>2. AllLiveParts'
    BY LiveParts, PTL
  <2> QED
    BY <2>1, <2>2, <1>10 DEF AllLiveParts
<1>13. Promised(t)' = Promised(t) /\ Reserving(t)' = Reserving(t) /\ orders'[t].pair = p
  BY <1>3, <1>4, <1>5 DEF Promised, Reserving
<1>14. KeysKept
  BY <1>3 DEF KeysKept
<1>15. Balanced(t)
  <2>1. ASSUME NEW q \in Pair PROVE PosRest(q, t)' = PosRest(q, t)
    BY <1>1, <1>2, <1>3, <1>6, <1>7, <1>11, <1>12, <1>13, OrderNumbers DEF PosRest, LivePart
  <2>2. CashRest(t)' = CashRest(t)
    BY <1>1, <1>2, <1>3, <1>6, <1>8, <1>11, <1>12, <1>13, OrderNumbers DEF CashRest, LivePart
  <2>3. PnlRest(t)' = PnlRest(t)
    BY <1>1, <1>2, <1>3, <1>6, <1>8, <1>11, <1>12, OrderNumbers DEF PnlRest, LivePart
  <2> QED
    BY <2>1, <2>2, <2>3 DEF Balanced
<1> QED
  BY <1>1, <1>5, <1>10, <1>14, <1>15, ExactMoves

\* The end of an order moves nothing.
LEMMA EndOrderExact ==
    ASSUME IInv, IInv', Exact, NEW t \in Trade, NEW st \in {"cancelled", "failed"},
           EndOrder(t, st)
    PROVE  Exact'
<1>1. ExecutionTypeOK /\ ExecutionTypeOK'
  BY DEF IInv
<1>2. /\ orders' = [orders EXCEPT ![t].st = st]
      /\ UNCHANGED <<trades, positions, tracked, cash, base, quote, verifying, tierPnl, unbookedFees>>
  BY DEF EndOrder, ledgerVars, loopVars, ghostVars
<1>3. /\ orders'[t].st = st /\ orders'[t].side = orders[t].side
      /\ orders'[t].pair = orders[t].pair /\ orders'[t].filled = orders[t].filled
      /\ orders'[t].price = orders[t].price /\ orders'[t].fee = orders[t].fee
      /\ \A u \in Trade \ {t} : orders'[u] = orders[u]
  BY <1>1, <1>2 DEF ExecutionTypeOK, Order
<1>4. OnlyAt(t) /\ KeysKept
  BY <1>2, <1>3 DEF OnlyAt, KeysKept
<1>5. Watched(t)' /\ Mirrors(t)'
  BY <1>2, <1>3 DEF Watched, Mirrors, Exact
<1>6. Moved(t)' = Moved(t) /\ Paid(t)' = Paid(t)
  BY <1>3 DEF Moved, Paid
<1>7. /\ \A q \in Pair : PosPartOf(q, t)' = PosPartOf(q, t)
      /\ CashPartOf(t)' = CashPartOf(t) /\ PnlPartOf(t)' = PnlPartOf(t)
  BY <1>2, <1>3, <1>6 DEF PosPartOf, CashPartOf, PnlPartOf
<1>8. Balanced(t)
  BY <1>2, <1>7 DEF Balanced, PosRest, CashRest, PnlRest
<1> QED
  BY <1>1, <1>4, <1>5, <1>8, ExactMoves

-----------------------------------------------------------------------------
(* Polls *)

\* What a pending trade holds and costs is what was planned.
LEMMA PendingNumbers ==
    ASSUME IInv, NEW t \in Trade, trades[t].status = "pending", Mirrors(t)
    PROVE  /\ trades[t].pair \in Pair /\ trades[t].pair \in tracked
           /\ trades[t].pair = orders[t].pair /\ trades[t].action = orders[t].side
           /\ trades[t].qty \in Int /\ trades[t].qty > 0
           /\ Held(trades[t]) = trades[t].qty /\ Booked(trades[t]) = trades[t].qty
           /\ Entry(trades[t]) \in Int /\ Value(trades[t]) = Entry(trades[t]) * trades[t].qty
           /\ t \notin verifying
<1>1. trades[t] \in TradeRecord
  BY DEF IInv, ExecutionTypeOK, LedgerTypeOK
<1>2. /\ trades[t].pair \in Pair /\ trades[t].qty \in Int /\ Entry(trades[t]) \in Int
  BY <1>1, TradeNumbers
<1>3. /\ trades[t].action = orders[t].side /\ trades[t].pair = orders[t].pair
      /\ trades[t].pair \in tracked
      /\ trades[t].qty > 0 /\ trades[t].fqty \in {Unset, trades[t].qty}
  BY DEF Mirrors
<1>4. Held(trades[t]) = trades[t].qty /\ Booked(trades[t]) = trades[t].qty
  BY <1>2, <1>3 DEF Held, Booked, Or, Unset
<1>5. t \notin verifying
  BY Unrecorded
<1> QED
  BY <1>2, <1>3, <1>4, <1>5 DEF Value

\* The poll replaces the booking by the fill.
LEMMA PollFilledExact ==
    ASSUME IInv, IInv', Exact, NEW t \in Trade, OrderSound(orders[t]), PollFilled(t),
           diverged' = {}
    PROVE  Exact'
<1> DEFINE o == orders[t]
           tr == trades[t]
           p == o.pair
           new == Refilled(tr, "filled", o.price, o.filled, o.fee)
           delta == o.filled - tr.qty
           cost == o.price * o.filled
           plan == Value(tr)
<1>1. ExecutionTypeOK /\ ExecutionTypeOK' /\ LedgerTypeOK
  BY DEF IInv, ExecutionTypeOK
<1>2. /\ tr.status = "pending" /\ o.st = "filled" /\ o.side # "sell"
      /\ UpdateTradeFill(t, o.price, o.filled, o.fee, "filled")
      /\ UNCHANGED <<orders, base, quote, verifying, tierPnl, unbookedFees>>
  BY DEF PollFilled, Polled, Diverge, exchangeVars, loopVars
<1>3. /\ p \in Pair /\ p \in tracked /\ tr.pair = p /\ tr.action = o.side
      /\ tr.qty \in Int /\ tr.qty > 0
      /\ Booked(tr) = tr.qty /\ Entry(tr) \in Int /\ plan = Entry(tr) * tr.qty
      /\ t \notin verifying
  BY <1>2, PendingNumbers DEF Exact
<1>4. /\ o.filled \in Int /\ o.price \in Int /\ o.fee \in Int
      /\ o.filled > 0 /\ o.price > 0 /\ o.side = "buy" /\ Sign(tr) = 1
  BY <1>1, <1>2, <1>3, OrderNumbers DEF OrderSound, Action, Sign
<1>5. delta \in Int /\ cost \in Int /\ plan \in Int
  BY <1>3, <1>4
<1>6. /\ trades' = [trades EXCEPT ![t] = new]
      /\ positions' = IF delta = 0 THEN positions ELSE [positions EXCEPT ![p] = @ + delta]
      /\ tracked' = IF delta = 0 THEN tracked ELSE tracked \cup {p}
      /\ cash' = cash - 1 * (cost - plan + o.fee)
  <2>1. trades' = [trades EXCEPT ![t] = new]
    BY <1>1, <1>2, <1>4, UpdateTradeFillTyped DEF Status
  <2>2. tr.action = "buy"
    BY <1>3, <1>4
  <2> QED
    BY <2>1, <2>2, <1>2, <1>3, <1>4 DEF UpdateTradeFill
<1>7. /\ new.status = "filled" /\ new.pair = p /\ new.action = "buy"
      /\ new.fees = o.fee /\ Sign(new) = 1 /\ Value(new) = cost
  BY <1>1, <1>3, <1>4 DEF Refilled, LedgerTypeOK, TradeRecord, Sign, Value, Entry, Held, Or, Unset
<1>8. Moved(t) = o.filled /\ Paid(t) = cost + o.fee
  <2>1. Moved(t) = o.filled
    BY <1>4 DEF Moved
  <2> QED
    BY <2>1, <1>4 DEF Paid
<1> HIDE DEF new
<1>9. OnlyAt(t) /\ trades'[t] = new /\ orders'[t] = o
  BY <1>1, <1>2, <1>6 DEF OnlyAt, LedgerTypeOK
<1>10. KeysKept
  BY <1>1, <1>3, <1>6, OrderNumbers DEF KeysKept
<1>11. Watched(t)' /\ Mirrors(t)'
  BY <1>2, <1>7, <1>9 DEF Watched, Mirrors
<1> HIDE DEF delta, cost, plan
<1>12. \A q \in Pair : /\ PosPartOf(q, t) = IF q = p THEN tr.qty - o.filled ELSE 0
                       /\ PosPartOf(q, t)' = 0
  BY <1>2, <1>3, <1>4, <1>7, <1>8, <1>9 DEF PosPartOf
<1>13. CashPartOf(t) = cost + o.fee - plan /\ CashPartOf(t)' = 0
  <2>1. Sign(tr) * Value(tr) = plan
    BY <1>4, <1>5 DEF plan
  <2> QED
    BY <2>1, <1>2, <1>3, <1>4, <1>5, <1>7, <1>8, <1>9 DEF CashPartOf
<1>14. PnlPartOf(t) = -(cost + o.fee) /\ PnlPartOf(t)' = -(cost + o.fee)
  <2>1. Sign(new) * Value(new) = cost
    BY <1>5, <1>7
  <2> QED
    BY <2>1, <1>2, <1>3, <1>4, <1>5, <1>7, <1>8, <1>9 DEF PnlPartOf
<1>15. Balanced(t)
  <2>1. ASSUME NEW q \in Pair PROVE PosRest(q, t)' = PosRest(q, t)
    BY <1>1, <1>2, <1>3, <1>4, <1>6, <1>12, OrderNumbers DEF PosRest, delta
  <2>2. CashRest(t)' = CashRest(t)
    BY <1>1, <1>2, <1>4, <1>5, <1>6, <1>13, OrderNumbers DEF CashRest
  <2>3. PnlRest(t)' = PnlRest(t)
    BY <1>2, <1>14 DEF PnlRest
  <2> QED
    BY <2>1, <2>2, <2>3 DEF Balanced
<1> QED
  BY <1>1, <1>9, <1>10, <1>11, <1>15, ExactMoves

\* Reversing an order that never filled takes its booking back.
LEMMA ReversedExact ==
    ASSUME IInv, IInv', Exact, NEW t \in Trade, OrderSound(orders[t]),
           trades[t].status = "pending", trades[t].fqty = Unset, orders[t].filled = 0,
           NEW st \in {"cancelled", "failed"},
           MarkTradeStatus(t, trades[t], st), ReverseTradeBooking(trades[t]),
           ~Floors(trades[t]), NEW o,
           orders' = [orders EXCEPT ![t] = o], o.st \in {"filled", "cancelled", "failed"},
           UNCHANGED <<base, quote, verifying, tierPnl, unbookedFees>>
    PROVE  Exact'
<1> DEFINE tr == trades[t]
           p == tr.pair
           new == [tr EXCEPT !.status = st]
           plan == Value(tr)
           s == Sign(tr)
<1>1. ExecutionTypeOK /\ ExecutionTypeOK' /\ LedgerTypeOK
  BY DEF IInv, ExecutionTypeOK
<1>2. /\ p \in Pair /\ p \in tracked /\ p = orders[t].pair
      /\ tr.qty \in Int /\ tr.qty > 0
      /\ Entry(tr) \in Int /\ plan = Entry(tr) * tr.qty
      /\ t \notin verifying
  BY PendingNumbers DEF Exact
<1>3. plan \in Int /\ s \in {1, -1}
  BY <1>2 DEF Sign
<1>4. Moved(t) = 0 /\ Paid(t) = 0
  BY <1>1, OrderNumbers DEF Moved, Paid, OrderSound
<1>5. trades' = [trades EXCEPT ![t] = new] /\ new.status = st
  BY <1>1 DEF MarkTradeStatus, LedgerTypeOK, TradeRecord
<1>6. PosPart(tr.qty - PosPart(tr.fqty)) = tr.qty
  BY <1>2 DEF PosPart, Unset
<1>7. /\ positions' = [positions EXCEPT ![p] = @ - s * tr.qty]
      /\ tracked' = tracked \cup {p}
      /\ cash' = cash + s * plan
  <2>1. tracked' = tracked \cup {p}
    BY DEF ReverseTradeBooking
  <2>2. cash' = cash + s * plan
    <3>1. cash' = cash + Sign(tr) * (tr.qty * Entry(tr))
      BY <1>2, <1>6 DEF ReverseTradeBooking
    <3>2. tr.qty * Entry(tr) = plan
      BY <1>2
    <3> QED
      BY <3>1, <3>2
  <2>3. positions' = [positions EXCEPT ![p] =
                        IF tr.action = "buy" THEN PosPart(@ - tr.qty) ELSE @ + tr.qty]
    BY <1>6 DEF ReverseTradeBooking
  <2>4. CASE tr.action = "buy"
    <3>1. ~(positions[p] < tr.qty) /\ positions[p] \in Int
      BY <2>4, <1>1, <1>2, <1>6, OrderNumbers DEF Floors
    <3>2. PosPart(positions[p] - tr.qty) = positions[p] - s * tr.qty
      BY <3>1, <2>4, <1>2 DEF PosPart, Sign
    <3> QED
      BY <3>2, <2>1, <2>2, <2>3, <2>4
  <2>5. CASE tr.action # "buy"
    <3>1. positions[p] + tr.qty = positions[p] - s * tr.qty
      BY <2>5, <1>1, <1>2, OrderNumbers DEF Sign
    <3> QED
      BY <3>1, <2>1, <2>2, <2>3, <2>5
  <2> QED
    BY <2>4, <2>5
<1> DEFINE m == s * tr.qty
           v == s * plan
<1>8. m \in Int /\ v \in Int
  BY <1>2, <1>3
<1> HIDE DEF new, plan
<1>9. OnlyAt(t) /\ trades'[t] = new /\ orders'[t] = o
  BY <1>1, <1>5 DEF OnlyAt, ExecutionTypeOK, LedgerTypeOK
<1>10. KeysKept
  BY <1>1, <1>2, <1>7, OrderNumbers DEF KeysKept
<1>11. Watched(t)' /\ Mirrors(t)'
  BY <1>5, <1>9 DEF Watched, Mirrors
<1>12. trades'[t].status \notin {"pending", "filled", "closed"} /\ t \notin verifying'
  BY <1>2, <1>5, <1>9
<1>13. \A q \in Pair : /\ PosPartOf(q, t) = IF q = p THEN m ELSE 0
                       /\ PosPartOf(q, t)' = 0
  BY <1>2, <1>4, <1>8, <1>12 DEF PosPartOf
<1>14. CashPartOf(t) = -v /\ CashPartOf(t)' = 0
  BY <1>2, <1>4, <1>8, <1>12 DEF CashPartOf, plan
<1>15. PnlPartOf(t) = 0 /\ PnlPartOf(t)' = 0
  BY <1>2, <1>4, <1>12 DEF PnlPartOf
<1>16. positions' = [positions EXCEPT ![p] = @ - m] /\ cash' = cash + v
  BY <1>7
<1> HIDE DEF m, v, s
<1>17. Balanced(t)
  <2>1. ASSUME NEW q \in Pair PROVE PosRest(q, t)' = PosRest(q, t)
    BY <1>1, <1>2, <1>8, <1>13, <1>16, OrderNumbers DEF PosRest
  <2>2. CashRest(t)' = CashRest(t)
    BY <1>1, <1>8, <1>14, <1>16, OrderNumbers DEF CashRest
  <2>3. PnlRest(t)' = PnlRest(t)
    BY <1>15 DEF PnlRest
  <2> QED
    BY <2>1, <2>2, <2>3 DEF Balanced
<1> QED
  BY <1>1, <1>9, <1>10, <1>11, <1>17, ExactMoves

\* An order that ended unfilled is reversed,
LEMMA PollEndedExact ==
    ASSUME IInv, IInv', Exact, NEW t \in Trade, OrderSound(orders[t]), PollEnded(t),
           diverged' = {}
    PROVE  Exact'
<1> DEFINE o == orders[t]
<1>1. ExecutionTypeOK /\ orders \in [Trade -> Order]
  BY DEF IInv, ExecutionTypeOK
<1>2. ~(o.filled > 0) /\ trades[t].status = "pending" /\ o.st \in {"cancelled", "failed"}
  BY DEF PollEnded, Polled
<1>3. o.filled = 0
  BY <1>1, <1>2, OrderNumbers DEF OrderSound
<1>4. /\ MarkTradeStatus(t, trades[t], o.st) /\ ReverseTradeBooking(trades[t])
      /\ trades[t].fqty = Unset /\ ~Floors(trades[t])
      /\ UNCHANGED <<orders, base, quote, verifying, tierPnl, unbookedFees>>
  BY <1>2, <1>3 DEF PollEnded, exchangeVars, loopVars
<1>5. orders' = [orders EXCEPT ![t] = o]
  BY <1>1, <1>4
<1> QED
  BY <1>2, <1>3, <1>4, <1>5, ReversedExact

\* ... and so is one that the poll cancels.
LEMMA CancelStaleExact ==
    ASSUME IInv, IInv', Exact, NEW t \in Trade, OrderSound(orders[t]), CancelStale(t),
           diverged' = {}
    PROVE  Exact'
<1> DEFINE o == [orders[t] EXCEPT !.st = IF orders[t].st = "open" THEN "cancelled" ELSE @]
<1>1. ExecutionTypeOK /\ orders \in [Trade -> Order]
  BY DEF IInv, ExecutionTypeOK
<1>2. /\ ~(orders[t].filled > 0) /\ trades[t].fqty = Unset /\ ~Floors(trades[t])
      /\ MarkTradeStatus(t, trades[t], "cancelled") /\ ReverseTradeBooking(trades[t])
      /\ UNCHANGED <<base, quote, verifying, tierPnl, unbookedFees>>
  BY DEF CancelStale, loopVars
<1>3. trades[t].status = "pending" /\ orders[t].st # "none"
  BY DEF CancelStale, IInv, Linked, Trade
<1>4. orders[t].filled = 0
  BY <1>1, <1>2, OrderNumbers DEF OrderSound
<1>5. orders' = [orders EXCEPT ![t] = o] /\ o.st \in {"filled", "cancelled", "failed"}
  BY <1>1, <1>3 DEF CancelStale, Order, OrderState
<1> QED
  BY <1>2, <1>3, <1>4, <1>5, ReversedExact

-----------------------------------------------------------------------------
(* Exits *)

\* Closing a trade for what the exchange sold turns its stake into pnl.
LEMMA ClosedExact ==
    ASSUME IInv, IInv', Exact, NEW t \in Trade, Exitable(t), NEW x \in Price,
           CloseTrade(t, x, Fee), SellNow(trades[t].pair, Held(trades[t]), x),
           ~(positions[trades[t].pair] < Held(trades[t])),
           UNCHANGED <<verifying, tierPnl, unbookedFees>>
    PROVE  Exact'
<1> DEFINE tr == trades[t]
           p == tr.pair
           n == Held(tr)
           new == Closed(tr, x, Fee)
           stake == Entry(tr) * n
           paid == x * n
<1>1. ExecutionTypeOK /\ ExecutionTypeOK' /\ LedgerTypeOK
  BY DEF IInv, ExecutionTypeOK
<1>2. /\ tr.status = "filled" /\ tr.action = "buy" /\ tr \in TradeRecord
      /\ p \in Pair /\ n \in Int /\ Entry(tr) \in Int /\ tr.fees \in Int
      /\ x \in Int /\ Fee \in Int /\ IsOpen(tr)
  BY <1>1, TradeNumbers, SpendQty, ExecutionAssumption
     DEF Exitable, LedgerTypeOK, ExecutionAssumption, IsOpen
<1>3. stake \in Int /\ paid \in Int
  BY <1>2
<1>4. t \notin verifying
  BY <1>2, Unrecorded
<1>5. /\ trades' = [trades EXCEPT ![t] = new]
      /\ tracked' = tracked \cup {p}
      /\ cash' = cash + paid - Fee
  BY <1>2 DEF CloseTrade, Closable
<1>6. positions' = [positions EXCEPT ![p] = @ - n]
  <2>1. positions' = [positions EXCEPT ![p] = PosPart(@ - n)]
    BY <1>2 DEF CloseTrade, Closable
  <2>2. PosPart(positions[p] - n) = positions[p] - n
    BY <1>1, <1>2, OrderNumbers DEF PosPart
  <2> QED
    BY <2>1, <2>2
<1>7. /\ base' = [base EXCEPT ![p] = @ - n]
      /\ quote' = quote + paid - Fee
      /\ orders' = orders
  <2>1. n * x = paid
    BY <1>2
  <2> QED
    BY <2>1 DEF SellNow
<1>8. /\ new.status = "closed"
      /\ new.pnl = paid - stake - tr.fees - Fee
  <2>1. /\ new.status = "closed"
        /\ new.pnl = Sign(tr) * (x - Entry(tr)) * n - tr.fees - Fee
    BY <1>2 DEF Closed, TradeRecord
  <2>2. Sign(tr) * (x - Entry(tr)) * n = paid - stake
    BY <1>2 DEF Sign
  <2> QED
    BY <2>1, <2>2
<1> HIDE DEF new
<1>9. OnlyAt(t) /\ trades'[t] = new
  BY <1>1, <1>5, <1>7 DEF OnlyAt, LedgerTypeOK
<1>10. KeysKept
  BY <1>1, <1>2, <1>5, <1>6, OrderNumbers DEF KeysKept
<1>11. Watched(t)' /\ Mirrors(t)'
  BY <1>2, <1>4, <1>7, <1>8, <1>9 DEF Watched, Mirrors, Exact
<1>12. \A q \in Pair : PosPartOf(q, t) = 0 /\ PosPartOf(q, t)' = 0
  BY <1>2, <1>4, <1>8, <1>9 DEF PosPartOf
<1>13. CashPartOf(t) = 0 /\ CashPartOf(t)' = 0
  BY <1>2, <1>4, <1>8, <1>9 DEF CashPartOf
<1>14. PnlPartOf(t) = -(stake + tr.fees) /\ PnlPartOf(t)' = paid - stake - tr.fees - Fee
  <2>1. Sign(tr) * Value(tr) = stake
    BY <1>2, <1>3 DEF Sign, Value
  <2> QED
    BY <2>1, <1>2, <1>3, <1>4, <1>8, <1>9 DEF PnlPartOf
<1> HIDE DEF stake, paid, n
<1>15. Balanced(t)
  <2>1. n \in Int
    BY <1>2 DEF n
  <2>2. ASSUME NEW q \in Pair PROVE PosRest(q, t)' = PosRest(q, t)
    BY <2>1, <1>1, <1>2, <1>6, <1>7, <1>12, OrderNumbers DEF PosRest
  <2>3. CashRest(t)' = CashRest(t)
    BY <1>1, <1>2, <1>3, <1>5, <1>7, <1>13, OrderNumbers DEF CashRest
  <2>4. PnlRest(t)' = PnlRest(t)
    BY <1>1, <1>2, <1>3, <1>7, <1>14, OrderNumbers DEF PnlRest
  <2> QED
    BY <2>2, <2>3, <2>4 DEF Balanced
<1> QED
  BY <1>1, <1>9, <1>10, <1>11, <1>15, ExactMoves

\* A stop or a target closes for what was held and sold.
LEMMA ClosePositionExact ==
    ASSUME IInv, IInv', Exact, NEW t \in Trade, NEW x \in Price, NEW fromStop \in BOOLEAN,
           ClosePosition(t, x, fromStop), diverged' = {}
    PROVE  Exact'
<1> DEFINE p == trades[t].pair
           qty == Capped(p, Booked(trades[t]))
<1>1. Exitable(t) /\ UNCHANGED <<verifying, tierPnl, unbookedFees>>
  BY DEF ClosePosition
<1>2. ~(qty <= 0)
  BY DEF ClosePosition, Diverge
<1>3. PICK n \in SoldOf(qty) : SellNow(p, n, x) /\ Shortfall(p, n, Held(trades[t]), 0)
  BY <1>2 DEF ClosePosition
<1>4. n = Held(trades[t]) /\ ~(positions[p] < Held(trades[t]))
  BY <1>3 DEF Shortfall
<1>5. CloseTrade(t, x, Fee)
  BY <1>2 DEF ClosePosition
<1> QED
  BY <1>1, <1>3, <1>4, <1>5, ClosedExact

\* A tier sells a part: the rest stays at stake, its gain goes to tierPnl.
LEMMA TierExact ==
    ASSUME IInv, IInv', Exact, NEW t \in Trade, Exitable(t), NEW x \in Price, NEW n \in Int,
           n > 0, Held(trades[t]) - n > 0,
           SellNow(trades[t].pair, n, x), ~(positions[trades[t].pair] < n),
           ~(x * n - Fee < 0),
           UpdatePartialFill(t, Held(trades[t]) - n, n, x * n - Fee),
           tierPnl' = tierPnl + (x - Entry(trades[t])) * n - Fee,
           UNCHANGED <<verifying, unbookedFees>>
    PROVE  Exact'
<1> DEFINE tr == trades[t]
           p == tr.pair
           h == Held(tr)
           left == h - n
           new == [tr EXCEPT !.fqty = left]
           e == Entry(tr)
           stake == e * h
           cost == e * n
           paid == x * n
<1>1. ExecutionTypeOK /\ ExecutionTypeOK' /\ LedgerTypeOK
  BY DEF IInv, ExecutionTypeOK
<1>2. /\ tr.status = "filled" /\ tr.action = "buy" /\ tr \in TradeRecord
      /\ p \in Pair /\ h \in Int /\ e \in Int /\ tr.fees \in Int
      /\ x \in Int /\ Fee \in Int
  BY <1>1, TradeNumbers, SpendQty, ExecutionAssumption
     DEF Exitable, LedgerTypeOK, ExecutionAssumption
<1>3. stake \in Int /\ paid \in Int /\ cost \in Int
  BY <1>2
<1>4. t \notin verifying
  BY <1>2, Unrecorded
<1>5. /\ trades' = [trades EXCEPT ![t] = new]
      /\ tracked' = tracked \cup {p}
  BY <1>1 DEF UpdatePartialFill, LedgerTypeOK
<1>6. positions' = [positions EXCEPT ![p] = @ - n] /\ cash' = cash + paid - Fee
  <2>1. positions' = [positions EXCEPT ![p] = PosPart(@ - n)]
    BY DEF UpdatePartialFill
  <2>2. PosPart(positions[p] - n) = positions[p] - n
    BY <1>1, <1>2, OrderNumbers DEF PosPart
  <2>3. PosPart(paid - Fee) = paid - Fee
    BY <1>2, <1>3 DEF PosPart
  <2>4. cash' = cash + PosPart(paid - Fee)
    BY DEF UpdatePartialFill
  <2> HIDE DEF paid
  <2>5. cash' = cash + paid - Fee
    BY <2>3, <2>4, <1>1, <1>2, <1>3, OrderNumbers
  <2> QED
    BY <2>1, <2>2, <2>5
<1>7. /\ base' = [base EXCEPT ![p] = @ - n]
      /\ quote' = quote + paid - Fee
      /\ orders' = orders
  <2>1. n * x = paid
    BY <1>2
  <2> QED
    BY <2>1 DEF SellNow
<1>8. tierPnl' = tierPnl + (paid - cost) - Fee
  <2>1. (x - e) * n = paid - cost
    BY <1>2
  <2> QED
    BY <2>1
<1>9. /\ new.status = "filled" /\ new.action = "buy" /\ new.fees = tr.fees
      /\ Value(new) = stake - cost
  <2>1. /\ new.status = "filled" /\ new.action = "buy" /\ new.fees = tr.fees
        /\ new.fqty = left /\ Entry(new) = e
    BY <1>2 DEF TradeRecord, Entry
  <2>2. Held(new) = left
    BY <2>1, <1>2 DEF Held, Or, Unset
  <2>3. e * left = stake - cost
    BY <1>2
  <2> HIDE DEF new, e, left, stake, cost
  <2> QED
    BY <2>1, <2>2, <2>3 DEF Value
<1> HIDE DEF new
<1>10. OnlyAt(t) /\ trades'[t] = new
  BY <1>1, <1>5, <1>7 DEF OnlyAt, LedgerTypeOK
<1>11. KeysKept
  BY <1>1, <1>2, <1>5, <1>6, OrderNumbers DEF KeysKept
<1>12. Watched(t)' /\ Mirrors(t)'
  BY <1>2, <1>4, <1>7, <1>9, <1>10 DEF Watched, Mirrors, Exact
<1>13. \A q \in Pair : PosPartOf(q, t) = 0 /\ PosPartOf(q, t)' = 0
  BY <1>2, <1>4, <1>9, <1>10 DEF PosPartOf
<1>14. CashPartOf(t) = 0 /\ CashPartOf(t)' = 0
  BY <1>2, <1>4, <1>9, <1>10 DEF CashPartOf
<1>15. PnlPartOf(t) = -(stake + tr.fees) /\ PnlPartOf(t)' = -(stake - cost + tr.fees)
  <2>1. Sign(tr) * Value(tr) = stake /\ Sign(new) * Value(new) = stake - cost
    <3>1. Sign(tr) = 1 /\ Sign(new) = 1 /\ Value(tr) = stake
      BY <1>2, <1>9 DEF Sign, Value
    <3> HIDE DEF stake, cost
    <3> QED
      BY <3>1, <1>3, <1>9
  <2> HIDE DEF stake, cost
  <2> QED
    BY <2>1, <1>2, <1>3, <1>4, <1>9, <1>10 DEF PnlPartOf
<1> HIDE DEF stake, cost, paid, h, e, left
<1>16. Balanced(t)
  <2>1. ASSUME NEW q \in Pair PROVE PosRest(q, t)' = PosRest(q, t)
    BY <1>1, <1>2, <1>6, <1>7, <1>13, OrderNumbers DEF PosRest
  <2>2. CashRest(t)' = CashRest(t)
    BY <1>1, <1>2, <1>3, <1>6, <1>7, <1>14, OrderNumbers DEF CashRest
  <2>3. PnlRest(t)' = PnlRest(t)
    BY <1>1, <1>2, <1>3, <1>7, <1>8, <1>15, OrderNumbers DEF PnlRest
  <2> QED
    BY <2>1, <2>2, <2>3 DEF Balanced
<1> QED
  BY <1>1, <1>10, <1>11, <1>12, <1>16, ExactMoves

\* A partial sell is such a tier, or closes the trade.
LEMMA PartialSellExact ==
    ASSUME IInv, IInv', Exact, NEW t \in Trade, NEW q \in Int, NEW x \in Price,
           PartialSell(t, q, x), diverged' = {}
    PROVE  Exact'
<1> DEFINE tr == trades[t]
           qty == Capped(tr.pair, q)
           left == PosPart(Held(tr) - qty)
<1>1. ExecutionTypeOK /\ tr \in TradeRecord
  BY DEF IInv, ExecutionTypeOK, LedgerTypeOK
<1>2. tr.pair \in Pair /\ Held(tr) \in Int
  BY <1>1, TradeNumbers
<1>3. qty \in Int
  BY <1>1, <1>2, CappedInt
<1>4. Exitable(t) /\ qty > 0 /\ UNCHANGED <<verifying, unbookedFees>>
  BY DEF PartialSell
<1>5. PICK n \in SoldOf(qty) :
        /\ SellNow(tr.pair, n, x)
        /\ IF left > 0 THEN Shortfall(tr.pair, n, qty, x * qty - Fee)
                       ELSE Shortfall(tr.pair, n, Held(tr), 0)
  BY DEF PartialSell
<1>6. CASE left > 0
  <2>1. Held(tr) - qty > 0 /\ left = Held(tr) - qty
    BY <1>2, <1>3, <1>6 DEF PosPart
  <2>2. /\ n = qty /\ ~(positions[tr.pair] < qty) /\ ~(x * qty - Fee < 0)
    BY <1>5, <1>6 DEF Shortfall
  <2>3. /\ UpdatePartialFill(t, Held(tr) - qty, qty, x * qty - Fee)
        /\ tierPnl' = tierPnl + (x - Entry(tr)) * qty - Fee
    BY <1>6, <2>1 DEF PartialSell
  <2> HIDE DEF qty
  <2> QED
    BY <2>1, <2>2, <2>3, <1>3, <1>4, <1>5, TierExact
<1>7. CASE ~(left > 0)
  <2>1. n = Held(tr) /\ ~(positions[tr.pair] < Held(tr))
    BY <1>5, <1>7 DEF Shortfall
  <2>2. CloseTrade(t, x, Fee) /\ tierPnl' = tierPnl
    BY <1>7 DEF PartialSell
  <2> QED
    BY <2>1, <2>2, <1>4, <1>5, ClosedExact
<1> QED
  BY <1>6, <1>7

-----------------------------------------------------------------------------
(* The holdings sync *)

\* With nothing under verification an exact ledger has a key for every coin.
LEMMA NoExternals ==
    ASSUME IInv, Exact, verifying = {}
    PROVE  NewExternals(base) = {}
<1> SUFFICES ASSUME NEW p \in Pair \ tracked, base[p] > 0 PROVE FALSE
  BY DEF NewExternals
<1>1. base[p] \in Int /\ positions[p] = 0
  BY DEF IInv, ExecutionTypeOK, Exact
<1>2. Pending(p) = {}
  BY DEF Pending, Exact, Mirrors
<1>3. Verified(p) = {}
  BY DEF Verified
<1>4. PosTotal(p) = 0
  BY <1>2, <1>3, SumEmpty DEF PosTotal
<1>5. positions[p] = base[p] + PosTotal(p)
  BY DEF Exact, PositionsBalance
<1> QED
  BY <1>1, <1>4, <1>5

\* So the sync changes the cash at most, when no order is under way.
LEMMA RefreshExact ==
    ASSUME IInv, IInv', Exact, RefreshHoldings, diverged' = {}
    PROVE  Exact'
<1>1. /\ SyncLiveHoldings(quote, base)
      /\ unbookedFees' = IF TakesLiveCash(quote) THEN 0 ELSE unbookedFees
      /\ ~(TakesLiveCash(quote) /\ OpenTrades # {})
      /\ ~(verifying # {} /\ (TakesLiveCash(quote) \/ NewExternals(base) # {}))
      /\ UNCHANGED <<trades, orders, base, quote, verifying, tierPnl>>
  BY DEF RefreshHoldings, Diverge, SyncLiveHoldings, exchangeVars
<1>2. NewExternals(base) = {}
  BY <1>1, NoExternals
<1>3. positions' = positions /\ tracked' = tracked
  BY <1>1, <1>2 DEF SyncLiveHoldings, IInv, ExecutionTypeOK, LedgerTypeOK
<1>4. CASE ~TakesLiveCash(quote)
  BY <1>1, <1>3, <1>4, ExactStays DEF SyncLiveHoldings
<1>5. CASE TakesLiveCash(quote)
  <2>1. OpenTrades = {} /\ verifying = {} /\ cash' = quote /\ unbookedFees' = 0
    BY <1>1, <1>5 DEF SyncLiveHoldings
  <2>2. AllPending = {}
    BY <2>1 DEF AllPending, OpenTrades, IsOpen
  <2>3. CashTotal = 0
    BY <2>1, <2>2, SumEmpty DEF CashTotal
  <2>4. /\ \A t \in Trade : Watched(t)' /\ Mirrors(t)'
        /\ \A p \in Pair : PosTotal(p)' = PosTotal(p)
        /\ CashTotal' = CashTotal /\ PnlTotal' = PnlTotal
    BY <1>1, <1>3 DEF Exact, Watched, Mirrors, PosTotal, CashTotal, PnlTotal, Pending, Verified,
       AllPending, AllFilled, AllClosed, ToCome, Unbooked, Overdrawn, Spent, Made, AtStake,
       Moved, Paid
  <2>5. quote \in Int
    BY DEF IInv, ExecutionTypeOK
  <2>6. CashBalances'
    BY <1>1, <2>1, <2>3, <2>4, <2>5 DEF CashBalances
  <2> QED
    BY <1>1, <1>3, <2>4, <2>6 DEF Exact, PositionsBalance, PnlBalances
<1> QED
  BY <1>4, <1>5

-----------------------------------------------------------------------------
(* The books over all steps *)

AllSound == \A t \in Trade : OrderSound(orders[t])

\* A sound order in the place of another keeps all sound.
LEMMA SoundAt ==
    ASSUME ExecutionTypeOK, AllSound, NEW t \in Trade, NEW o, OrderSound(o),
           orders' = [orders EXCEPT ![t] = o]
    PROVE  AllSound'
BY DEF AllSound, ExecutionTypeOK

\* A new order is sound when its quantity is not zero.
LEMMA NewOrderSound ==
    ASSUME NEW k \in {"limit", "market"}, NEW a \in Action, NEW p \in Pair,
           NEW x \in Int, NEW q \in Int, q > 0, x > 0
    PROVE  OrderSound(NewOrder("open", k, a, p, x, q))
BY DEF NewOrder, OrderSound

\* What the exchange may do to an open order in one fill
Filling(t, n, x, last) ==
    /\ orders[t].st = "open"
    /\ n > 0 /\ x > 0
    /\ orders[t].filled > 0 => x = orders[t].price
    /\ ~last /\ orders[t].kind = "limit" => orders[t].filled + n < orders[t].qty
    /\ Fill(t, n, x, last)

\* Limit and market orders are filled like that.
LEMMA FillForms ==
    ASSUME IInv, AllSound, NEW t \in Trade,
           FillLimit(t) \/ \E x \in Price : FillMarket(t, x)
    PROVE  \E n \in Int, x \in Int, last \in BOOLEAN : Filling(t, n, x, last)
<1> DEFINE o == orders[t]
<1>1. /\ ExecutionTypeOK /\ o.filled \in Int /\ o.qty \in Int /\ o.price \in Int
      /\ OrderSound(o)
  BY OrderNumbers DEF IInv, AllSound
<1>2. CASE FillLimit(t)
  <2>1. o.st = "open" /\ o.kind = "limit"
    BY <1>2 DEF FillLimit
  <2>2. o.filled < o.qty /\ o.price > 0
    BY <1>1, <2>1 DEF OrderSound
  <2>3. PICK n \in {o.qty - o.filled} \cup (IF PartialFills THEN {1} ELSE {}) :
          Fill(t, n, o.price, n = o.qty - o.filled)
    BY <1>2 DEF FillLimit
  <2> DEFINE last == (n = o.qty - o.filled)
  <2>4. n \in Int /\ n > 0 /\ last \in BOOLEAN
    BY <1>1, <2>2, <2>3
  <2>5. ~last => o.filled + n < o.qty
    BY <1>1, <2>2, <2>3
  <2>6. Fill(t, n, o.price, last)
    BY <2>3
  <2> HIDE DEF last
  <2>7. Filling(t, n, o.price, last)
    BY <2>1, <2>2, <2>4, <2>5, <2>6 DEF Filling
  <2> QED
    BY <1>1, <2>4, <2>7
<1>3. CASE \E x \in Price : FillMarket(t, x)
  <2>1. PICK x \in Price : FillMarket(t, x)
    BY <1>3
  <2>2. x \in Int /\ x > 0 /\ Spend \div x \in Int
    BY SpendQty, ExecutionAssumption DEF ExecutionAssumption
  <2> DEFINE m == IF o.side = "buy" THEN Spend \div x ELSE o.qty
  <2>3. /\ o.st = "open" /\ o.kind = "market" /\ m > o.filled
        /\ o.filled > 0 => x = o.price
        /\ Fill(t, m - o.filled, x, TRUE) \/ Fill(t, 1, x, FALSE)
    BY <2>1 DEF FillMarket
  <2>4. m \in Int
    BY <1>1, <2>2
  <2> HIDE DEF m
  <2>5. m - o.filled \in Int /\ m - o.filled > 0
    BY <1>1, <2>3, <2>4
  <2>6. CASE Fill(t, m - o.filled, x, TRUE)
    <3>1. Filling(t, m - o.filled, x, TRUE)
      BY <2>2, <2>3, <2>5, <2>6 DEF Filling
    <3> QED
      BY <3>1, <2>2, <2>5
  <2>7. CASE Fill(t, 1, x, FALSE)
    <3>1. 1 > 0 /\ o.kind # "limit"
      BY <2>3
    <3>2. Filling(t, 1, x, FALSE)
      BY <3>1, <2>2, <2>3, <2>7, Zenon DEF Filling
    <3>3. 1 \in Int /\ FALSE \in BOOLEAN
      OBVIOUS
    <3> QED
      BY <3>2, <3>3, <2>2
  <2> QED
    BY <2>3, <2>6, <2>7
<1> QED
  BY <1>2, <1>3

\* A fill keeps the order sound.
LEMMA FillSound ==
    ASSUME IInv, AllSound, NEW t \in Trade, NEW n \in Int, NEW x \in Int,
           NEW last \in BOOLEAN, Filling(t, n, x, last)
    PROVE  AllSound'
<1> DEFINE o == orders[t]
           fee == IF o.filled = 0 THEN Fee ELSE 0
           new == [o EXCEPT !.st = IF last THEN "filled" ELSE "open",
                            !.filled = @ + n, !.price = x, !.fee = @ + fee]
<1>1. ExecutionTypeOK /\ o \in Order /\ o.filled \in Int /\ o.qty \in Int
  BY OrderNumbers DEF IInv
<1>2. orders' = [orders EXCEPT ![t] = new]
  BY <1>1 DEF Filling, Fill, ExecutionTypeOK
<1>3. /\ new.st = (IF last THEN "filled" ELSE "open") /\ new.kind = o.kind
      /\ new.qty = o.qty /\ new.want = o.want /\ new.price = x /\ new.filled = o.filled + n
  BY <1>1 DEF Order
<1>4. o.filled >= 0 /\ o.qty > 0 /\ o.want > 0
  BY DEF AllSound, OrderSound, Filling
<1> HIDE DEF new
<1>5. OrderSound(new)
  BY <1>1, <1>3, <1>4 DEF OrderSound, Filling
<1> QED
  BY <1>1, <1>2, <1>5, SoundAt

\* No step of anyone makes an order unsound.
LEMMA StepSound ==
    ASSUME IInv, AllSound, [Next]_vars
    PROVE  AllSound'
<1>1. ExecutionTypeOK
  BY DEF IInv
<1>2. CASE orders' = orders
  BY <1>2 DEF AllSound
<1>3. ASSUME NEW t \in Trade, NEW p \in Pair, NEW x \in Price, PlaceLimitBuy(t, p, x)
      PROVE  AllSound'
  <2> DEFINE qty == Spend \div x
  <2>1. x \in Int /\ x > 0 /\ qty \in Int /\ qty > 0
    BY <1>3, SpendQty, ExecutionAssumption DEF ExecutionAssumption, PlaceLimitBuy
  <2>2. orders' = [orders EXCEPT ![t] = NewOrder("open", "limit", "buy", p, x, qty)]
    BY <1>3 DEF PlaceLimitBuy
  <2> HIDE DEF qty
  <2>3. OrderSound(NewOrder("open", "limit", "buy", p, x, qty))
    BY <2>1, NewOrderSound DEF Action
  <2> QED
    BY <1>1, <2>2, <2>3, SoundAt
<1>4. ASSUME NEW t \in Trade, NEW p \in Pair, NEW a \in Action, NEW x \in Price,
             PlaceMarket(t, p, a, x)
      PROVE  AllSound'
  <2> DEFINE qty == IF a = "buy" THEN Spend \div x ELSE positions[p]
  <2>1. x \in Int /\ x > 0 /\ qty \in Int /\ qty > 0
    BY <1>1, <1>4, SpendQty, ExecutionAssumption
       DEF ExecutionAssumption, PlaceMarket, ExecutionTypeOK, LedgerTypeOK
  <2>2. orders' = [orders EXCEPT ![t] = NewOrder("open", "market", a, p, x, qty)]
    BY <1>4 DEF PlaceMarket
  <2> HIDE DEF qty
  <2>3. OrderSound(NewOrder("open", "market", a, p, x, qty))
    BY <2>1, NewOrderSound
  <2> QED
    BY <1>1, <2>2, <2>3, SoundAt
<1>5. ASSUME NEW t \in Trade, NEW st \in {"cancelled", "failed"},
             orders' = [orders EXCEPT ![t].st = st], orders[t].st # "none"
      PROVE  AllSound'
  <2> DEFINE o == [orders[t] EXCEPT !.st = st]
  <2>1. orders' = [orders EXCEPT ![t] = o]
    BY <1>1, <1>5 DEF ExecutionTypeOK
  <2>2. /\ o.st = st /\ o.filled = orders[t].filled /\ o.fee = orders[t].fee
        /\ o.qty = orders[t].qty /\ o.want = orders[t].want /\ o.price = orders[t].price
    BY <1>1 DEF ExecutionTypeOK, Order
  <2> HIDE DEF o
  <2>3. OrderSound(o)
    BY <1>5, <2>2 DEF AllSound, OrderSound
  <2> QED
    BY <1>1, <2>1, <2>3, SoundAt
<1>13. ASSUME NEW t \in Trade, NEW p \in Pair, NEW m \in Price, NEW x \in Price,
              PlaceLimitUnanswered(t, p, m, x)
       PROVE  AllSound'
  <2> DEFINE o == NewLimitBuy(p, m, x)
  <2>1. x \in Int /\ x > 0 /\ Spend \div x \in Int /\ m \in Int /\ m > 0
        /\ x <= m /\ Spend \div m > 0 /\ orders' = [orders EXCEPT ![t] = o]
    BY <1>13, SpendQty, LimitOrderTyped, ExecutionAssumption
       DEF ExecutionAssumption, PlaceLimitUnanswered
  <2>2. Spend \div x > 0
    BY <2>1, ExecutionAssumption DEF ExecutionAssumption
  <2>3. /\ o.st = "open" /\ o.filled = 0 /\ o.fee = 0 /\ o.price = x
        /\ o.qty = Spend \div x /\ o.want = Spend \div m
    BY LimitOrderTyped
  <2> HIDE DEF o
  <2>4. OrderSound(o)
    BY <2>1, <2>2, <2>3 DEF OrderSound
  <2> QED
    BY <1>1, <2>1, <2>4, SoundAt
<1>6. ASSUME NEW t \in Trade, Pipeline(t) PROVE AllSound'
  BY <1>2, <1>3, <1>4, <1>6, <1>13
     DEF Pipeline, RecordFilled, RecordEnded, RecordUnconfirmed, Record, exchangeVars
<1>7. ASSUME NEW t \in Trade, Exchange(t) PROVE AllSound'
  <2>1. ASSUME NEW st \in {"cancelled", "failed"}, EndOrder(t, st) PROVE AllSound'
    BY <2>1, <1>5 DEF EndOrder
  <2>2. ASSUME FillLimit(t) \/ \E x \in Price : FillMarket(t, x) PROVE AllSound'
    BY <2>2, FillForms, FillSound
  <2> QED
    BY <2>1, <2>2, <1>7 DEF Exchange
<1>8. ASSUME NEW t \in Trade, Poll(t) PROVE AllSound'
  <2>1. CASE CancelStale(t)
    <3>1. orders' = orders \/ (orders[t].st = "open" /\ orders' = [orders EXCEPT ![t].st = "cancelled"])
      BY <2>1 DEF CancelStale
    <3> QED
      BY <3>1, <1>2, <1>5
  <2> QED
    BY <2>1, <1>2, <1>8
       DEF Poll, PollNotFound, PollFilled, PollEnded, PollStale, CancelFails, exchangeVars
<1>9. ASSUME NEW t \in Trade, Exit(t) PROVE AllSound'
  BY <1>2, <1>9 DEF Exit, ClosePosition, PartialSell, SellNow, exchangeVars
<1>10. ASSUME NEW S \in SUBSET verifying, CycleTimeout(S) PROVE AllSound'
  BY <1>2, <1>10 DEF CycleTimeout, exchangeVars
<1>11. ASSUME StartCycle \/ RefreshHoldings \/ UNCHANGED vars PROVE AllSound'
  BY <1>2, <1>11 DEF StartCycle, RefreshHoldings, vars, exchangeVars
<1>12. ASSUME NEW p \in Pair, DropStop(p) \/ (\E n \in 1..base[p] : Withdraw(p, n))
                               \/ \E x \in Price \cup {0} : Reconcile(p, x)
       PROVE  AllSound'
  BY <1>2, <1>12 DEF DropStop, Withdraw, Reconcile, exchangeVars
<1> QED
  BY <1>6, <1>7, <1>8, <1>9, <1>10, <1>11, <1>12 DEF Next

\* A cause that has struck is never forgotten.
LEMMA CausesStay ==
    ASSUME [Next]_vars
    PROVE  diverged \subseteq diverged'
<1>1. ASSUME NEW t \in Trade, Pipeline(t) PROVE diverged \subseteq diverged'
  BY <1>1 DEF Pipeline, PlaceLimitBuy, PlaceLimitUnanswered, PlaceMarket, RecordFilled,
              RecordEnded, RecordUnconfirmed, Diverge, ghostVars
<1>2. ASSUME NEW t \in Trade, Exchange(t) PROVE diverged \subseteq diverged'
  BY <1>2 DEF Exchange, FillLimit, FillMarket, Fill, EndOrder, ghostVars
<1>3. ASSUME NEW t \in Trade, Poll(t) PROVE diverged \subseteq diverged'
  BY <1>3 DEF Poll, PollNotFound, PollFilled, PollEnded, PollStale, CancelStale,
              CancelFails, Diverge, ghostVars
<1>4. ASSUME NEW t \in Trade, Exit(t) PROVE diverged \subseteq diverged'
  BY <1>4 DEF Exit, ClosePosition, PartialSell, Shortfall, Diverge
<1>5. ASSUME NEW p \in Pair, DropStop(p) \/ (\E n \in 1..base[p] : Withdraw(p, n))
                               \/ \E x \in Price \cup {0} : Reconcile(p, x)
      PROVE  diverged \subseteq diverged'
  BY <1>5 DEF DropStop, Withdraw, Reconcile, Diverge, ghostVars
<1>6. ASSUME NEW S \in SUBSET verifying, CycleTimeout(S) PROVE diverged \subseteq diverged'
  BY <1>6 DEF CycleTimeout, Diverge
<1>7. ASSUME StartCycle \/ RefreshHoldings \/ UNCHANGED vars PROVE diverged \subseteq diverged'
  BY <1>7 DEF StartCycle, RefreshHoldings, Diverge, vars, ghostVars
<1> QED
  BY <1>1, <1>2, <1>3, <1>4, <1>5, <1>6, <1>7 DEF Next

\* While none strikes, every step keeps the books exact.
LEMMA StepExact ==
    ASSUME IInv, IInv', AllSound, Exact, [Next]_vars, diverged' = {}
    PROVE  Exact'
<1>1. \A t \in Trade : OrderSound(orders[t])
  BY DEF AllSound
<1>2. ASSUME NEW t \in Trade, Pipeline(t) PROVE Exact'
  BY <1>1, <1>2, LimitBuyExact, LimitUnansweredExact, MarketExact, RecordFilledExact,
     RecordEndedExact, RecordUnconfirmedExact DEF Pipeline
<1>3. ASSUME NEW t \in Trade, Exchange(t) PROVE Exact'
  <2>1. ASSUME NEW st \in {"cancelled", "failed"}, EndOrder(t, st) PROVE Exact'
    BY <2>1, EndOrderExact
  <2>2. ASSUME FillLimit(t) \/ \E x \in Price : FillMarket(t, x) PROVE Exact'
    BY <1>1, <2>2, FillForms, FillExact DEF Filling
  <2> QED
    BY <1>3, <2>1, <2>2 DEF Exchange
<1>4. ASSUME NEW t \in Trade, Poll(t) PROVE Exact'
  <2>1. CASE PollNotFound(t)
    BY <2>1 DEF PollNotFound, Diverge
  <2>2. CASE PollStale(t) \/ CancelFails(t)
    BY <2>2, ExactStays DEF PollStale, CancelFails, ledgerVars, exchangeVars, loopVars, ghostVars
  <2> QED
    BY <1>1, <1>4, <2>1, <2>2, PollFilledExact, PollEndedExact, CancelStaleExact DEF Poll
<1>5. ASSUME NEW t \in Trade, Exit(t) PROVE Exact'
  <2>1. \A q \in 1..orders[t].qty : q \in Int
    BY OrderNumbers DEF IInv
  <2> QED
    BY <1>5, <2>1, ClosePositionExact, PartialSellExact DEF Exit
<1>6. ASSUME NEW p \in Pair, DropStop(p) \/ (\E n \in 1..base[p] : Withdraw(p, n))
                               \/ \E x \in Price \cup {0} : Reconcile(p, x)
      PROVE  Exact'
  <2>1. CASE DropStop(p)
    BY <2>1, ExactStays DEF DropStop, ledgerVars, exchangeVars, ghostVars
  <2>2. CASE \E n \in 1..base[p] : Withdraw(p, n)
    BY <2>2 DEF Withdraw, Diverge
  <2>3. CASE \E x \in Price \cup {0} : Reconcile(p, x)
    BY <2>3 DEF Reconcile, Diverge
  <2> QED
    BY <1>6, <2>1, <2>2, <2>3
<1>7. ASSUME NEW S \in SUBSET verifying, CycleTimeout(S) PROVE Exact'
  BY <1>7 DEF CycleTimeout, Diverge
<1>8. ASSUME StartCycle \/ RefreshHoldings \/ UNCHANGED vars PROVE Exact'
  <2>1. CASE StartCycle
    BY <2>1, ExactStays DEF StartCycle, ledgerVars, exchangeVars, ghostVars
  <2>2. CASE UNCHANGED vars
    BY <2>2, ExactStays DEF vars, ledgerVars, exchangeVars, loopVars, ghostVars
  <2> QED
    BY <1>8, <2>1, <2>2, RefreshExact
<1> QED
  BY <1>2, <1>3, <1>4, <1>5, <1>6, <1>7, <1>8 DEF Next

BInv == IInv /\ Books

\* The books are exact at the start: nobody owes anything.
LEMMA InitBooks == Init => BInv
<1> SUFFICES ASSUME Init PROVE Books
  BY InitInv DEF BInv
<1>1. \A t \in Trade : /\ trades[t].status = "none" /\ orders[t].st = "none"
                       /\ orders[t].filled = 0 /\ orders[t].fee = 0
  BY DEF Init, LedgerInit, NewTrade, NewOrder
<1>2. \A t \in Trade : OrderSound(orders[t]) /\ Watched(t) /\ Mirrors(t)
  BY <1>1 DEF OrderSound, Watched, Mirrors
<1>3. /\ AllPending = {} /\ AllFilled = {} /\ AllClosed = {} /\ verifying = {}
      /\ \A p \in Pair : Pending(p) = {} /\ Verified(p) = {}
  BY <1>1 DEF Init, AllPending, AllFilled, AllClosed, Pending, Verified
<1>4. /\ \A p \in Pair : PosTotal(p) = 0
      /\ CashTotal = 0 /\ PnlTotal = 0
  <2>1. \A p \in Pair : PosTotal(p) = 0
    BY <1>3, SumEmpty DEF PosTotal
  <2>2. CashTotal = 0
    BY <1>3, SumEmpty DEF CashTotal
  <2>3. PnlTotal = 0
    BY <1>3, SumEmpty DEF PnlTotal
  <2> QED
    BY <2>1, <2>2, <2>3
<1>5. /\ \A p \in Pair : positions[p] = 0 /\ base[p] = 0
      /\ cash = InitialCash /\ quote = InitialCash /\ unbookedFees = 0 /\ tierPnl = 0
      /\ InitialCash \in Int
  BY LedgerAssumption DEF Init, LedgerInit, LedgerAssumption
<1>6. Exact
  BY <1>2, <1>4, <1>5 DEF Exact, PositionsBalance, CashBalances, PnlBalances
<1> QED
  BY <1>2, <1>6 DEF Books

\* ... and every step of the bot, the exchange and the owner keeps them so.
LEMMA StepBooks == BInv /\ [Next]_vars => BInv'
<1> SUFFICES ASSUME BInv, [Next]_vars PROVE BInv'
  OBVIOUS
<1>1. IInv /\ IInv' /\ AllSound
  BY StepInv DEF BInv, Books, AllSound
<1>2. AllSound'
  BY <1>1, StepSound
<1>3. ASSUME diverged' = {} PROVE Exact'
  <2>1. Exact
    BY <1>3, CausesStay DEF BInv, Books
  <2> QED
    BY <1>1, <1>3, <2>1, StepExact
<1> QED
  BY <1>1, <1>2, <1>3 DEF BInv, Books, AllSound

\* The books hold in every reachable state.
LEMMA BooksHold == Spec => []BInv
BY InitBooks, StepBooks, PTL DEF Spec

-----------------------------------------------------------------------------
(* What the books say *)

\* No order is left alone: for any number of orders, pairs and coroutines, an
\* order that can still fill at the exchange has a pending trade or a pipeline
\* that is verifying it, until a listed cause strikes.
THEOREM LiveOrders == Spec => []LiveOrdersAreTracked
<1>1. BInv => LiveOrdersAreTracked
  BY DEF BInv, Books, Exact, Watched, LiveOrdersAreTracked
<1> QED
  BY <1>1, BooksHold, PTL

\* The ledger's positions are the exchange's balances but for what pending
\* orders have still to deliver and what is being verified, whatever the
\* number of trades, the prices, the fees and the order of the fills.
THEOREM PositionsExact == Spec => []PositionsMatchExchange
<1>1. BInv => PositionsMatchExchange
  <2> SUFFICES ASSUME BInv, diverged = {}, NEW p \in Pair
               PROVE  positions[p] = base[p] + SumFunctionOnSet(ToCome, Pending(p))
                                     - SumFunctionOnSet(Unbooked, Verified(p))
    BY DEF PositionsMatchExchange, Verified
  <2>1. positions[p] = base[p] + PosTotal(p)
    BY DEF BInv, Books, Exact, PositionsBalance
  <2>2. /\ base[p] \in Int
        /\ SumFunctionOnSet(ToCome, Pending(p)) \in Int
        /\ SumFunctionOnSet(Unbooked, Verified(p)) \in Int
    <3>1. ExecutionTypeOK /\ TermsTyped
      BY TermsAreInt DEF BInv, IInv
    <3>2. Pending(p) \in SUBSET Trade /\ Verified(p) \in SUBSET Trade
      BY <3>1 DEF Pending, Verified, ExecutionTypeOK
    <3>3. IsFiniteSet(Pending(p)) /\ IsFiniteSet(Verified(p))
      BY <3>2, TradeSets
    <3>4. \A t \in Pending(p) : ToCome[t] \in Int
      BY <3>1, <3>2 DEF TermsTyped, ToCome
    <3>5. \A t \in Verified(p) : Unbooked[t] \in Int
      BY <3>1, <3>2 DEF TermsTyped, Unbooked
    <3>6. SumFunctionOnSet(ToCome, Pending(p)) \in Int
      BY <3>3, <3>4, SumInt
    <3>7. SumFunctionOnSet(Unbooked, Verified(p)) \in Int
      BY <3>3, <3>5, SumInt
    <3> QED
      BY <3>1, <3>6, <3>7 DEF ExecutionTypeOK
  <2> QED
    BY <2>1, <2>2 DEF PosTotal
<1> QED
  BY <1>1, BooksHold, PTL

\* The ledger's cash is the account's but for the fees nobody booked, the
\* reserves of pending orders and the cost of what is being verified.
THEOREM CashExact == Spec => []CashMatchesExchange
<1>1. BInv => CashMatchesExchange
  <2> SUFFICES ASSUME BInv, diverged = {}
               PROVE  cash = quote + unbookedFees + SumFunctionOnSet(Overdrawn, AllPending)
                             + SumFunctionOnSet(Spent, verifying)
    BY DEF CashMatchesExchange, AllPending
  <2>1. cash = quote + unbookedFees + CashTotal
    BY DEF BInv, Books, Exact, CashBalances
  <2>2. /\ quote \in Int /\ unbookedFees \in Int
        /\ SumFunctionOnSet(Overdrawn, AllPending) \in Int
        /\ SumFunctionOnSet(Spent, verifying) \in Int
    <3>1. ExecutionTypeOK /\ TermsTyped
      BY TermsAreInt DEF BInv, IInv
    <3>2. AllPending \in SUBSET Trade /\ verifying \in SUBSET Trade
      BY <3>1 DEF AllPending, ExecutionTypeOK
    <3>3. IsFiniteSet(AllPending) /\ IsFiniteSet(verifying)
      BY <3>2, TradeSets
    <3>4. \A t \in AllPending : Overdrawn[t] \in Int
      BY <3>1, <3>2 DEF TermsTyped, Overdrawn
    <3>5. \A t \in verifying : Spent[t] \in Int
      BY <3>1, <3>2 DEF TermsTyped, Spent
    <3>6. SumFunctionOnSet(Overdrawn, AllPending) \in Int
      BY <3>3, <3>4, SumInt
    <3>7. SumFunctionOnSet(Spent, verifying) \in Int
      BY <3>3, <3>5, SumInt
    <3> QED
      BY <3>1, <3>6, <3>7 DEF ExecutionTypeOK
  <2> QED
    BY <2>1, <2>2 DEF CashTotal
<1> QED
  BY <1>1, BooksHold, PTL

\* Flat and waiting for nothing, the account has gained what total_pnl and the
\* tier exits report: over any number of round trips, partial fills, tier
\* sells and cancelled orders no fee and no proceeds are lost or counted twice.
THEOREM PnlExact == Spec => []FlatAccountExplainedByPnl
<1>1. BInv => FlatAccountExplainedByPnl
  <2> SUFFICES ASSUME BInv, diverged = {}, OpenTrades = {}, verifying = {}
               PROVE  quote = InitialCash + TotalPnl + tierPnl
    BY DEF FlatAccountExplainedByPnl
  <2>1. quote = InitialCash + tierPnl + PnlTotal
    BY DEF BInv, Books, Exact, PnlBalances
  <2>2. AllPending = {} /\ AllFilled = {}
    BY DEF AllPending, AllFilled, OpenTrades, IsOpen
  <2>3. PnlTotal = SumFunctionOnSet(Made, AllClosed) - 0 - 0 - 0
    BY <2>2, SumEmpty DEF PnlTotal
  <2>4. TotalPnl = SumFunctionOnSet(Made, AllClosed)
    BY DEF TotalPnl, Made, AllClosed
  <2>5. SumFunctionOnSet(Made, AllClosed) \in Int
    <3>1. TermsTyped
      BY TermsAreInt DEF BInv, IInv
    <3>2. IsFiniteSet(AllClosed) /\ \A t \in AllClosed : Made[t] \in Int
      BY <3>1, TradeSets DEF AllClosed, TermsTyped, Made
    <3> QED
      BY <3>2, SumInt
  <2>6. InitialCash \in Int /\ tierPnl \in Int
    BY LedgerAssumption DEF BInv, IInv, ExecutionTypeOK, LedgerAssumption
  <2> QED
    BY <2>1, <2>3, <2>4, <2>5, <2>6
<1> QED
  BY <1>1, BooksHold, PTL

-----------------------------------------------------------------------------
(* IbkrVenue: what holds between the ledger, the queue and the account     *)

\* Trades are of the one stock, in quantities that are not negative.
TradesSound ==
    \A t \in Trade :
       /\ trades[t].status # "none" => trades[t].pair = Stock
       /\ trades[t].qty \in Nat
       /\ trades[t].fqty = Unset \/ trades[t].fqty \in Nat

\* A pending trade knows its order.
PendingLinked ==
    \A t \in Resting :
       /\ ref[t] \in DOMAIN ibOrders
       /\ ibOrders[ref[t]].trade = t /\ ibOrders[ref[t]].kind = trades[t].action
       /\ trades[t].fqty = Unset

\* Until something sets them apart, an open order has a pending trade.
OpenWatched ==
    apart = {} =>
       \A o \in DOMAIN ibOrders \ ExitOrders :
          ibOrders[o].st = "open" =>
             ibOrders[o].trade \in Resting /\ ref[ibOrders[o].trade] = o

\* The end of an order is heard as it was.
ViewSound ==
    /\ Len(view.orders) <= Len(ibOrders)
    /\ connected => Len(view.orders) = Len(ibOrders)
    /\ \A o \in DOMAIN view.orders : view.orders[o].st # "open" => view.orders[o] = ibOrders[o]

\* What a caller found before it called still holds while it waits.
CallFits(job) ==
    /\ job.kind \in {"buy", "sell"} =>
         /\ trades[job.trade].status = "none"
         /\ apart = {} => \A o \in DOMAIN ibOrders : ibOrders[o].trade # job.trade
    /\ job.kind = "get" => job.trade \in Resting
    /\ job.kind \in {"balance", "exit"} =>
         trades[job.trade].status = "filled" /\ trades[job.trade].action = "buy"

CallSound == waiting => queue # <<>> /\ CallFits(queue[Len(queue)])

Sound ==
    /\ AccountTypeOK
    /\ TradesSound /\ PendingLinked /\ OpenWatched /\ ViewSound /\ CallSound
    /\ ClosedMeansSold

VenueInv == Sound /\ LedgerMatchesAccount

-----------------------------------------------------------------------------
(* The terms of the venue's balance *)

\* The fields of an order of the account
LEMMA AccountOrder ==
    ASSUME AccountTypeOK, NEW o \in DOMAIN ibOrders
    PROVE  /\ ibOrders[o] \in VenueOrder
           /\ ibOrders[o].kind \in Placing /\ ibOrders[o].trade \in Trade
           /\ ibOrders[o].shares \in Nat /\ ibOrders[o].filled \in Nat
<1>1. ibOrders[o] \in VenueOrder
  BY DEF AccountTypeOK
<1> QED
  BY <1>1 DEF VenueOrder

\* The numbers of a trade, in an integer ledger
LEMMA SoundTrade ==
    ASSUME AccountTypeOK, TradesSound, NEW t \in Trade
    PROVE  /\ trades[t] \in TradeRecord /\ trades[t].qty \in Nat
           /\ Held(trades[t]) \in Nat
           /\ Sign(trades[t]) \in Int
<1>1. /\ trades[t] \in TradeRecord /\ trades[t].qty \in Nat
      /\ trades[t].fqty = Unset \/ trades[t].fqty \in Nat
  BY DEF AccountTypeOK, LedgerTypeOK, TradesSound
<1>2. Held(trades[t]) \in Nat
  BY <1>1 DEF Held, Or, Unset
<1> QED
  BY <1>1, <1>2 DEF Sign

\* The sums of the balance are finite sums of integers.
TermsSound ==
    /\ Resting \in SUBSET Trade /\ IsFiniteSet(Resting) /\ IsFiniteSet(ExitOrders)
    /\ \A t \in Resting : Outstanding[t] \in Int
    /\ \A o \in ExitOrders : Unsold[o] \in Int

\* ... which a typed and linked venue has.
LEMMA VenueTerms == AccountTypeOK /\ TradesSound /\ PendingLinked => TermsSound
<1> SUFFICES ASSUME AccountTypeOK, TradesSound, PendingLinked PROVE TermsSound
  OBVIOUS
<1>0. Unit \in Int
  BY VenueAssumption DEF VenueAssumption
<1>1. Resting \in SUBSET Trade /\ IsFiniteSet(Resting)
  BY TradeSets DEF Resting
<1>2. IsFiniteSet(ExitOrders)
  <2>1. DOMAIN ibOrders = 1..Len(ibOrders) /\ Len(ibOrders) \in Nat
    BY DEF AccountTypeOK
  <2>2. IsFiniteSet(DOMAIN ibOrders)
    BY <2>1, FS_Interval
  <2> QED
    BY <2>2, FS_Subset DEF ExitOrders
<1>3. ASSUME NEW t \in Resting PROVE Outstanding[t] \in Int
  <2>1. ibOrders[ref[t]].filled \in Int
    BY <1>3, AccountOrder DEF PendingLinked
  <2>2. trades[t].qty \in Int /\ Sign(trades[t]) \in Int
    BY <1>1, SoundTrade
  <2>3. ibOrders[ref[t]].filled * Unit \in Int
    BY <1>0, <2>1
  <2>4. Sign(trades[t]) * (trades[t].qty - ibOrders[ref[t]].filled * Unit) \in Int
    BY <2>2, <2>3
  <2> QED
    BY <2>4 DEF Outstanding
<1>4. ASSUME NEW o \in ExitOrders PROVE Unsold[o] \in Int
  <2>1. ibOrders[o].shares \in Int /\ ibOrders[o].filled \in Int
    BY AccountOrder DEF ExitOrders
  <2> QED
    BY <1>0, <2>1 DEF Unsold
<1> QED
  BY <1>1, <1>2, <1>3, <1>4 DEF TermsSound

\* A step on one trade and one order
TradeKept(t) == \A u \in Trade \ {t} : trades'[u] = trades[u] /\ ref'[u] = ref[u]
OrderKept(o) ==
    /\ DOMAIN ibOrders' \ {o} = DOMAIN ibOrders \ {o}
    /\ \A p \in DOMAIN ibOrders \ {o} : ibOrders'[p] = ibOrders[p]

OutstandingAt(t) == Term(Outstanding, Resting, t)
UnsoldAt(o) == Term(Unsold, ExitOrders, o)
Balance == SumFunctionOnSet(Outstanding, Resting) - SumFunctionOnSet(Unsold, ExitOrders)

\* ... moves the balance by their terms.
LEMMA BalanceMoves ==
    ASSUME Sound, AccountTypeOK', TradesSound', PendingLinked',
           NEW t, NEW o, TradeKept(t), OrderKept(o),
           \A u \in Resting \ {t} : ref[u] # o
    PROVE  /\ Balance' = Balance + (OutstandingAt(t)' - OutstandingAt(t))
                                 - (UnsoldAt(o)' - UnsoldAt(o))
           /\ Balance \in Int /\ Balance' \in Int
           /\ OutstandingAt(t) \in Int /\ OutstandingAt(t)' \in Int
           /\ UnsoldAt(o) \in Int /\ UnsoldAt(o)' \in Int
<1>1. TermsSound /\ TermsSound'
  <2>1. AccountTypeOK /\ TradesSound /\ PendingLinked
    BY DEF Sound
  <2> QED
    BY <2>1, VenueTerms, PTL
<1>2. Resting \ {t} = Resting' \ {t}
  BY DEF Resting, TradeKept
<1>3. \A u \in Resting \ {t} : Outstanding[u] = Outstanding'[u]
  <2> TAKE u \in Resting \ {t}
  <2>1. u \in Trade \ {t} /\ u \in Resting'
    BY <1>2 DEF Resting
  <2>2. trades'[u] = trades[u] /\ ref'[u] = ref[u]
    BY <2>1 DEF TradeKept
  <2>3. ibOrders'[ref[u]] = ibOrders[ref[u]]
    BY DEF OrderKept, Sound, PendingLinked
  <2> QED
    BY <2>1, <2>2, <2>3 DEF Outstanding
<1>4. ExitOrders \ {o} = ExitOrders' \ {o}
  BY DEF ExitOrders, OrderKept
<1>5. \A p \in ExitOrders \ {o} : Unsold[p] = Unsold'[p]
  <2> TAKE p \in ExitOrders \ {o}
  <2>1. p \in ExitOrders' /\ p \in DOMAIN ibOrders \ {o}
    BY <1>4 DEF ExitOrders
  <2> QED
    BY <2>1 DEF Unsold, OrderKept
<1> DEFINE out == SumFunctionOnSet(Outstanding, Resting)
           rest == SumFunctionOnSet(Unsold, ExitOrders)
<1>6. /\ out' = out - OutstandingAt(t) + OutstandingAt(t)'
      /\ out \in Int /\ out' \in Int
      /\ OutstandingAt(t) \in Int /\ OutstandingAt(t)' \in Int
  <2>1. OneTermMoves(Outstanding, Resting, Outstanding', Resting', t)
    BY <1>1, <1>2, <1>3 DEF TermsSound, OneTermMoves
  <2>2. /\ OutstandingAt(t) = Term(Outstanding, Resting, t)
        /\ OutstandingAt(t)' = Term(Outstanding', Resting', t)
    BY DEF OutstandingAt, Term
  <2> QED
    BY <2>1, <2>2, SumMoves
<1>7. /\ rest' = rest - UnsoldAt(o) + UnsoldAt(o)'
      /\ rest \in Int /\ rest' \in Int
      /\ UnsoldAt(o) \in Int /\ UnsoldAt(o)' \in Int
  <2>1. OneTermMoves(Unsold, ExitOrders, Unsold', ExitOrders', o)
    BY <1>1, <1>4, <1>5 DEF TermsSound, OneTermMoves
  <2>2. /\ UnsoldAt(o) = Term(Unsold, ExitOrders, o)
        /\ UnsoldAt(o)' = Term(Unsold', ExitOrders', o)
    BY DEF UnsoldAt, Term
  <2> QED
    BY <2>1, <2>2, SumMoves
<1> QED
  <2> Balance = out - rest /\ Balance' = out' - rest'
    BY DEF Balance
  <2> HIDE DEF out, rest
  <2> QED
    BY <1>6, <1>7

\* The balance of the ledger with the account
LEMMA MatchForm ==
    AccountTypeOK /\ TradesSound /\ PendingLinked =>
        (LedgerMatchesAccount <=> (apart = {} => positions[Stock] = held + Balance))
<1> SUFFICES ASSUME AccountTypeOK, TradesSound, PendingLinked
             PROVE  LedgerMatchesAccount <=> (apart = {} => positions[Stock] = held + Balance)
  OBVIOUS
<1> DEFINE out == SumFunctionOnSet(Outstanding, Resting)
           rest == SumFunctionOnSet(Unsold, ExitOrders)
<1>1. out \in Int /\ rest \in Int
  BY VenueTerms, SumInt DEF TermsSound
<1>2. held \in Int
  BY DEF AccountTypeOK
<1>3. held + out - rest = held + (out - rest)
  <2> HIDE DEF out, rest
  <2> QED
    BY <1>1, <1>2
<1>4. Balance = out - rest
  BY DEF Balance
<1> QED
  BY <1>3, <1>4 DEF LedgerMatchesAccount

\* A step keeps it if what it does to the position and to the account's shares
\* is what it does to the terms.
LEMMA MatchMoves ==
    ASSUME VenueInv, AccountTypeOK', TradesSound', PendingLinked',
           NEW t, NEW o, TradeKept(t), OrderKept(o),
           \A u \in Resting \ {t} : ref[u] # o,
           apart' = {} =>
             /\ apart = {}
             /\ positions'[Stock] - positions[Stock] =
                  (held' - held) + (OutstandingAt(t)' - OutstandingAt(t))
                                 - (UnsoldAt(o)' - UnsoldAt(o))
    PROVE  LedgerMatchesAccount'
<1>1. Sound /\ AccountTypeOK /\ TradesSound /\ PendingLinked /\ LedgerMatchesAccount
  BY DEF VenueInv, Sound
<1>2. LedgerMatchesAccount <=> (apart = {} => positions[Stock] = held + Balance)
  BY <1>1, MatchForm
<1>3. (LedgerMatchesAccount <=> (apart = {} => positions[Stock] = held + Balance))'
  BY MatchForm, PTL
<1>4. /\ positions[Stock] \in Int /\ positions'[Stock] \in Int
      /\ held \in Int /\ held' \in Int
  BY <1>1, VenueAssumption DEF VenueAssumption, AccountTypeOK, LedgerTypeOK
<1>5. /\ Balance' = Balance + (OutstandingAt(t)' - OutstandingAt(t))
                            - (UnsoldAt(o)' - UnsoldAt(o))
      /\ Balance \in Int /\ Balance' \in Int
      /\ OutstandingAt(t) \in Int /\ OutstandingAt(t)' \in Int
      /\ UnsoldAt(o) \in Int /\ UnsoldAt(o)' \in Int
  BY <1>1, BalanceMoves
<1> SUFFICES ASSUME apart' = {} PROVE positions'[Stock] = held' + Balance'
  BY <1>3
<1>6. positions[Stock] = held + Balance
  BY <1>1, <1>2
<1>7. positions'[Stock] - positions[Stock] =
         (held' - held) + (OutstandingAt(t)' - OutstandingAt(t))
                        - (UnsoldAt(o)' - UnsoldAt(o))
  OBVIOUS
<1> QED
  BY <1>4, <1>5, <1>6, <1>7

-----------------------------------------------------------------------------
(* The queue *)

\* What Done leaves of the queue, and what it means to be answered
LEMMA DoneQueue ==
    ASSUME AccountTypeOK, queue # <<>>, Done
    PROVE  /\ Head(queue) \in Job
           /\ queue' \in Seq(Job) /\ waiting' \in BOOLEAN
           /\ waiting' => /\ waiting /\ queue' # <<>>
                          /\ queue'[Len(queue')] = queue[Len(queue)]
           /\ Answered => waiting /\ ~waiting' /\ Head(queue) = queue[Len(queue)]
<1>1. queue \in Seq(Job) /\ waiting \in BOOLEAN
  BY DEF AccountTypeOK
<1>2. Head(queue) \in Job /\ queue' \in Seq(Job) /\ waiting' \in BOOLEAN
  BY <1>1 DEF Done
<1>3. Len(queue) \in Nat /\ Len(queue) > 0 /\ Head(queue) = queue[1]
  BY <1>1
<1>4. ASSUME waiting'
      PROVE  waiting /\ queue' # <<>> /\ queue'[Len(queue')] = queue[Len(queue)]
  <2>1. waiting /\ Len(queue) > 1 /\ queue' = Tail(queue)
    BY <1>4 DEF Done
  <2>2. Len(queue') = Len(queue) - 1 /\ queue' # <<>>
    <3>1. Len(Tail(queue)) = Len(queue) - 1
      BY <1>1, <1>3
    <3>2. Len(queue') > 0
      BY <1>3, <2>1, <3>1
    <3>3. queue' # <<>>
      BY <3>2
    <3> QED
      BY <2>1, <3>1, <3>3
  <2>3. Len(queue') \in 1..Len(Tail(queue)) /\ Len(queue) = Len(queue') + 1
    BY <1>3, <2>1, <2>2
  <2>4. queue'[Len(queue')] = queue[Len(queue') + 1]
    BY <1>1, <2>1, <2>3
  <2> QED
    BY <2>1, <2>2, <2>3, <2>4
<1>5. ASSUME Answered PROVE waiting /\ ~waiting' /\ Head(queue) = queue[Len(queue)]
  <2>1. waiting /\ Len(queue) = 1 /\ waiting' = (waiting /\ Len(queue) > 1)
    BY <1>5 DEF Answered, Done
  <2>2. ~(Len(queue) > 1)
    BY <2>1
  <2> QED
    BY <1>3, <2>1, <2>2
<1> QED
  BY <1>2, <1>4, <1>5

\* The job somebody waits for
LEMMA HeadFits ==
    ASSUME Sound, Answered
    PROVE  /\ queue # <<>> /\ CallFits(Head(queue))
           /\ Head(queue) \in Job /\ Head(queue).trade \in Trade /\ Head(queue).qty \in Nat
<1>1. waiting /\ Len(queue) = 1 /\ queue \in Seq(Job)
  BY DEF Answered, Sound, AccountTypeOK
<1>2. queue # <<>> /\ Head(queue) \in Job /\ Head(queue) = queue[Len(queue)]
  BY <1>1
<1>3. CallFits(Head(queue))
  BY <1>1, <1>2 DEF Sound, CallSound
<1> QED
  BY <1>2, <1>3 DEF Job

\* ... is done, and nobody waits any more.
LEMMA AnsweredDone ==
    ASSUME Sound, Answered, Done
    PROVE  queue' \in Seq(Job) /\ waiting' \in BOOLEAN /\ ~waiting'
BY HeadFits, DoneQueue DEF Sound

\* A caller that goes on waiting waits for the same job.
LEMMA StillFits ==
    ASSUME Sound, queue # <<>>, Done, waiting'
    PROVE  /\ queue' # <<>> /\ CallFits(queue'[Len(queue')])
           /\ queue'[Len(queue')] = queue[Len(queue)]
<1>1. AccountTypeOK /\ CallSound
  BY DEF Sound
<1>2. waiting /\ queue' # <<>> /\ queue'[Len(queue')] = queue[Len(queue)]
  BY <1>1, DoneQueue
<1> QED
  BY <1>1, <1>2 DEF CallSound

\* Ledger and account are left alone.
AllKept == UNCHANGED <<trades, positions, tracked, ref, gatewayVars, view, apart>>

\* What a caller found holds as long as they are.
LEMMA FitsKept ==
    ASSUME AllKept, NEW job
    PROVE  CallFits(job)' <=> CallFits(job)
BY DEF AllKept, CallFits, gatewayVars, Resting

\* Steps of the queue keep the invariant.
LEMMA QueueKeeps ==
    ASSUME VenueInv, AllKept, cash' \in Int,
           queue' \in Seq(Job), waiting' \in BOOLEAN, CallSound'
    PROVE  VenueInv'
<1>1. AccountTypeOK'
  BY DEF VenueInv, Sound, AccountTypeOK, LedgerTypeOK, AllKept, gatewayVars
<1>2. TradesSound' /\ PendingLinked' /\ OpenWatched' /\ ViewSound'
  BY DEF VenueInv, Sound, AllKept, gatewayVars, TradesSound, PendingLinked, OpenWatched,
         ViewSound, Resting, ExitOrders
<1>3. ClosedMeansSold'
  BY DEF VenueInv, Sound, AllKept, gatewayVars, ClosedMeansSold, Exits, ExitOrders
<1>4. LedgerMatchesAccount'
  BY DEF VenueInv, AllKept, gatewayVars, LedgerMatchesAccount, Outstanding, Unsold,
         Resting, ExitOrders
<1> QED
  BY <1>1, <1>2, <1>3, <1>4 DEF VenueInv, Sound

\* ... as does a job that comes to nothing.
LEMMA JobDropped ==
    ASSUME VenueInv, queue # <<>>, Done, AllKept, cash' = cash
    PROVE  VenueInv'
<1>1. Sound /\ cash' \in Int /\ AccountTypeOK
  BY DEF VenueInv, Sound, AccountTypeOK, LedgerTypeOK
<1>2. CallSound'
  <2> SUFFICES ASSUME waiting' PROVE (queue # <<>> /\ CallFits(queue[Len(queue)]))'
    BY DEF CallSound
  <2> DEFINE job == queue[Len(queue)]
  <2>1. queue' # <<>> /\ CallFits(job) /\ queue'[Len(queue')] = job
    BY <1>1, StillFits
  <2>2. trades' = trades /\ ibOrders' = ibOrders /\ apart' = apart
    BY DEF AllKept, gatewayVars
  <2> QED
    BY <2>1, <2>2 DEF CallFits, Resting
<1>3. queue' \in Seq(Job) /\ waiting' \in BOOLEAN
  BY <1>1, DoneQueue
<1> QED
  BY <1>1, <1>2, <1>3, QueueKeeps

-----------------------------------------------------------------------------
(* Calls *)

\* A call that fits keeps the invariant.
LEMMA CallKeeps ==
    ASSUME VenueInv, NEW kind \in Placing \cup {"get", "balance"}, NEW t \in Trade,
           NEW qty \in Nat, Call(kind, t, qty),
           CallFits([kind |-> kind, trade |-> t, qty |-> qty])
    PROVE  VenueInv'
<1> DEFINE job == [kind |-> kind, trade |-> t, qty |-> qty]
<1>1. job \in Job
  BY DEF Job
<1>2. AllKept /\ cash' = cash /\ queue' = Append(queue, job) /\ waiting' = TRUE
  BY DEF Call, AllKept, ledgerVars
<1>3. queue \in Seq(Job) /\ cash \in Int
  BY DEF VenueInv, Sound, AccountTypeOK, LedgerTypeOK
<1>4. queue' \in Seq(Job) /\ queue' # <<>> /\ queue'[Len(queue')] = job
  BY <1>1, <1>2, <1>3
<1>5. CallSound'
  <2>1. CallFits(queue'[Len(queue')])
    BY <1>4
  <2>2. trades' = trades /\ ibOrders' = ibOrders /\ apart' = apart
    BY <1>2 DEF AllKept, gatewayVars
  <2> QED
    BY <1>4, <2>1, <2>2 DEF CallSound, CallFits, Resting
<1> QED
  BY <1>2, <1>3, <1>4, <1>5, QueueKeeps

\* Every call of the agent fits.
LEMMA CallsKeep ==
    ASSUME VenueInv, NEW t \in Trade,
           Buy(t) \/ Sell(t) \/ StartPoll(t) \/ StartExit(t)
    PROVE  VenueInv'
<1>1. Growth \in Nat /\ Quantity \subseteq Nat
  BY VenueAssumption DEF VenueAssumption
<1>2. positions[Stock] \in Int
  BY VenueAssumption DEF VenueAssumption, VenueInv, Sound, AccountTypeOK, LedgerTypeOK
<1>3. ASSUME NEW kind, NEW n, Unused(t), kind \in {"buy", "sell"}
      PROVE  CallFits([kind |-> kind, trade |-> t, qty |-> n])
  BY <1>3 DEF Unused, CallFits
<1>4. CASE Buy(t)
  <2>1. PICK n \in Nat : Unused(t) /\ Call("buy", t, n)
    BY <1>1, <1>4 DEF Buy, Scaled
  <2> QED
    BY <1>3, <2>1, CallKeeps DEF Placing
<1>5. CASE Sell(t)
  <2>1. PICK n \in Nat : Unused(t) /\ Call("sell", t, n)
    BY <1>1, <1>2, <1>5 DEF Sell, Scaled
  <2> QED
    BY <1>3, <2>1, CallKeeps DEF Placing
<1>6. CASE StartPoll(t)
  <2>1. t \in Resting /\ Call("get", t, 0)
    BY <1>6 DEF StartPoll, Resting
  <2>2. CallFits([kind |-> "get", trade |-> t, qty |-> 0])
    BY <2>1 DEF CallFits
  <2> QED
    BY <2>1, <2>2, CallKeeps
<1>7. CASE StartExit(t)
  <2>1. /\ trades[t].status = "filled" /\ trades[t].action = "buy"
        /\ Call("balance", t, 0)
    BY <1>7 DEF StartExit
  <2>2. CallFits([kind |-> "balance", trade |-> t, qty |-> 0])
    BY <2>1 DEF CallFits
  <2> QED
    BY <2>1, <2>2, CallKeeps
<1> QED
  BY <1>4, <1>5, <1>6, <1>7

\* The exit that follows a balance, of a quantity of the ledger's or less
LEMMA ExitFollows ==
    ASSUME VenueInv, AllKept, cash' = cash, NEW t \in Trade, NEW qty \in Nat,
           trades[t].status = "filled", trades[t].action = "buy",
           waiting' = TRUE, queue' = Append(queue, ExitJob(t, qty)) \/ queue' = <<ExitJob(t, qty)>>
    PROVE  VenueInv'
<1>1. ExitJob(t, qty) \in Job
  BY DEF ExitJob, Job, Placing
<1>2. queue \in Seq(Job) /\ cash \in Int
  BY DEF VenueInv, Sound, AccountTypeOK, LedgerTypeOK
<1>3. queue' \in Seq(Job) /\ queue' # <<>> /\ queue'[Len(queue')] = ExitJob(t, qty)
  <2>1. CASE queue' = Append(queue, ExitJob(t, qty))
    BY <1>1, <1>2, <2>1
  <2>2. CASE queue' = <<ExitJob(t, qty)>>
    BY <1>1, <2>2
  <2> QED
    BY <2>1, <2>2
<1>4. trades' = trades
  BY DEF AllKept
<1>5. CallSound'
  BY <1>3, <1>4 DEF CallSound, CallFits, ExitJob
<1> QED
  BY <1>2, <1>3, <1>5, QueueKeeps

\* A caller that gives up, or goes on with an exit, keeps the invariant.
LEMMA GiveUpKeeps ==
    ASSUME VenueInv, GiveUp
    PROVE  VenueInv'
<1> DEFINE last == queue[Len(queue)]
<1>1. AllKept /\ cash' = cash
  BY DEF GiveUp, AllKept, ledgerVars
<1>2. Sound /\ AccountTypeOK /\ TradesSound /\ CallSound /\ queue \in Seq(Job) /\ cash \in Int
  BY DEF VenueInv, Sound, AccountTypeOK, LedgerTypeOK
<1>3. queue # <<>> /\ CallFits(last)
  BY <1>2 DEF CallSound, GiveUp
<1>4. last \in Job /\ last.trade \in Trade
  <2>1. Len(queue) \in 1..Len(queue)
    BY <1>2, <1>3
  <2>2. last \in Job
    BY <1>2, <2>1
  <2> QED
    BY <2>2 DEF Job
<1>5. CASE last.kind = "balance"
  <2>1. /\ queue' = Append(queue, ExitJob(last.trade, Held(trades[last.trade])))
        /\ waiting' = TRUE
    BY <1>5 DEF GiveUp
  <2>2. trades[last.trade].status = "filled" /\ trades[last.trade].action = "buy"
    BY <1>3, <1>5 DEF CallFits
  <2>3. Held(trades[last.trade]) \in Nat
    BY <1>2, <1>4, SoundTrade
  <2> HIDE DEF last
  <2> QED
    BY <1>1, <1>4, <2>1, <2>2, <2>3, ExitFollows
<1>6. CASE last.kind # "balance"
  <2>1. waiting' = FALSE /\ queue' = queue
    BY <1>6 DEF GiveUp
  <2>2. CallSound'
    BY <2>1 DEF CallSound
  <2> QED
    BY <1>1, <1>2, <2>1, <2>2, QueueKeeps
<1> QED
  BY <1>5, <1>6

\* Taking the cash over disturbs no position.
LEMMA CashKeeps ==
    ASSUME VenueInv, RefreshIbkrHoldings
    PROVE  VenueInv'
<1>1. AllKept /\ queue' = queue /\ waiting' = waiting /\ ~waiting
  BY DEF RefreshIbkrHoldings, AllKept
<1>2. /\ queue \in Seq(Job) /\ waiting \in BOOLEAN /\ view.held \in Int
  BY DEF VenueInv, Sound, AccountTypeOK
<1>3. cash' \in Int
  BY <1>2, LedgerAssumption DEF LedgerAssumption, RefreshIbkrHoldings
<1>4. CallSound'
  BY <1>1 DEF CallSound
<1> QED
  BY <1>1, <1>2, <1>3, <1>4, QueueKeeps

-----------------------------------------------------------------------------
(* Placing orders *)

NewId == Len(ibOrders) + 1
SentOrder(job) == [kind |-> job.kind, trade |-> job.trade, shares |-> Shares(job),
                   filled |-> 0, st |-> "open"]

\* A placed order is one more, and it is heard of.
LEMMA PlacedOrder ==
    ASSUME AccountTypeOK, ViewSound, NEW job \in Job, job.kind \in Placing, Placed(job)
    PROVE  /\ ibOrders' \in Seq(VenueOrder) /\ view' \in [orders: Seq(VenueOrder), held: Int]
           /\ held' = held /\ connected' = connected
           /\ NewId \in Nat /\ NewId \notin DOMAIN ibOrders
           /\ Len(ibOrders') = NewId /\ DOMAIN ibOrders' = DOMAIN ibOrders \cup {NewId}
           /\ \A p \in DOMAIN ibOrders : ibOrders'[p] = ibOrders[p]
           /\ ibOrders'[NewId] = SentOrder(job)
           /\ ViewSound'
<1> DEFINE order == SentOrder(job)
<1>1. /\ ibOrders \in Seq(VenueOrder) /\ view.orders \in Seq(VenueOrder)
      /\ view.held \in Int /\ held \in Int
  BY DEF AccountTypeOK
<1>2. order \in VenueOrder
  <2>1. Shares(job) \in Nat
    BY VenueAssumption DEF VenueAssumption, Job, Shares
  <2> QED
    BY <2>1 DEF Job, SentOrder, VenueOrder
<1>3. /\ ibOrders' = Append(ibOrders, order)
      /\ held' = held /\ connected' = connected /\ connected
  BY DEF Placed, SentOrder
<1>4. PICK heard \in {view, [orders |-> ibOrders, held |-> held]} :
         view' = [heard EXCEPT !.orders = Append(@, order)]
  BY DEF Placed, SentOrder
<1>5. /\ heard \in [orders: Seq(VenueOrder), held: Int]
      /\ Len(heard.orders) = Len(ibOrders)
      /\ \A p \in DOMAIN heard.orders :
            heard.orders[p].st # "open" => heard.orders[p] = ibOrders[p]
  BY <1>1, <1>3 DEF ViewSound, AccountTypeOK
<1>6. /\ Len(ibOrders) \in Nat /\ NewId \in Nat
      /\ DOMAIN ibOrders = 1..Len(ibOrders) /\ NewId \notin DOMAIN ibOrders
  BY <1>1 DEF NewId
<1> HIDE DEF order
<1>7. /\ ibOrders' \in Seq(VenueOrder)
      /\ Len(ibOrders') = NewId /\ DOMAIN ibOrders' = DOMAIN ibOrders \cup {NewId}
      /\ \A p \in DOMAIN ibOrders : ibOrders'[p] = ibOrders[p]
      /\ ibOrders'[NewId] = order
  BY <1>1, <1>2, <1>3, <1>6 DEF NewId
<1> DEFINE told == Append(heard.orders, order)
<1>8. /\ told \in Seq(VenueOrder)
      /\ Len(told) = NewId /\ DOMAIN told = DOMAIN ibOrders \cup {NewId}
      /\ DOMAIN heard.orders = DOMAIN ibOrders
      /\ \A p \in DOMAIN ibOrders : told[p] = heard.orders[p]
      /\ told[NewId] = order
  BY <1>2, <1>5, <1>6 DEF NewId
<1>9. view' \in [orders: Seq(VenueOrder), held: Int] /\ view'.orders = told
  BY <1>4, <1>5, <1>8
<1>10. ViewSound'
  <2> HIDE DEF told
  <2>1. \A p \in DOMAIN told : told[p].st # "open" => told[p] = ibOrders'[p]
    BY <1>5, <1>7, <1>8
  <2>2. Len(view'.orders) = Len(ibOrders') /\ Len(ibOrders') \in Nat
    BY <1>6, <1>7, <1>8, <1>9
  <2> QED
    BY <1>9, <2>1, <2>2 DEF ViewSound
<1> QED
  BY <1>3, <1>6, <1>7, <1>9, <1>10 DEF order

\* The exits of a trade are finitely many ...
LEMMA ExitsFinite ==
    ASSUME AccountTypeOK, NEW t
    PROVE  IsFiniteSet(Exits(t)) /\ NewId \notin Exits(t)
<1>1. DOMAIN ibOrders = 1..Len(ibOrders) /\ Len(ibOrders) \in Nat
  BY DEF AccountTypeOK
<1>2. IsFiniteSet(DOMAIN ibOrders)
  BY <1>1, FS_Interval
<1>3. NewId \notin DOMAIN ibOrders
  BY <1>1 DEF NewId
<1> QED
  BY <1>2, <1>3, FS_Subset DEF Exits, ExitOrders

\* ... and one more for a placed exit.
LEMMA ExitsGrow ==
    ASSUME AccountTypeOK, ViewSound, NEW job \in Job, job.kind \in Placing, Placed(job), NEW t
    PROVE  Exits(t)' = IF job.kind = "exit" /\ job.trade = t THEN Exits(t) \cup {NewId}
                                                             ELSE Exits(t)
<1>1. /\ NewId \notin DOMAIN ibOrders
      /\ DOMAIN ibOrders' = DOMAIN ibOrders \cup {NewId}
      /\ \A p \in DOMAIN ibOrders : ibOrders'[p] = ibOrders[p]
      /\ ibOrders'[NewId] = SentOrder(job)
  BY PlacedOrder
<1>2. ibOrders'[NewId].kind = job.kind /\ ibOrders'[NewId].trade = job.trade
  BY <1>1 DEF SentOrder
<1>3. /\ \A p : p \in Exits(t) <=> /\ p \in DOMAIN ibOrders
                                  /\ ibOrders[p].kind = "exit" /\ ibOrders[p].trade = t
      /\ \A p : p \in Exits(t)' <=> /\ p \in DOMAIN ibOrders'
                                   /\ ibOrders'[p].kind = "exit" /\ ibOrders'[p].trade = t
  BY DEF Exits, ExitOrders
<1>4. \A p : p \in Exits(t)' <=>
                \/ p \in Exits(t)
                \/ p = NewId /\ job.kind = "exit" /\ job.trade = t
  BY <1>1, <1>2, <1>3
<1>5. CASE job.kind = "exit" /\ job.trade = t
  BY <1>4, <1>5
<1>6. CASE ~(job.kind = "exit" /\ job.trade = t)
  BY <1>4, <1>6
<1> QED
  BY <1>5, <1>6

\* Placing disturbs no pending trade.
LEMMA PlacedLinks ==
    ASSUME Sound, NEW job \in Job, job.kind \in Placing, Placed(job),
           NEW t \in Resting
    PROVE  ref[t] \in DOMAIN ibOrders' /\ ibOrders'[ref[t]] = ibOrders[ref[t]]
<1>1. AccountTypeOK /\ ViewSound /\ PendingLinked
  BY DEF Sound
<1>2. /\ DOMAIN ibOrders' = DOMAIN ibOrders \cup {NewId}
      /\ \A p \in DOMAIN ibOrders : ibOrders'[p] = ibOrders[p]
  BY <1>1, PlacedOrder
<1> QED
  BY <1>1, <1>2 DEF PendingLinked

\* An order nobody books sets ledger and account apart.
LEMMA PlacedApart ==
    ASSUME VenueInv, queue # <<>>, Done, NEW job \in Job, job.kind \in Placing, Placed(job),
           UNCHANGED <<ledgerVars, ref>>, NEW c \in VenueCause, apart' = apart \cup {c},
           c = "late" \/ job.kind # "exit"
    PROVE  VenueInv'
<1>1. Sound /\ AccountTypeOK /\ ViewSound
  BY DEF VenueInv, Sound
<1>2. trades' = trades /\ ref' = ref
  BY DEF ledgerVars
<1>3. /\ ibOrders' \in Seq(VenueOrder) /\ view' \in [orders: Seq(VenueOrder), held: Int]
      /\ held' = held /\ connected' = connected /\ ViewSound'
  BY <1>1, PlacedOrder
<1>4. AccountTypeOK'
  <2>1. queue' \in Seq(Job) /\ waiting' \in BOOLEAN
    BY <1>1, DoneQueue
  <2> QED
    BY <1>1, <1>3, <2>1 DEF AccountTypeOK, LedgerTypeOK, ledgerVars
<1>5. TradesSound' /\ PendingLinked'
  <2>1. TradesSound'
    BY <1>1, <1>2 DEF Sound, TradesSound
  <2>2. PendingLinked'
    BY <1>1, <1>2, PlacedLinks DEF Sound, PendingLinked, Resting
  <2> QED
    BY <2>1, <2>2
<1>6. OpenWatched' /\ LedgerMatchesAccount'
  BY DEF OpenWatched, LedgerMatchesAccount
<1>7. CallSound'
  <2> SUFFICES ASSUME waiting' PROVE (queue # <<>> /\ CallFits(queue[Len(queue)]))'
    BY DEF CallSound
  <2> DEFINE call == queue[Len(queue)]
  <2>1. queue' # <<>> /\ CallFits(call) /\ queue'[Len(queue')] = call
    BY <1>1, StillFits
  <2>2. apart' # {}
    OBVIOUS
  <2> QED
    BY <1>2, <2>1, <2>2 DEF CallFits, Resting
<1>8. ClosedMeansSold'
  <2> SUFFICES ASSUME apart' \cap {"late", "unsold"} = {}, NEW t \in Trade
               PROVE  Cardinality(Exits(t)') = IF trades'[t].status = "closed" THEN 1 ELSE 0
    BY DEF ClosedMeansSold
  <2>1. c # "late" /\ apart \cap {"late", "unsold"} = {}
    OBVIOUS
  <2>2. Exits(t)' = Exits(t)
    BY <1>1, <2>1, ExitsGrow
  <2> QED
    BY <1>1, <1>2, <2>1, <2>2 DEF Sound, ClosedMeansSold
<1> QED
  BY <1>3, <1>4, <1>5, <1>6, <1>7, <1>8 DEF VenueInv, Sound

-----------------------------------------------------------------------------
(* The gateway *)

\* What the gateway does to an open order
Altered(o, new) ==
    /\ o \in DOMAIN ibOrders /\ ibOrders[o].st = "open"
    /\ new \in VenueOrder
    /\ new.kind = ibOrders[o].kind /\ new.trade = ibOrders[o].trade
    /\ new.shares = ibOrders[o].shares
    /\ ibOrders' = [ibOrders EXCEPT ![o] = new]
    /\ held' \in Int
    /\ UNCHANGED <<ledgerVars, ref, connected, view, queue, waiting, apart>>

\* ... and what that leaves
LEMMA AlteredOrders ==
    ASSUME Sound, NEW o, NEW new, Altered(o, new)
    PROVE  /\ ibOrders' \in Seq(VenueOrder)
           /\ Len(ibOrders') = Len(ibOrders) /\ DOMAIN ibOrders' = DOMAIN ibOrders
           /\ ibOrders'[o] = new /\ OrderKept(o)
           /\ \A p \in DOMAIN ibOrders :
                 /\ ibOrders'[p].kind = ibOrders[p].kind
                 /\ ibOrders'[p].trade = ibOrders[p].trade
                 /\ ibOrders'[p].st = "open" => ibOrders[p].st = "open"
                 /\ ibOrders[p].st # "open" => ibOrders'[p] = ibOrders[p]
           /\ ExitOrders' = ExitOrders
<1>1. ibOrders \in Seq(VenueOrder) /\ o \in 1..Len(ibOrders) /\ new \in VenueOrder
  BY DEF Sound, AccountTypeOK, Altered
<1>2. ibOrders' = [ibOrders EXCEPT ![o] = new]
  BY DEF Altered
<1>3. /\ ibOrders' \in Seq(VenueOrder)
      /\ Len(ibOrders') = Len(ibOrders) /\ DOMAIN ibOrders' = DOMAIN ibOrders
      /\ ibOrders'[o] = new
      /\ \A p \in DOMAIN ibOrders \ {o} : ibOrders'[p] = ibOrders[p]
  BY <1>1, <1>2
<1>4. \A p \in DOMAIN ibOrders :
         /\ ibOrders'[p].kind = ibOrders[p].kind
         /\ ibOrders'[p].trade = ibOrders[p].trade
         /\ ibOrders'[p].st = "open" => ibOrders[p].st = "open"
         /\ ibOrders[p].st # "open" => ibOrders'[p] = ibOrders[p]
  BY <1>3 DEF Altered
<1>5. ExitOrders' = ExitOrders
  BY <1>3, <1>4 DEF ExitOrders
<1> QED
  BY <1>3, <1>4, <1>5 DEF OrderKept

\* ... keeps ledger and account linked.
LEMMA AlteredSound ==
    ASSUME Sound, NEW o, NEW new, Altered(o, new)
    PROVE  Sound'
<1>1. /\ ibOrders' \in Seq(VenueOrder)
      /\ Len(ibOrders') = Len(ibOrders) /\ DOMAIN ibOrders' = DOMAIN ibOrders
      /\ \A p \in DOMAIN ibOrders :
            /\ ibOrders'[p].kind = ibOrders[p].kind
            /\ ibOrders'[p].trade = ibOrders[p].trade
            /\ ibOrders'[p].st = "open" => ibOrders[p].st = "open"
            /\ ibOrders[p].st # "open" => ibOrders'[p] = ibOrders[p]
      /\ ExitOrders' = ExitOrders
  BY AlteredOrders
<1>2. /\ trades' = trades /\ positions' = positions /\ tracked' = tracked /\ cash' = cash
      /\ ref' = ref /\ view' = view /\ queue' = queue /\ waiting' = waiting
      /\ connected' = connected /\ apart' = apart /\ held' \in Int
  BY DEF Altered, ledgerVars
<1>3. AccountTypeOK'
  BY <1>1, <1>2 DEF Sound, AccountTypeOK, LedgerTypeOK
<1>4. TradesSound'
  BY <1>2 DEF Sound, TradesSound
<1>5. PendingLinked'
  BY <1>1, <1>2 DEF Sound, PendingLinked, Resting
<1>6. OpenWatched'
  <2> SUFFICES ASSUME apart = {}, NEW p \in DOMAIN ibOrders \ ExitOrders, ibOrders'[p].st = "open"
               PROVE  ibOrders'[p].trade \in Resting /\ ref[ibOrders'[p].trade] = p
    BY <1>1, <1>2 DEF OpenWatched, Resting
  <2>1. ibOrders[p].st = "open" /\ ibOrders'[p].trade = ibOrders[p].trade
    BY <1>1
  <2> QED
    BY <2>1 DEF Sound, OpenWatched
<1>7. ViewSound'
  <2>1. /\ Len(view.orders) <= Len(ibOrders')
        /\ connected => Len(view.orders) = Len(ibOrders')
    BY <1>1 DEF Sound, ViewSound
  <2>2. ASSUME NEW p \in DOMAIN view.orders, view.orders[p].st # "open"
        PROVE  view.orders[p] = ibOrders'[p]
    <3>1. view.orders[p] = ibOrders[p]
      BY <2>2 DEF Sound, ViewSound
    <3>2. p \in DOMAIN ibOrders
      <4>1. view.orders \in Seq(VenueOrder) /\ ibOrders \in Seq(VenueOrder)
        BY DEF Sound, AccountTypeOK
      <4> QED
        BY <4>1 DEF Sound, ViewSound
    <3> QED
      BY <1>1, <2>2, <3>1, <3>2
  <2> QED
    BY <1>2, <2>1, <2>2 DEF ViewSound
<1>8. CallSound'
  BY <1>1, <1>2 DEF Sound, CallSound, CallFits, Resting
<1>9. ClosedMeansSold'
  <2>1. ASSUME NEW t PROVE Exits(t)' = Exits(t)
    BY <1>1 DEF Exits, ExitOrders
  <2> QED
    BY <1>2, <2>1 DEF Sound, ClosedMeansSold
<1> QED
  BY <1>3, <1>4, <1>5, <1>6, <1>7, <1>8, <1>9 DEF Sound

More(o, new) == (new.filled - ibOrders[o].filled) * Unit

\* An altered order keeps the books if the shares move by what is filled.
LEMMA AlteredMatches ==
    ASSUME VenueInv, NEW o, NEW new, Altered(o, new),
           held' = IF new.kind = "buy" THEN held + More(o, new) ELSE held - More(o, new)
    PROVE  VenueInv'
<1> DEFINE old == ibOrders[o]
           more == More(o, new)
<1>1. Sound /\ Sound' /\ OrderKept(o) /\ ibOrders'[o] = new /\ ExitOrders' = ExitOrders
  BY AlteredSound, AlteredOrders DEF VenueInv
<1>2. /\ trades' = trades /\ positions' = positions /\ ref' = ref /\ apart' = apart
      /\ o \in DOMAIN ibOrders /\ old.st = "open" /\ new.kind = old.kind
      /\ new.shares = old.shares
  BY DEF Altered, ledgerVars
<1>3. /\ old.filled \in Int /\ old.shares \in Int /\ new.filled \in Int /\ old.trade \in Trade
      /\ Unit \in Int /\ old.kind \in Placing
  BY <1>1, <1>2, AccountOrder, VenueAssumption DEF Sound, Altered, VenueOrder, VenueAssumption
<1> PICK t \in Trade : t = old.trade
  BY <1>3
<1>4. AccountTypeOK' /\ TradesSound' /\ PendingLinked' /\ TradeKept(t)
  BY <1>1, <1>2 DEF Sound, TradeKept
<1>5. \A u \in Resting \ {t} : ref[u] # o
  BY <1>1 DEF Sound, PendingLinked
<1>6. /\ more \in Int /\ held \in Int /\ positions[Stock] \in Int
      /\ old.filled * Unit \in Int /\ new.filled * Unit \in Int
      /\ new.filled * Unit - old.filled * Unit = more
  <2>1. held \in Int /\ positions[Stock] \in Int
    BY <1>1, VenueAssumption DEF VenueAssumption, Sound, AccountTypeOK, LedgerTypeOK
  <2>2. more = (new.filled - old.filled) * Unit
    BY DEF More
  <2> HIDE DEF old, more
  <2> QED
    BY <1>3, <2>1, <2>2
<1>7. Resting' = Resting
  BY <1>2 DEF Resting
<1>8. ASSUME apart' = {}
      PROVE  /\ apart = {}
             /\ positions'[Stock] - positions[Stock] =
                  (held' - held) + (OutstandingAt(t)' - OutstandingAt(t))
                                 - (UnsoldAt(o)' - UnsoldAt(o))
  <2>1. CASE old.kind = "exit"
    <3>1. held' = held - more
      BY <1>2, <2>1
    <3>2. OutstandingAt(t)' = OutstandingAt(t) /\ OutstandingAt(t) \in Int
      <4>1. CASE t \in Resting
        <5>1. ref[t] \in DOMAIN ibOrders \ {o}
          <6>1. trades[t].action \in Action
            BY <1>1 DEF Sound, AccountTypeOK, LedgerTypeOK, TradeRecord
          <6>2. ref[t] \in DOMAIN ibOrders /\ ibOrders[ref[t]].kind = trades[t].action
            BY <1>1, <4>1 DEF Sound, PendingLinked
          <6> QED
            BY <2>1, <6>1, <6>2 DEF Action
        <5>2. ibOrders'[ref[t]] = ibOrders[ref[t]]
          BY <1>1, <5>1 DEF OrderKept
        <5>3. Outstanding'[t] = Outstanding[t]
          BY <1>2, <1>7, <4>1, <5>2 DEF Outstanding
        <5>4. Outstanding[t] \in Int
          BY <1>1, <4>1, VenueTerms DEF Sound, TermsSound
        <5> QED
          BY <1>7, <4>1, <5>3, <5>4 DEF OutstandingAt, Term
      <4>2. CASE t \notin Resting
        BY <1>7, <4>2 DEF OutstandingAt, Term
      <4> QED
        BY <4>1, <4>2
    <3>3. /\ UnsoldAt(o) = (old.shares - old.filled) * Unit
          /\ UnsoldAt(o)' = (old.shares - new.filled) * Unit
      <4>1. o \in ExitOrders
        BY <1>2, <2>1 DEF ExitOrders
      <4> QED
        BY <1>1, <1>2, <4>1 DEF UnsoldAt, Term, Unsold
    <3>4. (old.shares - new.filled) * Unit - (old.shares - old.filled) * Unit = 0 - more
      <4>1. more = (new.filled - old.filled) * Unit
        BY DEF More
      <4> HIDE DEF old, more
      <4> QED
        BY <1>3, <4>1
    <3>5. UnsoldAt(o)' - UnsoldAt(o) = 0 - more
      BY <3>3, <3>4
    <3> HIDE DEF more, old
    <3> QED
      BY <1>2, <1>6, <1>8, <3>1, <3>2, <3>5
  <2>2. CASE old.kind # "exit"
    <3>1. t \in Resting /\ ref[t] = o /\ trades[t].action = old.kind
      BY <1>1, <1>2, <1>8, <2>2 DEF Sound, OpenWatched, PendingLinked, ExitOrders
    <3>2. UnsoldAt(o) = 0 /\ UnsoldAt(o)' = 0
      BY <1>1, <2>2 DEF UnsoldAt, Term, ExitOrders
    <3>3. /\ OutstandingAt(t) = Sign(trades[t]) * (trades[t].qty - old.filled * Unit)
          /\ OutstandingAt(t)' = Sign(trades[t]) * (trades[t].qty - new.filled * Unit)
      BY <1>1, <1>2, <1>7, <3>1 DEF OutstandingAt, Term, Outstanding
    <3>4. trades[t].qty \in Int
      BY <1>1, <1>3, SoundTrade DEF Sound
    <3>5. CASE old.kind = "buy"
      <4>1. Sign(trades[t]) = 1 /\ held' = held + more
        BY <1>2, <3>1, <3>5 DEF Sign
      <4>2. OutstandingAt(t)' - OutstandingAt(t) = 0 - more
        <5> HIDE DEF old, more
        <5> QED
          BY <1>6, <3>3, <3>4, <4>1
      <4> HIDE DEF old, more
      <4> QED
        BY <1>2, <1>6, <1>8, <3>2, <4>1, <4>2
    <3>6. CASE old.kind # "buy"
      <4>1. Sign(trades[t]) = -1 /\ held' = held - more
        BY <1>2, <3>1, <3>6 DEF Sign
      <4>2. OutstandingAt(t)' - OutstandingAt(t) = more
        <5> HIDE DEF old, more
        <5> QED
          BY <1>6, <3>3, <3>4, <4>1
      <4> HIDE DEF old, more
      <4> QED
        BY <1>2, <1>6, <1>8, <3>2, <4>1, <4>2
    <3> QED
      BY <3>5, <3>6
  <2> QED
    BY <2>1, <2>2
<1>9. LedgerMatchesAccount'
  BY <1>1, <1>4, <1>5, <1>8, MatchMoves
<1> QED
  BY <1>1, <1>9 DEF VenueInv

\* Fills, whole or partial
LEMMA FillSharesKeeps ==
    ASSUME VenueInv, NEW o \in DOMAIN ibOrders, FillShares(o)
    PROVE  VenueInv'
<1> DEFINE old == ibOrders[o]
<1>1. old \in VenueOrder /\ old.shares \in Nat /\ old.filled \in Nat /\ held \in Int
      /\ Unit \in Int
  BY AccountOrder, VenueAssumption DEF VenueInv, Sound, AccountTypeOK, VenueAssumption
<1>2. PICK n \in 1..(old.shares - old.filled) :
         /\ ibOrders' = [ibOrders EXCEPT ![o].filled = old.filled + n,
                           ![o].st = IF old.filled + n = old.shares THEN "filled" ELSE @]
         /\ held' = IF old.kind = "buy" THEN held + n * Unit ELSE held - n * Unit
  BY DEF FillShares
<1> DEFINE new == [old EXCEPT !.filled = old.filled + n,
                     !.st = IF old.filled + n = old.shares THEN "filled" ELSE old.st]
<1>3. n \in Nat /\ old.filled + n \in Nat /\ n * Unit \in Int
  BY <1>1
<1>4. /\ new \in VenueOrder /\ new.kind = old.kind /\ new.trade = old.trade
      /\ new.shares = old.shares /\ new.filled = old.filled + n
  BY <1>1, <1>3 DEF VenueOrder
<1>5. ibOrders' = [ibOrders EXCEPT ![o] = new]
  BY <1>2 DEF VenueInv, Sound, AccountTypeOK
<1>6. held' \in Int
  BY <1>1, <1>2, <1>3
<1>7. Altered(o, new)
  BY <1>4, <1>5, <1>6 DEF Altered, FillShares
<1>8. More(o, new) = n * Unit
  BY <1>1, <1>3, <1>4 DEF More
<1>9. held' = IF new.kind = "buy" THEN held + More(o, new) ELSE held - More(o, new)
  BY <1>2, <1>4, <1>8
<1> QED
  BY <1>7, <1>9, AlteredMatches

\* Ends without a fill
LEMMA EndKeeps ==
    ASSUME VenueInv, NEW o \in DOMAIN ibOrders, End(o)
    PROVE  VenueInv'
<1> DEFINE old == ibOrders[o]
<1>1. old \in VenueOrder /\ old.filled \in Nat /\ held \in Int /\ Unit \in Int
  BY AccountOrder, VenueAssumption DEF VenueInv, Sound, AccountTypeOK, VenueAssumption
<1>2. PICK st \in {"cancelled", "inactive"} : ibOrders' = [ibOrders EXCEPT ![o].st = st]
  BY DEF End
<1> DEFINE new == [old EXCEPT !.st = st]
<1>3. /\ new \in VenueOrder /\ new.kind = old.kind /\ new.trade = old.trade
      /\ new.shares = old.shares /\ new.filled = old.filled
  BY <1>1 DEF VenueOrder
<1>4. ibOrders' = [ibOrders EXCEPT ![o] = new] /\ held' = held
  BY <1>2 DEF End, VenueInv, Sound, AccountTypeOK
<1>5. Altered(o, new)
  BY <1>1, <1>3, <1>4 DEF Altered, End
<1>6. More(o, new) = 0
  BY <1>1, <1>3 DEF More
<1>7. held' = IF new.kind = "buy" THEN held + More(o, new) ELSE held - More(o, new)
  BY <1>1, <1>4, <1>6
<1> QED
  BY <1>5, <1>7, AlteredMatches

\* What was heard may be forgotten.
LEMMA DisconnectKeeps ==
    ASSUME VenueInv, Disconnect
    PROVE  VenueInv'
<1>1.
      /\ trades' = trades /\ positions' = positions /\ tracked' = tracked /\ cash' = cash
      /\ ref' = ref /\ ibOrders' = ibOrders /\ held' = held /\ queue' = queue
      /\ waiting' = waiting /\ apart' = apart /\ connected' = FALSE
  BY DEF Disconnect, ledgerVars
<1>2. AccountTypeOK'
  <2>1. view \in [orders: Seq(VenueOrder), held: Int]
    BY DEF VenueInv, Sound, AccountTypeOK
  <2>2. Nothing \in [orders: Seq(VenueOrder), held: Int]
    BY DEF Nothing
  <2>3. view' \in [orders: Seq(VenueOrder), held: Int]
    BY <2>1, <2>2 DEF Disconnect
  <2> QED
    BY <1>1, <2>3 DEF VenueInv, Sound, AccountTypeOK, LedgerTypeOK
<1>3. ViewSound'
  <2>1. CASE view' = view
    BY <1>1, <2>1 DEF VenueInv, Sound, ViewSound
  <2>2. CASE view' = Nothing
    <3>1. view'.orders = <<>> /\ Len(ibOrders) \in Nat
      BY <2>2 DEF Nothing, VenueInv, Sound, AccountTypeOK
    <3> QED
      BY <1>1, <3>1 DEF ViewSound
  <2> QED
    BY <2>1, <2>2 DEF Disconnect
<1>4. TradesSound' /\ PendingLinked' /\ OpenWatched' /\ CallSound'
  BY <1>1 DEF VenueInv, Sound, TradesSound, PendingLinked, OpenWatched, CallSound,
              CallFits, Resting, ExitOrders
<1>5. ClosedMeansSold'
  BY <1>1 DEF VenueInv, Sound, ClosedMeansSold, Exits, ExitOrders
<1>6. LedgerMatchesAccount'
  BY <1>1 DEF VenueInv, LedgerMatchesAccount, Outstanding, Unsold, Resting, ExitOrders
<1> QED
  BY <1>2, <1>3, <1>4, <1>5, <1>6 DEF VenueInv, Sound

-----------------------------------------------------------------------------
(* Polls and balances *)

\* A trade that is settled by what was heard keeps ledger and account linked.
LEMMA SettledSound ==
    ASSUME Sound, UNCHANGED <<ref, gatewayVars, view>>,
           NEW t \in Trade, NEW new \in TradeRecord, trades' = [trades EXCEPT ![t] = new],
           LedgerTypeOK', queue' \in Seq(Job), waiting' \in BOOLEAN, ~waiting',
           apart \subseteq apart', apart' \subseteq VenueCause,
           new.status # "pending", new.pair = Stock,
           new.qty \in Nat, new.fqty = Unset \/ new.fqty \in Nat,
           apart' = {} /\ t \in Resting => ibOrders[ref[t]].st # "open",
           trades[t].status # "closed", new.status = "closed" => "unsold" \in apart'
    PROVE  Sound' /\ TradeKept(t) /\ t \notin Resting'
<1>1. /\ ref' = ref /\ ibOrders' = ibOrders /\ held' = held /\ connected' = connected
      /\ view' = view
  BY DEF gatewayVars
<1>2. trades'[t] = new /\ \A u \in Trade \ {t} : trades'[u] = trades[u]
  BY DEF Sound, AccountTypeOK, LedgerTypeOK
<1>3. TradeKept(t) /\ t \notin Resting' /\ Resting' = Resting \ {t}
  BY <1>1, <1>2 DEF TradeKept, Resting
<1>4. AccountTypeOK'
  BY <1>1 DEF Sound, AccountTypeOK
<1>5. TradesSound'
  BY <1>2 DEF Sound, TradesSound
<1>6. PendingLinked'
  BY <1>1, <1>2, <1>3 DEF Sound, PendingLinked, Resting
<1>7. OpenWatched'
  <2> SUFFICES ASSUME apart' = {}, NEW o \in DOMAIN ibOrders \ ExitOrders, ibOrders[o].st = "open"
               PROVE  ibOrders[o].trade \in Resting' /\ ref[ibOrders[o].trade] = o
    BY <1>1 DEF OpenWatched, ExitOrders
  <2>1. ibOrders[o].trade \in Resting /\ ref[ibOrders[o].trade] = o
    BY DEF Sound, OpenWatched
  <2> QED
    BY <1>3, <2>1
<1>8. ViewSound' /\ CallSound'
  BY <1>1 DEF Sound, ViewSound, CallSound
<1>9. ClosedMeansSold'
  <2> SUFFICES ASSUME apart' \cap {"late", "unsold"} = {}, NEW u \in Trade
               PROVE  Cardinality(Exits(u)') = IF trades'[u].status = "closed" THEN 1 ELSE 0
    BY DEF ClosedMeansSold
  <2>1. Exits(u)' = Exits(u)
    BY <1>1 DEF Exits, ExitOrders
  <2>2. trades'[u].status = "closed" <=> trades[u].status = "closed"
    BY <1>2
  <2> QED
    BY <2>1, <2>2 DEF Sound, ClosedMeansSold
<1> QED
  BY <1>3, <1>4, <1>5, <1>6, <1>7, <1>8, <1>9 DEF Sound

\* ... and the books if the position gives up what was outstanding.
LEMMA SettledMatches ==
    ASSUME VenueInv, Sound', UNCHANGED gatewayVars,
           NEW t \in Resting, TradeKept(t), t \notin Resting',
           apart' = {} => /\ apart = {}
                          /\ positions'[Stock] - positions[Stock] = 0 - Outstanding[t]
    PROVE  LedgerMatchesAccount'
<1>1. /\ Sound /\ AccountTypeOK /\ TermsSound
      /\ AccountTypeOK' /\ TradesSound' /\ PendingLinked'
  BY VenueTerms DEF VenueInv, Sound
<1>2. ibOrders' = ibOrders /\ held' = held /\ held \in Int /\ positions[Stock] \in Int
  BY <1>1, VenueAssumption DEF gatewayVars, AccountTypeOK, LedgerTypeOK, VenueAssumption
<1>3. 0 \notin DOMAIN ibOrders
  BY <1>1 DEF AccountTypeOK
<1>4. OrderKept(0) /\ \A u \in Resting \ {t} : ref[u] # 0
  BY <1>1, <1>2, <1>3 DEF OrderKept, Sound, PendingLinked
<1>5. UnsoldAt(0) = 0 /\ UnsoldAt(0)' = 0
  BY <1>2, <1>3 DEF UnsoldAt, Term, ExitOrders
<1>6. OutstandingAt(t) = Outstanding[t] /\ Outstanding[t] \in Int /\ OutstandingAt(t)' = 0
  BY <1>1 DEF OutstandingAt, Term, TermsSound
<1>7. apart' = {} =>
        /\ apart = {}
        /\ positions'[Stock] - positions[Stock] =
             (held' - held) + (OutstandingAt(t)' - OutstandingAt(t))
                            - (UnsoldAt(0)' - UnsoldAt(0))
  BY <1>2, <1>5, <1>6
<1> QED
  BY <1>1, <1>4, <1>7, MatchMoves

\* What a poll settles
LEMMA AnswerPollKeeps ==
    ASSUME VenueInv, NEW t \in Trade, AnswerPoll(t)
    PROVE  VenueInv'
<1> DEFINE tr == trades[t]
           known == ref[t] \in DOMAIN view.orders
           order == view.orders[ref[t]]
           unfilled == order.st = "cancelled" /\ order.filled = 0
<1>1. /\ Answered /\ Done /\ CheckedPending(t) /\ UNCHANGED <<ref, gatewayVars, view>>
      /\ Head(queue).kind = "get" /\ Head(queue).trade = t
  BY DEF AnswerPoll
<1>2. Sound /\ AccountTypeOK /\ TradesSound /\ PendingLinked /\ ViewSound /\ LedgerTypeOK
  BY DEF VenueInv, Sound, AccountTypeOK
<1>3. /\ queue # <<>> /\ t \in Resting
      /\ queue' \in Seq(Job) /\ waiting' \in BOOLEAN /\ ~waiting'
  BY <1>1, <1>2, HeadFits, AnsweredDone DEF CallFits
<1>4. /\ tr \in TradeRecord /\ tr.status = "pending" /\ tr.pair = Stock
      /\ tr.qty \in Nat /\ tr.fqty = Unset /\ tr.action \in Action
      /\ ref[t] \in DOMAIN ibOrders
  BY <1>2, <1>3 DEF LedgerTypeOK, TradeRecord, TradesSound, PendingLinked, Resting
<1>5. apart \subseteq VenueCause
  BY <1>2 DEF AccountTypeOK
<1>6. /\ positions[Stock] \in Int /\ positions \in [Pair -> Int] /\ Stock \in Pair
      /\ Unit \in Nat
  BY <1>2, VenueAssumption DEF VenueAssumption, LedgerTypeOK
<1>7. CASE ~known
  <2> DEFINE new == [tr EXCEPT !.status = "failed"]
  <2>1. /\ MarkTradeStatus(t, tr, "failed") /\ apart' = apart \cup {"forgotten"}
        /\ positions' = positions /\ tracked' = tracked /\ cash' = cash
    BY <1>1, <1>7 DEF CheckedPending
  <2>2. trades' = [trades EXCEPT ![t] = new] /\ trades' \in [Trade -> TradeRecord]
        /\ new.status = "failed"
    BY <1>2, <1>4, <2>1, MarkTyped DEF Status, Terminal
  <2>3. LedgerTypeOK'
    BY <1>2, <2>1, <2>2 DEF LedgerTypeOK
  <2>4. /\ new \in TradeRecord /\ new.pair = Stock /\ new.qty = tr.qty /\ new.fqty = Unset
    BY <1>4 DEF TradeRecord, Status, Terminal
  <2>5. apart' \subseteq VenueCause /\ apart' # {}
    BY <1>5, <2>1 DEF VenueCause
  <2> HIDE DEF new
  <2>6. Sound'
    BY <1>1, <1>2, <1>3, <1>4, <2>1, <2>2, <2>3, <2>4, <2>5, SettledSound
  <2> QED
    BY <2>5, <2>6 DEF VenueInv, LedgerMatchesAccount
<1>8. CASE known /\ order.st = "filled"
  <2>0. order = ibOrders[ref[t]] /\ order.filled * Unit \in Nat
    <3>1. order = ibOrders[ref[t]]
      BY <1>2, <1>8 DEF ViewSound
    <3>2. order.filled \in Nat
      BY <1>2, <1>4, <3>1, AccountOrder
    <3> QED
      BY <1>6, <3>1, <3>2
  <2>1. PICK q \in Nat : q = order.filled * Unit
    BY <2>0
  <2> DEFINE new == Refilled(tr, "filled", 1, q, 0)
  <2>2. /\ UpdateTradeFill(t, 1, q, 0, "filled")
        /\ apart' = IF SaleFloors(t, q) THEN apart \cup {"overlap"} ELSE apart
    BY <1>1, <1>8, <2>1 DEF CheckedPending
  <2>3. LedgerTypeOK' /\ trades' = [trades EXCEPT ![t] = new] /\ new.status = "filled"
    <3>1. "filled" \in Status
      BY DEF Status
    <3> QED
      BY <1>2, <2>2, <3>1, UpdateTradeFillTyped
  <2>4. /\ new \in TradeRecord /\ new.pair = Stock /\ new.qty = tr.qty /\ new.fqty = q
    <3>1. new \in TradeRecord
      <4>1. trades'[t] = new /\ trades' \in [Trade -> TradeRecord]
        BY <1>2, <2>3 DEF LedgerTypeOK
      <4> QED
        BY <4>1
    <3>2. tr = [f \in DOMAIN tr |-> tr[f]] /\ {"pair", "qty", "fqty"} \subseteq DOMAIN tr
      BY <1>4 DEF TradeRecord
    <3>3. new.pair = tr.pair /\ new.qty = tr.qty /\ new.fqty = q
      BY <3>2 DEF Refilled
    <3> QED
      BY <1>4, <3>1, <3>3
  <2>5. apart' \subseteq VenueCause /\ apart \subseteq apart'
    BY <1>5, <2>2 DEF VenueCause
  <2> HIDE DEF new
  <2>6. Sound' /\ TradeKept(t) /\ t \notin Resting'
    BY <1>1, <1>2, <1>3, <1>4, <1>8, <2>0, <2>3, <2>4, <2>5, SettledSound
  <2>7. ASSUME apart' = {}
        PROVE  apart = {} /\ positions'[Stock] - positions[Stock] = 0 - Outstanding[t]
    <3>1. apart = {} /\ ~SaleFloors(t, q)
      BY <2>2, <2>7
    <3>2. Booked(tr) = tr.qty
      BY <1>4 DEF Booked
    <3>3. Outstanding[t] = Sign(tr) * (tr.qty - q)
      BY <1>3, <2>0, <2>1 DEF Outstanding
    <3>4. positions' = IF q - tr.qty = 0 THEN positions
                       ELSE [positions EXCEPT ![Stock] =
                               IF tr.action = "buy" THEN @ + (q - tr.qty)
                                                    ELSE PosPart(@ - (q - tr.qty))]
      BY <1>4, <2>2, <3>2 DEF UpdateTradeFill
    <3>5. CASE tr.action = "buy"
      <4>1. positions'[Stock] = positions[Stock] + (q - tr.qty)
        BY <1>4, <1>6, <2>1, <3>4, <3>5
      <4>2. Sign(tr) = 1
        BY <3>5 DEF Sign
      <4> QED
        BY <1>4, <1>6, <2>1, <3>1, <3>3, <4>1, <4>2
    <3>6. CASE tr.action = "sell"
      <4>1. q = tr.qty \/ positions[Stock] + tr.qty >= q
        BY <1>4, <1>6, <2>1, <3>1, <3>6 DEF SaleFloors
      <4>2. q # tr.qty => positions'[Stock] = PosPart(positions[Stock] - (q - tr.qty))
        <5>1. q # tr.qty => q - tr.qty # 0
          BY <1>4
        <5>2. q # tr.qty =>
                positions' = [positions EXCEPT ![Stock] = PosPart(@ - (q - tr.qty))]
          BY <3>4, <3>6, <5>1
        <5> QED
          BY <1>6, <5>2
      <4>3. positions'[Stock] = positions[Stock] - (q - tr.qty)
        BY <1>4, <1>6, <2>1, <3>4, <4>1, <4>2 DEF PosPart
      <4>4. Sign(tr) = -1
        BY <3>6 DEF Sign
      <4> QED
        BY <1>4, <1>6, <2>1, <3>1, <3>3, <4>3, <4>4
    <3> QED
      BY <1>4, <3>5, <3>6 DEF Action
  <2>8. LedgerMatchesAccount'
    BY <1>1, <1>3, <2>6, <2>7, SettledMatches
  <2> QED
    BY <2>6, <2>8 DEF VenueInv
<1>9. CASE known /\ unfilled
  <2> DEFINE new == [tr EXCEPT !.status = "cancelled"]
  <2>1. order = ibOrders[ref[t]] /\ order.st # "open" /\ ibOrders[ref[t]].filled = 0
    BY <1>2, <1>9 DEF ViewSound
  <2>2. /\ MarkTradeStatus(t, tr, "cancelled") /\ ReverseTradeBooking(tr)
        /\ apart' = IF tr.action = "buy" /\ positions[Stock] < tr.qty
                    THEN apart \cup {"overlap"} ELSE apart
    BY <1>1, <1>9 DEF CheckedPending
  <2>3. trades' = [trades EXCEPT ![t] = new] /\ trades' \in [Trade -> TradeRecord]
        /\ new.status = "cancelled"
    BY <1>2, <1>4, <2>2, MarkTyped DEF Status, Terminal
  <2>4. LedgerTypeOK'
    BY <1>2, <1>4, <2>2, <2>3, ReverseTyped DEF LedgerTypeOK
  <2>5. /\ new \in TradeRecord /\ new.pair = Stock /\ new.qty = tr.qty /\ new.fqty = Unset
    BY <1>4 DEF TradeRecord, Status, Terminal
  <2>6. apart' \subseteq VenueCause /\ apart \subseteq apart'
    BY <1>5, <2>2 DEF VenueCause
  <2> HIDE DEF new
  <2>7. Sound' /\ TradeKept(t) /\ t \notin Resting'
    BY <1>1, <1>2, <1>3, <1>4, <2>1, <2>3, <2>4, <2>5, <2>6, SettledSound
  <2>8. ASSUME apart' = {}
        PROVE  apart = {} /\ positions'[Stock] - positions[Stock] = 0 - Outstanding[t]
    <3>1. apart = {} /\ (tr.action = "buy" => positions[Stock] >= tr.qty)
      BY <1>4, <1>6, <2>2, <2>8
    <3>2. PosPart(tr.qty - PosPart(tr.fqty)) = tr.qty
      BY <1>4 DEF PosPart, Unset
    <3>3. Outstanding[t] = Sign(tr) * (tr.qty - 0 * Unit)
      BY <1>3, <2>1 DEF Outstanding
    <3>4. positions' = [positions EXCEPT ![Stock] =
                          IF tr.action = "buy" THEN PosPart(@ - tr.qty) ELSE @ + tr.qty]
      BY <1>4, <2>2, <3>2 DEF ReverseTradeBooking
    <3>5. CASE tr.action = "buy"
      <4>1. positions'[Stock] = positions[Stock] - tr.qty
        BY <1>4, <1>6, <3>1, <3>4, <3>5 DEF PosPart
      <4>2. Sign(tr) = 1
        BY <3>5 DEF Sign
      <4> QED
        BY <1>4, <1>6, <3>1, <3>3, <4>1, <4>2
    <3>6. CASE tr.action = "sell"
      <4>1. positions'[Stock] = positions[Stock] + tr.qty
        BY <1>4, <1>6, <3>4, <3>6
      <4>2. Sign(tr) = -1
        BY <3>6 DEF Sign
      <4> QED
        BY <1>4, <1>6, <3>1, <3>3, <4>1, <4>2
    <3> QED
      BY <1>4, <3>5, <3>6 DEF Action
  <2>9. LedgerMatchesAccount'
    BY <1>1, <1>3, <2>7, <2>8, SettledMatches
  <2> QED
    BY <2>7, <2>9 DEF VenueInv
<1>10. CASE known /\ order.st # "filled" /\ ~unfilled
  <2>1. UNCHANGED <<ledgerVars, apart>>
    BY <1>1, <1>10 DEF CheckedPending
  <2>2. AllKept /\ cash' = cash
    BY <1>1, <2>1 DEF AllKept, ledgerVars
  <2> QED
    BY <1>1, <1>3, <2>2, JobDropped
<1> QED
  BY <1>7, <1>8, <1>9, <1>10

\* A balance, and the close of a trade whose shares are not known
LEMMA WorkBalanceKeeps ==
    ASSUME VenueInv, WorkBalance
    PROVE  VenueInv'
<1> DEFINE t == Head(queue).trade
           tr == trades[t]
<1>1. Sound /\ AccountTypeOK /\ TradesSound /\ LedgerTypeOK
  BY DEF VenueInv, Sound, AccountTypeOK
<1>2. /\ queue # <<>> /\ Head(queue).kind = "balance"
      /\ ref' = ref /\ UNCHANGED gatewayVars /\ view' = view
  BY DEF WorkBalance
<1>3. CASE ~Answered
  <2>1. Done /\ UNCHANGED <<ledgerVars, apart>>
    BY <1>3 DEF WorkBalance
  <2>2. AllKept /\ cash' = cash
    BY <1>2, <2>1 DEF AllKept, ledgerVars
  <2> QED
    BY <1>2, <2>1, <2>2, JobDropped
<1>4. ASSUME Answered
      PROVE  t \in Trade /\ tr.status = "filled" /\ tr.action = "buy"
  BY <1>1, <1>2, <1>4, HeadFits DEF CallFits
<1>5. CASE Answered /\ view.held <= 0
  <2>1. Done /\ CloseTrade(t, 1, 0) /\ apart' = apart \cup {"unsold"}
    BY <1>5 DEF WorkBalance
  <2>2. queue' \in Seq(Job) /\ waiting' \in BOOLEAN /\ ~waiting'
    BY <1>1, <1>5, <2>1, AnsweredDone
  <2> PICK u \in Trade : u = t
    BY <1>4, <1>5
  <2> DEFINE new == Closed(trades[u], 1, 0)
  <2>3. trades[u].status = "filled" /\ CloseTrade(u, 1, 0) /\ IsOpen(trades[u])
    BY <1>4, <1>5, <2>1 DEF IsOpen
  <2>4. LedgerTypeOK' /\ trades' = [trades EXCEPT ![u] = new]
    BY <1>1, <2>3, CloseTradeTyped
  <2>5. /\ trades[u] \in TradeRecord /\ trades[u].qty \in Nat /\ trades[u].pair = Stock
        /\ trades[u].fqty = Unset \/ trades[u].fqty \in Nat
    BY <1>1, <2>3 DEF TradesSound, LedgerTypeOK
  <2>6. new \in TradeRecord /\ new.status = "closed"
    BY <2>5, ClosedTyped
  <2>7. new.pair = Stock /\ new.qty = trades[u].qty /\ new.fqty = trades[u].fqty
    BY <2>5 DEF Closed, TradeRecord
  <2>8. apart' \subseteq VenueCause /\ apart' # {}
    BY <1>1, <2>1 DEF AccountTypeOK, VenueCause
  <2> HIDE DEF new
  <2>9. Sound'
    BY <1>1, <1>2, <2>1, <2>2, <2>3, <2>4, <2>5, <2>6, <2>7, <2>8, SettledSound
  <2> QED
    BY <2>8, <2>9 DEF VenueInv, LedgerMatchesAccount
<1>6. CASE Answered /\ ~(view.held <= 0)
  <2>1. /\ queue' = <<ExitJob(t, Least(Held(tr), view.held))>> /\ waiting' = TRUE
        /\ UNCHANGED <<ledgerVars, apart>>
    BY <1>6 DEF WorkBalance
  <2>2. AllKept /\ cash' = cash
    BY <1>2, <2>1 DEF AllKept, ledgerVars
  <2> PICK u \in Trade : u = t
    BY <1>4, <1>6
  <2>3. trades[u].status = "filled" /\ trades[u].action = "buy"
    BY <1>4, <1>6
  <2>4. Least(Held(trades[u]), view.held) \in Nat
    <3>1. view.held \in Int /\ Held(trades[u]) \in Nat
      BY <1>1, SoundTrade DEF AccountTypeOK
    <3> QED
      BY <1>6, <3>1 DEF Least
  <2> PICK n \in Nat : n = Least(Held(trades[u]), view.held)
    BY <2>4
  <2>5. queue' = <<ExitJob(u, n)>>
    BY <2>1
  <2> QED
    BY <2>1, <2>2, <2>3, <2>5, ExitFollows
<1> QED
  BY <1>3, <1>5, <1>6

-----------------------------------------------------------------------------
(* Orders *)

\* An order that is refused, or placed for nobody
LEMMA UnansweredKeeps ==
    ASSUME VenueInv, queue # <<>>, Done, Head(queue).kind \in Placing,
           PlacedLate(Head(queue)) \/ Refused(Head(queue))
    PROVE  VenueInv'
<1>1. Head(queue) \in Job
  BY DoneQueue DEF VenueInv, Sound
<1>2. CASE PlacedLate(Head(queue))
  <2> PICK job \in Job : job = Head(queue)
    BY <1>1
  <2>1. Placed(job) /\ apart' = apart \cup {"late"} /\ UNCHANGED <<ledgerVars, ref>>
    BY <1>2 DEF PlacedLate
  <2>2. "late" \in VenueCause /\ job.kind \in Placing
    BY DEF VenueCause
  <2> QED
    BY <2>1, <2>2, PlacedApart
<1>3. CASE Refused(Head(queue))
  <2>1. AllKept /\ cash' = cash
    BY <1>3 DEF Refused, AllKept, ledgerVars
  <2> QED
    BY <2>1, JobDropped
<1> QED
  BY <1>2, <1>3

\* A placed order is one term of the balance that was not there.
LEMMA NewTerm ==
    ASSUME Sound, NEW job \in Job, job.kind \in Placing, Placed(job),
           NEW o, o = NewId
    PROVE  /\ OrderKept(o) /\ (\A u \in Resting : ref[u] # o)
           /\ UnsoldAt(o) = 0
           /\ UnsoldAt(o)' = IF job.kind = "exit" THEN Shares(job) * Unit ELSE 0
<1>1. AccountTypeOK /\ ViewSound /\ PendingLinked
  BY DEF Sound
<1>2. /\ o \notin DOMAIN ibOrders /\ DOMAIN ibOrders' = DOMAIN ibOrders \cup {o}
      /\ \A p \in DOMAIN ibOrders : ibOrders'[p] = ibOrders[p]
      /\ ibOrders'[o] = SentOrder(job)
  BY <1>1, PlacedOrder
<1>3. OrderKept(o) /\ (\A u \in Resting : ref[u] # o) /\ UnsoldAt(o) = 0
  BY <1>1, <1>2 DEF OrderKept, PendingLinked, UnsoldAt, Term, ExitOrders
<1>4. /\ ibOrders'[o].kind = job.kind
      /\ ibOrders'[o].shares = Shares(job) /\ ibOrders'[o].filled = 0
  BY <1>2 DEF SentOrder
<1>5. Shares(job) - 0 = Shares(job)
  BY VenueAssumption DEF VenueAssumption, Job, Shares
<1>6. UnsoldAt(o)' = IF job.kind = "exit" THEN Shares(job) * Unit ELSE 0
  BY <1>2, <1>4, <1>5 DEF UnsoldAt, Term, ExitOrders, Unsold
<1> QED
  BY <1>3, <1>6

\* A booked order is a pending trade with all of it outstanding.
LEMMA BookedKeeps ==
    ASSUME VenueInv, queue # <<>>, Done, Head(queue).kind \in {"buy", "sell"},
           BookedAsPending(Head(queue))
    PROVE  VenueInv'
<1>1. /\ Sound /\ AccountTypeOK /\ ViewSound /\ LedgerTypeOK /\ TradesSound
      /\ PendingLinked /\ OpenWatched
  BY DEF VenueInv, Sound, AccountTypeOK
<1>2. Answered /\ Placed(Head(queue))
  BY DEF BookedAsPending
<1>3. /\ CallFits(Head(queue)) /\ Head(queue) \in Job
      /\ queue' \in Seq(Job) /\ waiting' \in BOOLEAN /\ ~waiting'
  BY <1>1, <1>2, HeadFits, AnsweredDone
<1> PICK job \in Job : job = Head(queue)
  BY <1>3
<1> PICK t \in Trade : t = job.trade
  BY DEF Job
<1> DEFINE new == NewTrade("pending", job.kind, Stock, job.qty, 1)
<1>4. job.kind \in {"buy", "sell"} /\ job.kind \in Placing /\ job.qty \in Nat /\ Placed(job)
  BY <1>2 DEF Job, Placing
<1>5. /\ trades[t].status = "none"
      /\ apart = {} => \A o \in DOMAIN ibOrders : ibOrders[o].trade # t
  BY <1>3 DEF CallFits
<1>6. CASE ~CanAdd(new)
  <2>1. apart' = apart \cup {"unbooked"} /\ UNCHANGED <<ledgerVars, ref>>
    BY <1>6 DEF BookedAsPending
  <2>2. "unbooked" \in VenueCause /\ job.kind # "exit"
    BY <1>4 DEF VenueCause
  <2> QED
    BY <1>4, <2>1, <2>2, PlacedApart
<1>7. CASE CanAdd(new)
  <2> PICK o \in Nat : o = NewId
    BY <1>1, <1>4, PlacedOrder
  <2>1. /\ o \notin DOMAIN ibOrders /\ DOMAIN ibOrders' = DOMAIN ibOrders \cup {o}
        /\ Len(ibOrders') = o
        /\ \A p \in DOMAIN ibOrders : ibOrders'[p] = ibOrders[p]
        /\ ibOrders'[o] = SentOrder(job)
        /\ ibOrders' \in Seq(VenueOrder) /\ view' \in [orders: Seq(VenueOrder), held: Int]
        /\ held' = held /\ connected' = connected /\ ViewSound'
    BY <1>1, <1>4, PlacedOrder
  <2>2. /\ ibOrders'[o].trade = t /\ ibOrders'[o].kind = job.kind
        /\ ibOrders'[o].filled = 0
    BY <2>1 DEF SentOrder
  <2>3. AddTrade(t, new) /\ ref' = [ref EXCEPT ![t] = o] /\ apart' = apart
    BY <1>7, <2>1 DEF BookedAsPending
  <2>4. new \in TradeRecord
    <3>1. "pending" \in Status /\ job.kind \in Action /\ Stock \in Pair
      BY <1>4, VenueAssumption DEF VenueAssumption, Status, Action
    <3> QED
      BY <1>4, <3>1, NewTradeTyped
  <2>5. /\ new.status = "pending" /\ new.pair = Stock /\ new.action = job.kind
        /\ new.qty = job.qty /\ new.fqty = Unset
    BY DEF NewTrade
  <2>6. positions' = [positions EXCEPT ![Stock] = @ + Sign(new) * job.qty]
    BY <2>3, <2>5 DEF AddTrade
  <2> HIDE DEF new
  <2>7. LedgerTypeOK' /\ trades' = [trades EXCEPT ![t] = new]
    BY <1>1, <2>3, <2>4, AddTradeTyped
  <2>8. /\ trades'[t] = new /\ \A u \in Trade \ {t} : trades'[u] = trades[u]
        /\ ref' \in [Trade -> Nat]
        /\ ref'[t] = o /\ \A u \in Trade \ {t} : ref'[u] = ref[u]
    BY <1>1, <2>3, <2>7 DEF AccountTypeOK, LedgerTypeOK
  <2>9. TradeKept(t) /\ Resting' = Resting \cup {t} /\ t \notin Resting
    BY <1>5, <2>5, <2>8 DEF TradeKept, Resting
  <2>10. AccountTypeOK'
    BY <1>1, <1>3, <2>1, <2>3, <2>7, <2>8 DEF AccountTypeOK
  <2>11. TradesSound'
    BY <1>1, <1>4, <2>5, <2>8 DEF TradesSound
  <2>12. PendingLinked'
    <3>1. ASSUME NEW u \in Resting
          PROVE  /\ ref'[u] \in DOMAIN ibOrders'
                 /\ ibOrders'[ref'[u]].trade = u /\ ibOrders'[ref'[u]].kind = trades'[u].action
                 /\ trades'[u].fqty = Unset
      <4>1. u \in Trade \ {t} /\ ref'[u] = ref[u] /\ trades'[u] = trades[u]
        BY <2>8, <2>9 DEF Resting
      <4>2. ref[u] \in DOMAIN ibOrders /\ ibOrders'[ref[u]] = ibOrders[ref[u]]
        BY <1>1, <2>1 DEF PendingLinked
      <4> QED
        BY <1>1, <2>1, <4>1, <4>2 DEF PendingLinked
    <3> QED
      BY <2>1, <2>2, <2>5, <2>8, <2>9, <3>1 DEF PendingLinked
  <2>13. OpenWatched'
    <3> SUFFICES ASSUME apart = {}, NEW p \in DOMAIN ibOrders' \ ExitOrders',
                        ibOrders'[p].st = "open"
                 PROVE  ibOrders'[p].trade \in Resting' /\ ref'[ibOrders'[p].trade] = p
      BY <2>3 DEF OpenWatched
    <3>1. CASE p = o
      BY <2>2, <2>8, <2>9, <3>1
    <3>2. CASE p # o
      <4>1. p \in DOMAIN ibOrders /\ ibOrders'[p] = ibOrders[p]
        BY <2>1, <3>2
      <4>2. p \notin ExitOrders
        BY <2>1, <4>1 DEF ExitOrders
      <4>3. ibOrders[p].trade \in Resting /\ ref[ibOrders[p].trade] = p
        BY <1>1, <4>1, <4>2 DEF OpenWatched
      <4>4. ibOrders[p].trade \in Trade \ {t}
        BY <2>9, <4>3 DEF Resting
      <4> QED
        BY <2>8, <2>9, <4>1, <4>3, <4>4
    <3> QED
      BY <3>1, <3>2
  <2>14. CallSound'
    BY <1>3 DEF CallSound
  <2>15. ClosedMeansSold'
    <3> SUFFICES ASSUME apart \cap {"late", "unsold"} = {}, NEW u \in Trade
                 PROVE  Cardinality(Exits(u)') = IF trades'[u].status = "closed" THEN 1 ELSE 0
      BY <2>3 DEF ClosedMeansSold
    <3>1. Exits(u)' = Exits(u)
      BY <1>1, <1>4, ExitsGrow
    <3>2. trades'[u].status = "closed" <=> trades[u].status = "closed"
      BY <1>5, <2>5, <2>8
    <3> QED
      BY <3>1, <3>2 DEF Sound, ClosedMeansSold, VenueInv
  <2>16. LedgerMatchesAccount'
    <3>1. /\ OrderKept(o) /\ \A u \in Resting \ {t} : ref[u] # o
          /\ UnsoldAt(o) = 0 /\ UnsoldAt(o)' = 0
      BY <1>1, <1>4, NewTerm
    <3>2. OutstandingAt(t) = 0
      BY <2>9 DEF OutstandingAt, Term
    <3>3. OutstandingAt(t)' = Sign(new) * (job.qty - 0 * Unit)
      BY <2>2, <2>5, <2>8, <2>9 DEF OutstandingAt, Term, Outstanding
    <3>4. Sign(new) \in Int /\ job.qty - 0 * Unit = job.qty
      BY <1>4, VenueAssumption DEF VenueAssumption, Sign
    <3>5. positions'[Stock] = positions[Stock] + Sign(new) * job.qty
      BY <1>1, <2>6, VenueAssumption DEF VenueAssumption, LedgerTypeOK
    <3>6. /\ positions[Stock] \in Int /\ held \in Int /\ held' = held
          /\ Sign(new) * job.qty \in Int
      BY <1>1, <1>4, <2>1, <3>4, VenueAssumption DEF VenueAssumption, AccountTypeOK, LedgerTypeOK
    <3>7. positions'[Stock] - positions[Stock] =
            (held' - held) + (OutstandingAt(t)' - OutstandingAt(t))
                           - (UnsoldAt(o)' - UnsoldAt(o))
      BY <3>1, <3>2, <3>3, <3>4, <3>5, <3>6
    <3> QED
      BY <2>3, <2>9, <2>10, <2>11, <2>12, <3>1, <3>7, MatchMoves
  <2> QED
    BY <2>1, <2>10, <2>11, <2>12, <2>13, <2>14, <2>15, <2>16 DEF VenueInv, Sound
<1> QED
  BY <1>6, <1>7

\* A closed trade is one with all of it still to be sold.
LEMMA ClosedAtOnceKeeps ==
    ASSUME VenueInv, queue # <<>>, Done, Head(queue).kind = "exit",
           ClosedAtOnce(Head(queue))
    PROVE  VenueInv'
<1>1. /\ Sound /\ AccountTypeOK /\ ViewSound /\ LedgerTypeOK /\ TradesSound
      /\ PendingLinked /\ OpenWatched
  BY DEF VenueInv, Sound, AccountTypeOK
<1>2. Answered /\ Placed(Head(queue))
  BY DEF ClosedAtOnce
<1>3. /\ CallFits(Head(queue)) /\ Head(queue) \in Job
      /\ queue' \in Seq(Job) /\ waiting' \in BOOLEAN /\ ~waiting'
  BY <1>1, <1>2, HeadFits, AnsweredDone
<1> PICK job \in Job : job = Head(queue)
  BY <1>3
<1> PICK t \in Trade : t = job.trade
  BY DEF Job
<1> DEFINE tr == trades[t]
           new == Closed(tr, 0, 0)
           sold == Shares(job) * Unit
<1>4. job.kind = "exit" /\ job.kind \in Placing /\ Placed(job)
  BY <1>2 DEF Placing
<1>5. tr.status = "filled" /\ tr.action = "buy" /\ IsOpen(tr)
  BY <1>3, <1>4 DEF CallFits, IsOpen
<1>6. /\ CloseTrade(t, 0, 0) /\ ref' = ref
      /\ apart' = IF Held(tr) # sold \/ Held(tr) > positions[Stock]
                  THEN apart \cup {"overlap"} ELSE apart
  BY DEF ClosedAtOnce
<1> PICK o \in Nat : o = NewId
  BY <1>1, <1>4, PlacedOrder
<1>7. /\ o \notin DOMAIN ibOrders /\ DOMAIN ibOrders' = DOMAIN ibOrders \cup {o}
      /\ \A p \in DOMAIN ibOrders : ibOrders'[p] = ibOrders[p]
      /\ ibOrders'[o] = SentOrder(job)
      /\ ibOrders' \in Seq(VenueOrder) /\ view' \in [orders: Seq(VenueOrder), held: Int]
      /\ held' = held /\ connected' = connected /\ ViewSound'
  BY <1>1, <1>4, PlacedOrder
<1>8. /\ tr \in TradeRecord /\ tr.pair = Stock /\ tr.qty \in Nat
      /\ tr.fqty = Unset \/ tr.fqty \in Nat
  BY <1>1, <1>5 DEF TradesSound, LedgerTypeOK
<1>9. LedgerTypeOK' /\ trades' = [trades EXCEPT ![t] = new]
  BY <1>1, <1>5, <1>6, CloseTradeTyped
<1>10. new.status = "closed" /\ new.pair = Stock /\ new.qty = tr.qty /\ new.fqty = tr.fqty
  <2>1. new.status = "closed"
    BY <1>8, ClosedTyped
  <2> QED
    BY <1>8, <2>1 DEF Closed, TradeRecord
<1> HIDE DEF new
<1>11. trades'[t] = new /\ \A u \in Trade \ {t} : trades'[u] = trades[u]
  BY <1>1, <1>9 DEF LedgerTypeOK
<1>12. TradeKept(t) /\ Resting' = Resting /\ t \notin Resting
  BY <1>5, <1>6, <1>10, <1>11 DEF TradeKept, Resting
<1>13. AccountTypeOK'
  <2>1. apart' \subseteq VenueCause
    BY <1>1, <1>6 DEF AccountTypeOK, VenueCause
  <2> QED
    BY <1>1, <1>3, <1>6, <1>7, <1>9, <2>1 DEF AccountTypeOK
<1>14. TradesSound'
  BY <1>1, <1>8, <1>10, <1>11 DEF TradesSound
<1>15. PendingLinked'
  <2>1. ASSUME NEW u \in Resting
        PROVE  /\ ref'[u] \in DOMAIN ibOrders'
               /\ ibOrders'[ref'[u]].trade = u /\ ibOrders'[ref'[u]].kind = trades'[u].action
               /\ trades'[u].fqty = Unset
    <3>1. ref'[u] = ref[u] /\ trades'[u] = trades[u]
      BY <1>6, <1>11, <1>12 DEF Resting
    <3>2. ref[u] \in DOMAIN ibOrders /\ ibOrders'[ref[u]] = ibOrders[ref[u]]
      BY <1>1, <1>7 DEF PendingLinked
    <3> QED
      BY <1>1, <1>7, <3>1, <3>2 DEF PendingLinked
  <2> QED
    BY <1>12, <2>1 DEF PendingLinked
<1>16. OpenWatched'
  <2> SUFFICES ASSUME apart' = {}, NEW p \in DOMAIN ibOrders' \ ExitOrders',
                      ibOrders'[p].st = "open"
               PROVE  ibOrders'[p].trade \in Resting' /\ ref'[ibOrders'[p].trade] = p
    BY DEF OpenWatched
  <2>1. ibOrders'[o].kind = "exit"
    BY <1>4, <1>7 DEF SentOrder
  <2>2. p \in DOMAIN ibOrders /\ ibOrders'[p] = ibOrders[p] /\ p \notin ExitOrders
    BY <1>7, <2>1 DEF ExitOrders
  <2>3. apart = {}
    BY <1>6
  <2> QED
    BY <1>1, <1>6, <1>12, <2>2, <2>3 DEF OpenWatched
<1>17. CallSound'
  BY <1>3 DEF CallSound
<1>18. ClosedMeansSold'
  <2> SUFFICES ASSUME apart' \cap {"late", "unsold"} = {}, NEW u \in Trade
               PROVE  Cardinality(Exits(u)') = IF trades'[u].status = "closed" THEN 1 ELSE 0
    BY DEF ClosedMeansSold
  <2>1. apart \cap {"late", "unsold"} = {}
    BY <1>6
  <2>2. Cardinality(Exits(u)) = IF trades[u].status = "closed" THEN 1 ELSE 0
    BY <1>1, <2>1 DEF Sound, ClosedMeansSold
  <2>3. CASE u = t
    <3>1. Exits(u)' = Exits(u) \cup {o}
      BY <1>1, <1>4, <2>3, ExitsGrow
    <3>2. IsFiniteSet(Exits(u)) /\ o \notin Exits(u)
      BY <1>1, ExitsFinite
    <3>3. Cardinality(Exits(u)) = 0
      BY <1>5, <2>2, <2>3
    <3>4. Cardinality(Exits(u) \cup {o}) = 1
      <4> DEFINE S == Exits(u)
      <4>1. IsFiniteSet(S) /\ o \notin S /\ Cardinality(S) = 0
        BY <3>2, <3>3
      <4> HIDE DEF S
      <4>2. Cardinality(S \cup {o}) = Cardinality(S) + 1
        BY <4>1, FS_AddElement
      <4> QED
        BY <4>1, <4>2 DEF S
    <3> QED
      BY <1>10, <1>11, <2>3, <3>1, <3>4
  <2>4. CASE u # t
    <3>1. Exits(u)' = Exits(u)
      BY <1>1, <1>4, <2>4, ExitsGrow
    <3> QED
      BY <1>11, <2>2, <2>4, <3>1
  <2> QED
    BY <2>3, <2>4
<1>19. LedgerMatchesAccount'
  <2>1. /\ OrderKept(o) /\ \A u \in Resting \ {t} : ref[u] # o
        /\ UnsoldAt(o) = 0 /\ UnsoldAt(o)' = sold
    BY <1>1, <1>4, NewTerm
  <2>2. OutstandingAt(t) = 0 /\ OutstandingAt(t)' = 0
    BY <1>12 DEF OutstandingAt, Term
  <2>3. /\ positions[Stock] \in Int /\ positions \in [Pair -> Int] /\ Stock \in Pair
        /\ held \in Int /\ held' = held /\ Held(tr) \in Nat
    BY <1>1, <1>7, VenueAssumption, SoundTrade DEF VenueAssumption, AccountTypeOK, LedgerTypeOK
  <2>4. positions' = [positions EXCEPT ![Stock] = PosPart(@ - Held(tr))]
    BY <1>5, <1>6, <1>8 DEF CloseTrade, Closable
  <2> HIDE DEF sold, tr
  <2>5. ASSUME apart' = {}
        PROVE  /\ apart = {}
               /\ positions'[Stock] - positions[Stock] =
                    (held' - held) + (OutstandingAt(t)' - OutstandingAt(t))
                                   - (UnsoldAt(o)' - UnsoldAt(o))
    <3>1. apart = {} /\ Held(tr) = sold /\ ~(Held(tr) > positions[Stock])
      BY <1>6, <2>5
    <3>2. positions'[Stock] = positions[Stock] - Held(tr)
      BY <2>3, <2>4, <3>1 DEF PosPart
    <3> QED
      BY <2>1, <2>2, <2>3, <3>1, <3>2
  <2> QED
    BY <1>1, <1>12, <1>13, <1>14, <1>15, <2>1, <2>5, MatchMoves
<1> QED
  BY <1>7, <1>13, <1>14, <1>15, <1>16, <1>17, <1>18, <1>19 DEF VenueInv, Sound

-----------------------------------------------------------------------------
(* The venue's specification *)

\* Nothing is traded at first.
LEMMA InitVenue == VenueInit => VenueInv
<1> SUFFICES ASSUME VenueInit PROVE VenueInv
  OBVIOUS
<1>1. /\ LedgerInit /\ ref = [t \in Trade |-> 0] /\ ibOrders = <<>> /\ held = 0
      /\ view = Nothing /\ queue = <<>> /\ waiting = FALSE /\ connected = TRUE /\ apart = {}
  BY DEF VenueInit
<1>2. LedgerTypeOK
  <2>1. SomePair \in Pair /\ InitialCash \in Int
    BY LedgerAssumption DEF SomePair, LedgerAssumption
  <2>2. NewTrade("none", "buy", SomePair, 0, 0) \in TradeRecord
    BY <2>1, NewTradeTyped DEF Status, Action
  <2> QED
    BY <1>1, <2>1, <2>2 DEF LedgerInit, LedgerTypeOK
<1>3. Nothing \in [orders: Seq(VenueOrder), held: Int] /\ view.orders = <<>>
  BY <1>1 DEF Nothing
<1>4. AccountTypeOK
  <2>1. <<>> \in Seq(VenueOrder) /\ <<>> \in Seq(Job) /\ ref \in [Trade -> Nat]
    BY <1>1
  <2>2. ibOrders \in Seq(VenueOrder) /\ queue \in Seq(Job) /\ held \in Int
    BY <1>1, <2>1
  <2>3. view \in [orders: Seq(VenueOrder), held: Int] /\ apart \subseteq VenueCause
    BY <1>1, <1>3
  <2>4. waiting \in BOOLEAN /\ connected \in BOOLEAN
    BY <1>1
  <2> QED
    BY <1>2, <2>1, <2>2, <2>3, <2>4 DEF AccountTypeOK
<1>5. /\ \A t \in Trade : trades[t].status = "none" /\ trades[t].qty = 0 /\ trades[t].fqty = Unset
      /\ Resting = {} /\ ExitOrders = {}
  BY <1>1 DEF LedgerInit, NewTrade, Resting, ExitOrders
<1>6. TradesSound /\ PendingLinked /\ OpenWatched /\ CallSound
  BY <1>1, <1>5 DEF TradesSound, PendingLinked, OpenWatched, CallSound
<1>7. ViewSound
  BY <1>1, <1>3 DEF ViewSound
<1>8. ClosedMeansSold
  <2>1. \A t \in Trade : Exits(t) = {}
    BY <1>5 DEF Exits
  <2> QED
    BY <1>5, <2>1, FS_EmptySet DEF ClosedMeansSold
<1>9. LedgerMatchesAccount
  <2>1. positions[Stock] = 0
    BY <1>1, VenueAssumption DEF VenueAssumption, LedgerInit
  <2>2. SumFunctionOnSet(Outstanding, Resting) = 0 /\ SumFunctionOnSet(Unsold, ExitOrders) = 0
    BY <1>5, SumEmpty
  <2> QED
    BY <1>1, <2>1, <2>2 DEF LedgerMatchesAccount
<1> QED
  BY <1>4, <1>6, <1>7, <1>8, <1>9 DEF VenueInv, Sound

\* The invariant says nothing of the cycle.
LEMMA Unmoved ==
    ASSUME VenueInv, UNCHANGED <<ledgerVars, ref, gatewayVars, view, queue, waiting, apart>>
    PROVE  VenueInv'
<1>1. /\ AllKept /\ cash' = cash /\ queue' = queue /\ waiting' = waiting
      /\ trades' = trades /\ ibOrders' = ibOrders /\ apart' = apart
  BY DEF AllKept, ledgerVars, gatewayVars
<1>2. /\ cash \in Int /\ queue \in Seq(Job) /\ waiting \in BOOLEAN /\ CallSound
  BY DEF VenueInv, Sound, AccountTypeOK, LedgerTypeOK
<1>3. CallSound'
  BY <1>1, <1>2 DEF CallSound, CallFits, Resting
<1> QED
  BY <1>1, <1>2, <1>3, QueueKeeps

\* Every step of agent, worker and gateway keeps the invariant.
LEMMA StepVenue == VenueInv /\ [VenueNext]_venueVars => VenueInv'
<1> SUFFICES ASSUME VenueInv, [VenueNext]_venueVars PROVE VenueInv'
  OBVIOUS
<1>1. CASE \E t \in Trade : Buy(t) \/ Sell(t) \/ StartPoll(t) \/ StartExit(t)
  BY <1>1, CallsKeep
<1>2. CASE GiveUp
  BY <1>2, GiveUpKeeps
<1>8. CASE StartVenueCycle
  BY <1>8, Unmoved DEF StartVenueCycle
<1>3. CASE RefreshIbkrHoldings
  BY <1>3, CashKeeps
<1>4. CASE Work
  <2>1. CASE WorkTrade
    <3>1. queue # <<>> /\ Head(queue).kind \in {"buy", "sell"} /\ Done
      BY <2>1 DEF WorkTrade
    <3>2. Head(queue).kind \in Placing
      BY <3>1 DEF Placing
    <3> QED
      BY <2>1, <3>1, <3>2, BookedKeeps, UnansweredKeeps DEF WorkTrade
  <2>2. CASE WorkExit
    <3>1. queue # <<>> /\ Head(queue).kind = "exit" /\ Done
      BY <2>2 DEF WorkExit
    <3>2. Head(queue).kind \in Placing
      BY <3>1 DEF Placing
    <3> QED
      BY <2>2, <3>1, <3>2, ClosedAtOnceKeeps, UnansweredKeeps DEF WorkExit
  <2>3. CASE WorkBalance
    BY <2>3, WorkBalanceKeeps
  <2>4. CASE \E t \in Trade : AnswerPoll(t)
    BY <2>4, AnswerPollKeeps
  <2>5. CASE DropPoll
    <3>1. queue # <<>> /\ Done /\ AllKept /\ cash' = cash
      BY <2>5 DEF DropPoll, AllKept, ledgerVars
    <3> QED
      BY <3>1, JobDropped
  <2> QED
    BY <1>4, <2>1, <2>2, <2>3, <2>4, <2>5 DEF Work
<1>5. CASE \E o \in DOMAIN ibOrders : FillShares(o) \/ End(o)
  BY <1>5, FillSharesKeeps, EndKeeps
<1>6. CASE Disconnect
  BY <1>6, DisconnectKeeps
<1>7. CASE UNCHANGED venueVars
  BY <1>7, Unmoved DEF venueVars
<1> QED
  BY <1>1, <1>2, <1>3, <1>4, <1>5, <1>6, <1>7, <1>8 DEF VenueNext

\* Ledger and account are what they are linked by, always.
LEMMA VenueHolds == VenueSpec => []VenueInv
BY InitVenue, StepVenue, PTL DEF VenueSpec

\* Ledger, queue, orders and what was heard of them stay well typed, however
\* calls time out and the connection drops.
THEOREM VenueTypeCorrect == VenueSpec => []VenueTypeOK
<1>1. VenueInv => AccountTypeOK
  BY DEF VenueInv, Sound
<1> DEFINE Mode == exitsOnly \in BOOLEAN
<1>2. VenueInit => Mode
  BY DEF VenueInit
<1>3. Mode /\ [VenueNext]_venueVars => Mode'
  BY DEF VenueNext, venueVars, StartVenueCycle, Buy, Sell, StartPoll, StartExit, Call,
         GiveUp, RefreshIbkrHoldings, Work, FillShares, End, Disconnect
<1>4. AccountTypeOK /\ Mode => VenueTypeOK
  BY DEF VenueTypeOK
<1> HIDE DEF Mode
<1> QED
  BY <1>1, <1>2, <1>3, <1>4, VenueHolds, PTL DEF VenueSpec

\* The poll books exactly what was outstanding and the exit exactly what is to
\* be sold: ledger and account part only for one of the causes.
THEOREM AccountMatched == VenueSpec => []LedgerMatchesAccount
<1>1. VenueInv => LedgerMatchesAccount
  BY DEF VenueInv
<1> QED
  BY <1>1, VenueHolds, PTL

\* _close_position sends one order for a trade it closes, and closes the trade
\* it sends one for, unless a caller gave up or the balance was not known.
THEOREM ClosedSold == VenueSpec => []ClosedMeansSold
<1>1. VenueInv => ClosedMeansSold
  BY DEF VenueInv, Sound
<1> QED
  BY <1>1, VenueHolds, PTL
=============================================================================
