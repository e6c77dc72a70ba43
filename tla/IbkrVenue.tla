------------------------------ MODULE IbkrVenue ------------------------------
(***************************************************************************)
(* Live trading on Interactive Brokers: core/ib_client.py under the        *)
(* executor, one pair.  Every call of the agent becomes a job of one       *)
(* worker thread, which executes jobs in order; a caller gives up after    *)
(* 30 seconds, but its job stays in the queue and is executed later.  An   *)
(* order is answered with OPEN whatever becomes of it, so that all of them *)
(* are booked as resting and settled by polls.  Polls and balances read    *)
(* what ib_insync last heard, and its event loop runs only while the       *)
(* worker talks to the gateway, that is within jobs that place an order.   *)
(*                                                                         *)
(* The ledger is TradingState at a price of one.  Quantities are counted   *)
(* in fractions of a share; orders are for whole shares.  The gateway and  *)
(* its exchange fill, end or reject orders, and may lose the connection,   *)
(* which nothing in the code restores.  Left out: tier exits, restarts and *)
(* sales by the owner.                                                     *)
(***************************************************************************)
EXTENDS TradingState, Sequences

CONSTANTS
    Stock,      \* the pair
    Unit,       \* fractions in a share
    Quantity,   \* quantities the pipeline decides to buy
    Growth,     \* what the cross-asset signal adds to an amount at most
    MaxJobs,    \* bound: jobs in the queue
    MaxOrders   \* bound: orders of the account

ASSUME VenueAssumption ==
    /\ Stock \in Pair
    /\ {Unit, MaxJobs, MaxOrders} \subseteq Nat \ {0}
    /\ Quantity \subseteq Nat \ {0} /\ Growth \in Nat

VARIABLES
    ref,        \* coinbase_order_id of every trade, 0 for none
    ibOrders,   \* the account's orders, by id
    held,       \* the account's shares, in fractions
    view,       \* ib.trades() and ib.positions(): what was heard last
    queue,      \* _ib_jobs with the job the worker is at
    waiting,    \* whether the agent waits for the last job
    connected,
    exitsOnly,  \* _monitoring_mode of the current cycle
    apart       \* for the properties: what set the ledger apart from the account

gatewayVars == <<ibOrders, held, connected>>
venueVars ==
    <<ledgerVars, ref, gatewayVars, view, queue, waiting, exitsOnly, apart>>

Placing == {"buy", "sell", "exit"}

\* A job that stands for a call; qty is that of the order it places.
Job == [kind: Placing \cup {"get", "balance"}, trade: Trade, qty: Nat]

\* An order.  Only fills are final: an inactive order was refused.
VenueOrder == [kind: Placing, trade: Trade, shares: Nat, filled: Nat,
          st: {"open", "filled", "cancelled", "inactive"}]

VenueCause == {"late", "unbooked", "forgotten", "unsold", "overlap"}

Nothing == [orders |-> <<>>, held |-> 0]

VenueInit ==
    /\ LedgerInit
    /\ ref = [t \in Trade |-> 0]
    /\ ibOrders = <<>> /\ held = 0 /\ view = Nothing
    /\ queue = <<>> /\ waiting = FALSE
    /\ connected = TRUE
    /\ exitsOnly = FALSE
    /\ apart = {}

-----------------------------------------------------------------------------
(* The agent's thread *)

\* The head of a cycle: monitoring mode takes a position, its stop and less
\* cash than a trade needs.  The position of a resting buy will do.  The stop
\* and the cash of the last refresh, which it reads, are left open here.
StartVenueCycle ==
    /\ ~waiting
    /\ exitsOnly' \in (IF Stock \in OpenPositions THEN BOOLEAN ELSE {FALSE})
    /\ UNCHANGED <<ledgerVars, ref, gatewayVars, view, queue, waiting, apart>>

\* A trade that is not in the ledger, the queue or the account
Unused(t) ==
    /\ trades[t].status = "none"
    /\ \A i \in DOMAIN queue : queue[i].trade # t
    /\ \A o \in DOMAIN ibOrders : ibOrders[o].trade # t

\* Jobs that have placed no order yet
ToPlace == {i \in DOMAIN queue : queue[i].kind \in Placing}

Call(kind, t, qty) ==
    /\ ~waiting /\ Len(queue) < MaxJobs
    /\ kind # "get" => Len(ibOrders) + Cardinality(ToPlace) < MaxOrders
    /\ queue' = Append(queue, [kind |-> kind, trade |-> t, qty |-> qty])
    /\ waiting' = TRUE
    /\ UNCHANGED <<ledgerVars, ref, gatewayVars, view, exitsOnly, apart>>

\* ExecutorAgent.run scales what the risk manager and the rules let pass.
Scaled(qty) == qty..(qty + Growth)

Buy(t) ==
    /\ Unused(t)
    /\ \E q \in Quantity : q <= cash /\ \E n \in Scaled(q) : Call("buy", t, n)

\* The risk manager sells at most what the ledger holds, resting buys included.
\* A pipeline sells, while a buy may have been approved by the owner.
Sell(t) ==
    /\ Unused(t) /\ ~exitsOnly
    /\ \E q \in 1..positions[Stock] : \E n \in Scaled(q) : Call("sell", t, n)

\* Variant: sells are not polled.
StartPollOfBuy(t) ==
    /\ ~exitsOnly
    /\ trades[t].status = "pending" /\ trades[t].action = "buy"
    /\ Call("get", t, 0)

\* check_pending_orders asks for the order of every pending trade; a cycle in
\* monitoring mode skips it.
StartPoll(t) ==
    /\ ~exitsOnly
    /\ trades[t].status = "pending"
    /\ Call("get", t, 0)

\* _close_position begins with the balance.
StartExit(t) ==
    /\ trades[t].status = "filled" /\ trades[t].action = "buy"
    /\ Call("balance", t, 0)

\* The order that _close_position_inner places next
ExitJob(t, qty) == [kind |-> "exit", trade |-> t, qty |-> qty]

\* fut.result(timeout=30): only talking to the gateway takes that long.  An
\* exit goes on with the ledger's quantity.
GiveUp ==
    /\ waiting /\ ToPlace # {}
    /\ LET last == queue[Len(queue)] IN
       IF last.kind = "balance"
       THEN /\ queue' = Append(queue, ExitJob(last.trade, Held(trades[last.trade])))
            /\ waiting' = TRUE
       ELSE waiting' = FALSE /\ UNCHANGED queue
    /\ UNCHANGED <<ledgerVars, ref, gatewayVars, view, exitsOnly, apart>>

\* _refresh_ibkr_holdings takes the cash over; the account began with the
\* ledger's and pays one per share.
RefreshIbkrHoldings ==
    /\ ~waiting /\ queue = <<>>
    /\ cash' = InitialCash - view.held
    /\ UNCHANGED <<trades, positions, tracked, ref, gatewayVars, view, queue, waiting>>
    /\ UNCHANGED <<exitsOnly, apart>>

-----------------------------------------------------------------------------
(* The worker thread *)

\* Whether somebody waits for the job at the head
Answered == waiting /\ Len(queue) = 1

Done == queue' = Tail(queue) /\ waiting' = (waiting /\ Len(queue) > 1)

Shares(job) == job.qty \div Unit

\* place_market_order and place_limit_order: the loop runs while the contract
\* is qualified, and may hear of all that happened.
Placed(job) ==
    LET order == [kind |-> job.kind, trade |-> job.trade, shares |-> Shares(job),
                  filled |-> 0, st |-> "open"]
    IN /\ connected /\ Shares(job) >= 1
       /\ ibOrders' = Append(ibOrders, order)
       /\ \E heard \in {view, [orders |-> ibOrders, held |-> held]} :
             view' = [heard EXCEPT !.orders = Append(@, order)]
       /\ UNCHANGED <<held, connected>>

Refused(job) ==
    /\ ~connected \/ Shares(job) < 1
    /\ UNCHANGED <<ledgerVars, ref, gatewayVars, view, apart>>

\* An order whose caller has given up
PlacedLate(job) ==
    /\ ~Answered
    /\ Placed(job)
    /\ apart' = apart \cup {"late"}
    /\ UNCHANGED <<ledgerVars, ref>>

\* The OPEN order is booked as pending, unless add_trade finds that the cash or
\* the position does not cover it; run answers with the error then.
BookedAsPending(job) ==
    LET t == job.trade
        tr == NewTrade("pending", job.kind, Stock, job.qty, 1)
    IN /\ Answered
       /\ Placed(job)
       /\ IF CanAdd(tr)
          THEN /\ AddTrade(t, tr)
               /\ ref' = [ref EXCEPT ![t] = Len(ibOrders')]
               /\ UNCHANGED apart
          ELSE apart' = apart \cup {"unbooked"} /\ UNCHANGED <<ledgerVars, ref>>

WorkTrade ==
    /\ queue # <<>> /\ Head(queue).kind \in {"buy", "sell"}
    /\ Done
    /\ BookedAsPending(Head(queue)) \/ PlacedLate(Head(queue)) \/ Refused(Head(queue))

\* Variant: an exit that is not known to be filled has not closed its trade.
ClosedWhenFilled(job) ==
    /\ Answered
    /\ Placed(job)
    /\ UNCHANGED <<ledgerVars, ref, apart>>

\* The trade is closed at once, at the price of zero that came with the order.
\* It is closed as a whole, whether or not all of it was sold, or all of it was
\* still in the position.
ClosedAtOnce(job) ==
    LET tr == trades[job.trade] IN
    /\ Answered
    /\ Placed(job)
    /\ CloseTrade(job.trade, 0, 0)
    /\ apart' = IF Held(tr) # Shares(job) * Unit \/ Held(tr) > positions[Stock]
                   THEN apart \cup {"overlap"} ELSE apart
    /\ UNCHANGED ref

WorkExit ==
    /\ queue # <<>> /\ Head(queue).kind = "exit"
    /\ Done
    /\ ClosedAtOnce(Head(queue)) \/ PlacedLate(Head(queue)) \/ Refused(Head(queue))

\* _cap_qty_to_balance; without a balance the trade is closed unsold.
WorkBalance ==
    LET t == Head(queue).trade IN
    /\ queue # <<>> /\ Head(queue).kind = "balance"
    /\ CASE ~Answered ->
              Done /\ UNCHANGED <<ledgerVars, apart>>
         [] Answered /\ view.held <= 0 ->
              /\ Done
              /\ CloseTrade(t, 1, 0)
              /\ apart' = apart \cup {"unsold"}
         [] OTHER ->
              /\ queue' = <<ExitJob(t, Least(Held(trades[t]), view.held))>>
              /\ waiting' = TRUE
              /\ UNCHANGED <<ledgerVars, apart>>
    /\ UNCHANGED <<ref, gatewayVars, view>>

\* max(0.0, ...) of the position gives a sale whose last shares stay unsold more
\* back than the account has: buys that were sold while they rested filled less.
SaleFloors(t, filled) ==
    /\ trades[t].action = "sell" /\ filled # trades[t].qty
    /\ positions[Stock] + trades[t].qty < filled

\* check_pending_orders for one order.  Formatting the missing filled_quantity
\* of an order that ended after a partial fill raises, in every poll; SUBMITTED
\* and INACTIVE are not among the statuses it knows.
CheckedPending(t) ==
    LET known == ref[t] \in DOMAIN view.orders
        order == view.orders[ref[t]]
        unfilled == order.st = "cancelled" /\ order.filled = 0
    IN CASE ~known ->
              /\ MarkTradeStatus(t, trades[t], "failed")
              /\ apart' = apart \cup {"forgotten"}
              /\ UNCHANGED <<positions, tracked, cash>>
         [] known /\ order.st = "filled" ->
              /\ UpdateTradeFill(t, 1, order.filled * Unit, 0, "filled")
              /\ apart' = IF SaleFloors(t, order.filled * Unit) THEN apart \cup {"overlap"} ELSE apart
         [] known /\ unfilled ->
              /\ MarkTradeStatus(t, trades[t], "cancelled")
              /\ ReverseTradeBooking(trades[t])
              /\ apart' = IF trades[t].action = "buy" /\ positions[Stock] < trades[t].qty
                          THEN apart \cup {"overlap"} ELSE apart
         [] OTHER -> UNCHANGED <<ledgerVars, apart>>

AnswerPoll(t) ==
    /\ Answered /\ Head(queue).kind = "get" /\ Head(queue).trade = t
    /\ Done
    /\ CheckedPending(t)
    /\ UNCHANGED <<ref, gatewayVars, view>>

\* A poll nobody waits for any more
DropPoll ==
    /\ queue # <<>> /\ Head(queue).kind = "get" /\ ~Answered
    /\ Done
    /\ UNCHANGED <<ledgerVars, ref, gatewayVars, view, apart>>

Work ==
    /\ \/ WorkTrade \/ WorkExit \/ WorkBalance
       \/ \E t \in Trade : AnswerPoll(t)
       \/ DropPoll
    /\ UNCHANGED exitsOnly

-----------------------------------------------------------------------------
(* The gateway *)

FillShares(o) ==
    /\ ibOrders[o].st = "open"
    /\ \E n \in 1..(ibOrders[o].shares - ibOrders[o].filled) :
          LET filled == ibOrders[o].filled + n IN
          /\ ibOrders' = [ibOrders EXCEPT ![o].filled = filled,
                          ![o].st = IF filled = ibOrders[o].shares THEN "filled" ELSE @]
          /\ held' = IF ibOrders[o].kind = "buy" THEN held + n * Unit ELSE held - n * Unit
    /\ UNCHANGED <<ledgerVars, ref, connected, view, queue, waiting, exitsOnly, apart>>

\* A day's order ends with the session; a refused one is not filled at all.
End(o) ==
    /\ ibOrders[o].st = "open"
    /\ \E st \in {"cancelled", "inactive"} :
          /\ st = "inactive" => ibOrders[o].filled = 0
          /\ ibOrders' = [ibOrders EXCEPT ![o].st = st]
    /\ UNCHANGED <<ledgerVars, ref, held, connected, view, queue, waiting, exitsOnly, apart>>

\* ib_insync may keep what it heard or forget it.
Disconnect ==
    /\ connected
    /\ connected' = FALSE
    /\ view' \in {view, Nothing}
    /\ UNCHANGED <<ledgerVars, ref, ibOrders, held, queue, waiting, exitsOnly, apart>>

-----------------------------------------------------------------------------

VenueNext ==
    \/ \E t \in Trade : Buy(t) \/ Sell(t) \/ StartPoll(t) \/ StartExit(t)
    \/ StartVenueCycle \/ GiveUp \/ RefreshIbkrHoldings
    \/ Work
    \/ \E o \in DOMAIN ibOrders : FillShares(o) \/ End(o)
    \/ Disconnect

VenueSpec == VenueInit /\ [][VenueNext]_venueVars

\* The worker goes on, and every cycle outside monitoring mode polls every
\* pending trade: strong fairness, for a poll is possible in those cycles only.
\* Of the mode itself nothing is assumed.
VenueFairSpec ==
    /\ VenueSpec
    /\ WF_venueVars(Work)
    /\ \A t \in Trade : SF_venueVars(StartPoll(t))

-----------------------------------------------------------------------------
(* Properties *)

AccountTypeOK ==
    /\ LedgerTypeOK
    /\ ref \in [Trade -> Nat]
    /\ ibOrders \in Seq(VenueOrder) /\ held \in Int
    /\ view \in [orders: Seq(VenueOrder), held: Int]
    /\ queue \in Seq(Job) /\ waiting \in BOOLEAN /\ connected \in BOOLEAN
    /\ apart \subseteq VenueCause

VenueTypeOK == AccountTypeOK /\ exitsOnly \in BOOLEAN

Resting == {t \in Trade : trades[t].status = "pending"}

\* What is booked of a pending trade and not filled
Outstanding ==
    [t \in Resting |-> Sign(trades[t]) * (trades[t].qty - ibOrders[ref[t]].filled * Unit)]

ExitOrders == {o \in DOMAIN ibOrders : ibOrders[o].kind = "exit"}

\* What is still to be sold of a closed trade
Unsold == [o \in ExitOrders |-> (ibOrders[o].shares - ibOrders[o].filled) * Unit]

\* Up to the first cause of divergence, the ledger's position is the account's,
\* but for what is outstanding of the pending trades and of the exits.
LedgerMatchesAccount ==
    apart = {} =>
        positions[Stock] = held + SumFunctionOnSet(Outstanding, Resting)
                         - SumFunctionOnSet(Unsold, ExitOrders)

Exits(t) == {o \in ExitOrders : ibOrders[o].trade = t}

\* A trade is closed if and only if one order was placed to sell it, unless an
\* order was placed after its caller gave up, or the balance was not known.
ClosedMeansSold ==
    apart \cap {"late", "unsold"} = {} =>
        \A t \in Trade :
           Cardinality(Exits(t)) = IF trades[t].status = "closed" THEN 1 ELSE 0

\* From some time on the gateway answers within half a minute.
CallsAreAnswered == <>[][~GiveUp]_venueVars

\* The loop is not in monitoring mode for good.  A resting buy brings the mode
\* about by itself, and prices of the cache, which the client never renews, may
\* keep its stop from ending it.
VenueCyclesPoll == []<>~exitsOnly

\* A fill that was heard is booked in the end, or its trade is given up, as
\* long as calls are answered and some cycles poll.
HeardFillIsBooked ==
    CallsAreAnswered /\ VenueCyclesPoll =>
        \A t \in Trade :
           (/\ trades[t].status = "pending"
            /\ ref[t] \in DOMAIN view.orders
            /\ view.orders[ref[t]].st = "filled")
              ~> trades[t].status # "pending"
=============================================================================
