---------------------------- MODULE CrashRecovery ----------------------------
(***************************************************************************)
(* Where the record of one decision to buy lives, and what a crash, a      *)
(* shutdown or a cancelled coroutine leaves of it.  A pipeline or the      *)
(* owner's approval places the order; then, one after the other, the       *)
(* ledger (core/state.py), the daily counters (core/rules.py), the         *)
(* statistics database and the trailing stop of the pair are told.  The    *)
(* ledger is saved to a file at the end of a cycle, the approval queue is  *)
(* mirrored to Redis (core/managers/state_manager.py), the counters are    *)
(* seeded from the database, and positions are found again on the account. *)
(*                                                                         *)
(* Coroutines run only while the main loop turns the event loop: for a     *)
(* batch, the rotation, the settings advisor or the learning engine.  One  *)
(* that waits in _verify_fill or for the database stays where it is until  *)
(* the next of these, is cancelled by the deadline of a batch when it is a *)
(* pipeline, and by a shutdown always.  The agent trades live: in paper    *)
(* mode no fill is verified and there is no account to find positions on.  *)
(* Resting orders are OrderExecution's, sells are ExitEngine's.            *)
(***************************************************************************)
EXTENDS Integers, FiniteSets

CONSTANTS
    Trade,        \* decisions to buy, each of a pair of its own
    Swap,         \* rotations that need the owner's approval
    MaxRestarts   \* bound: how often the process ends and starts again

ASSUME RecoveryAssumption ==
    /\ IsFiniteSet(Trade) /\ Trade # {}
    /\ Trade \cap Swap = {}
    /\ MaxRestarts \in Nat

VARIABLES
    loop,       \* where the main loop is
    step,       \* where the coroutine that executes a decision is
    chat,       \* decisions whose coroutine was started by an approval
    queued,     \* orch._pending_approvals
    overdue,    \* decisions queued more than an hour ago
    mirror,     \* agent:pending_approvals in Redis
    told,       \* what the owner was last told about a decision
    orders,     \* exchange: orders placed for a decision
    coins,      \* exchange: how many of them were filled
    booked,     \* state.trades: how many of them the ledger has
    file,       \* trading_state.json: how many of them were saved
    pos,        \* state.positions of the pair, in orders
    stop,       \* pairs with a trailing stop of their own
    counted,    \* rules: how many of them count for the day
    rows,       \* statistics database: how many rows there are
    restarts,   \* for the bound
    revived,    \* for the properties: how often a settled approval came back
    unsaved,    \* for the properties: decisions booked since the last save
    cut,        \* for the properties: decisions cancelled in _verify_fill or lost
    unwatched,  \* for the properties: buys cancelled before their stop was set
    rowLost     \* for the properties: bookings whose row died with the process

exchange == <<orders, coins>>
ledger == <<booked, pos, counted, stop>>
disk == <<file, rows>>
approvals == <<queued, overdue, mirror, told>>
ghosts == <<revived, unsaved, cut, unwatched, rowLost>>
vars == <<loop, step, chat, exchange, ledger, disk, approvals, restarts, ghosts>>

Proposal == Trade \cup Swap

Loop == {"batch",      \* pipelines
         "after",      \* rotation, exits, holdings, breaker
         "saved",      \* the ledger is in the file; settings advisor, learning
         "published",  \* the queue is in Redis
         "wait",       \* until the next cycle
         "down"}       \* there is no process

\* "over" covers a decision that failed, ended or belongs to an earlier process.
Step == {"new", "asked", "scheduled", "verifying", "writing", "written",
         "orphan", "done", "over"}

Settled == {"approved", "rejected", "expired"}

\* Where a coroutine is suspended
Suspended == {"verifying", "writing", "written"}

Init ==
    /\ loop = "wait"
    /\ step = [p \in Proposal |-> "new"]
    /\ chat = {}
    /\ queued = {} /\ overdue = {} /\ mirror = {}
    /\ told = [p \in Proposal |-> "nothing"]
    /\ orders = [t \in Trade |-> 0] /\ coins = [t \in Trade |-> 0]
    /\ booked = [t \in Trade |-> 0] /\ file = [t \in Trade |-> 0]
    /\ pos = [t \in Trade |-> 0] /\ stop = {}
    /\ counted = [t \in Trade |-> 0] /\ rows = [t \in Trade |-> 0]
    /\ restarts = 0
    /\ revived = [p \in Proposal |-> 0]
    /\ unsaved = {} /\ cut = {} /\ unwatched = {} /\ rowLost = {}

More(f, t) == [f EXCEPT ![t] = @ + 1]

-----------------------------------------------------------------------------
(* A decision and its execution.  Everything between two awaits is one step. *)

\* add_trade and record_trade; the pipeline goes on to the statistics.
Book(t) ==
    /\ booked' = More(booked, t) /\ pos' = More(pos, t)
    /\ counted' = More(counted, t)
    /\ step' = [step EXCEPT ![t] = IF t \in chat THEN "done" ELSE "writing"]
    /\ unsaved' = unsaved \cup {t}
    /\ UNCHANGED <<stop, revived, cut, unwatched, rowLost>>

\* The executor places the order: refused, confirmed at once, or to be asked
\* for again after a sleep, filled or not.
Executes(t) ==
    /\ UNCHANGED <<loop, disk, restarts>>
    /\ \/ /\ step' = [step EXCEPT ![t] = "over"]
          /\ UNCHANGED <<exchange, ledger, ghosts>>
       \/ orders' = More(orders, t) /\ coins' = More(coins, t) /\ Book(t)
       \/ /\ orders' = More(orders, t)
          /\ coins' \in {coins, More(coins, t)}
          /\ step' = [step EXCEPT ![t] = "verifying"]
          /\ UNCHANGED <<ledger, ghosts>>

\* run_until_complete: whatever it is for, every coroutine that can goes on.
EventLoopTurns == loop \in {"batch", "after", "saved"}

\* A pipeline decides to buy, and needs no approval.
Buy(t) ==
    /\ loop = "batch" /\ step[t] = "new"
    /\ Executes(t)
    /\ UNCHANGED <<chat, approvals>>

\* A pipeline's decision, or the rotation's, is queued for the owner.
Ask(p) ==
    /\ loop = (IF p \in Swap THEN "after" ELSE "batch") /\ step[p] = "new"
    /\ step' = [step EXCEPT ![p] = "asked"]
    /\ queued' = queued \cup {p}
    /\ UNCHANGED <<loop, chat, overdue, mirror, told, exchange, ledger, disk, restarts,
                   ghosts>>

\* The exchange fills an order, whoever still waits for it.
Fill(t) ==
    /\ coins[t] < orders[t]
    /\ coins' = More(coins, t)
    /\ UNCHANGED <<loop, step, chat, orders, ledger, disk, approvals, restarts, ghosts>>

\* _verify_fill returns.  An order that is still open after the last attempt is
\* booked like a filled one; one that ended is not booked.
Verified(t) ==
    /\ EventLoopTurns /\ step[t] = "verifying"
    /\ \/ Book(t) /\ UNCHANGED exchange
       \/ /\ coins[t] < orders[t]
          /\ orders' = [orders EXCEPT ![t] = @ - 1]
          /\ step' = [step EXCEPT ![t] = "over"]
          /\ UNCHANGED <<coins, ledger, ghosts>>
    /\ UNCHANGED <<loop, chat, disk, approvals, restarts>>

\* The worker thread writes the row, also when nobody waits for it any more.
WriteRow(t) ==
    /\ step[t] \in {"writing", "orphan"}
    /\ rows' = More(rows, t)
    /\ step' = [step EXCEPT ![t] = IF @ = "writing" THEN "written" ELSE "done"]
    /\ UNCHANGED <<loop, chat, exchange, ledger, file, approvals, restarts, ghosts>>

\* The rest of the pipeline: add_stop.
Finish(t) ==
    /\ EventLoopTurns /\ step[t] = "written"
    /\ stop' = stop \cup {t}
    /\ step' = [step EXCEPT ![t] = "done"]
    /\ UNCHANGED <<loop, chat, exchange, booked, pos, counted, disk, approvals, restarts,
                   ghosts>>

-----------------------------------------------------------------------------
(* The owner, in the chat thread *)

\* cmd_approve_trade: out of the queue, on to the loop, for a minute the
\* thread waits.  What it says in the end depends on what the coroutine does.
Approve(p) ==
    /\ loop # "down" /\ p \in queued
    /\ queued' = queued \ {p}
    /\ told' = [told EXCEPT ![p] = "approved"]
    /\ step' = [step EXCEPT ![p] = "scheduled"]
    /\ chat' = chat \cup {p}
    /\ UNCHANGED <<loop, overdue, mirror, exchange, ledger, disk, restarts, ghosts>>

\* The minute is over; the coroutine stays with the loop.
GiveUp(p) ==
    /\ loop # "down" /\ told[p] = "approved" /\ step[p] \in {"scheduled", "verifying"}
    /\ told' = [told EXCEPT ![p] = "failed"]
    /\ UNCHANGED <<loop, step, chat, queued, overdue, mirror, exchange, ledger, disk,
                   restarts, ghosts>>

\* Variant: the answer is given and the decision stays in the queue.
RejectKeeps(p) ==
    /\ loop # "down" /\ p \in queued
    /\ told' = [told EXCEPT ![p] = "rejected"]
    /\ UNCHANGED <<loop, step, chat, queued, overdue, mirror, exchange, ledger, disk,
                   restarts, ghosts>>

\* cmd_reject_trade
Reject(p) ==
    /\ loop # "down" /\ p \in queued
    /\ queued' = queued \ {p}
    /\ told' = [told EXCEPT ![p] = "rejected"]
    /\ step' = [step EXCEPT ![p] = "over"]
    /\ UNCHANGED <<loop, chat, overdue, mirror, exchange, ledger, disk, restarts, ghosts>>

\* Variant: a decision the owner was told has failed is started again.
RunScheduledAgain(p) ==
    /\ EventLoopTurns /\ \/ step[p] = "scheduled"
                         \/ told[p] = "failed" /\ step[p] = "done"
    /\ IF p \in Trade THEN Executes(p)
       ELSE /\ step' = [step EXCEPT ![p] = "over"]
            /\ UNCHANGED <<loop, exchange, ledger, disk, restarts, ghosts>>
    /\ UNCHANGED <<chat, approvals>>

\* The loop turns and finds the approved decision.  A swap's entry does not
\* say that it is approved, so the executor declines it.
RunScheduled(p) ==
    /\ EventLoopTurns /\ step[p] = "scheduled"
    /\ IF p \in Trade THEN Executes(p)
       ELSE /\ step' = [step EXCEPT ![p] = "over"]
            /\ UNCHANGED <<loop, exchange, ledger, disk, restarts, ghosts>>
    /\ UNCHANGED <<chat, approvals>>

HourPasses ==
    /\ ~((queued \cup mirror) \cap Trade \subseteq overdue)
    /\ overdue' = overdue \cup ((queued \cup mirror) \cap Trade)
    /\ UNCHANGED <<loop, step, chat, queued, mirror, told, exchange, ledger, disk, restarts,
                   ghosts>>

-----------------------------------------------------------------------------
(* The loop *)

StartBatch ==
    /\ loop = "wait"
    /\ loop' = "batch"
    /\ UNCHANGED <<step, chat, exchange, ledger, disk, approvals, restarts, ghosts>>

PipelinesIn(at) == {t \in Trade \ chat : step[t] \in at}

\* All pipelines are through.  A coroutine of the chat may still be waiting.
\* After an early batch, within the wait, the loop goes on waiting.
EndBatch(next) ==
    /\ loop = "batch" /\ PipelinesIn(Suspended) = {}
    /\ loop' = next
    /\ UNCHANGED <<step, chat, exchange, ledger, disk, approvals, restarts, ghosts>>

\* What cancelling leaves of a coroutine: a thread that writes a row goes on.
Cancelled(t) ==
    CASE step[t] = "writing" -> "orphan"
      [] step[t] = "written" -> "done"
      [] OTHER -> "over"

Cancel(ts) ==
    /\ step' = [p \in Proposal |-> IF p \in ts THEN Cancelled(p) ELSE step[p]]
    /\ cut' = cut \cup {t \in ts : step[t] = "verifying"}
    /\ unwatched' = unwatched \cup {t \in ts : step[t] \in {"writing", "written"}}

\* The deadline of a batch cancels the pipelines that are not through.
Deadline ==
    /\ loop = "batch" /\ PipelinesIn(Suspended) # {}
    /\ Cancel(PipelinesIn(Suspended))
    /\ loop' = "after"
    /\ UNCHANGED <<chat, exchange, ledger, disk, approvals, restarts, revived, unsaved,
                   rowLost>>

\* sync_live_holdings: coins of a pair without a position become one, with a
\* stop at today's price.  Pairs that have a position are left alone.
Found == {t \in Trade : pos[t] = 0 /\ coins[t] > 0}

\* Variant: the found positions are not registered with the stops.
RefreshWithoutStops ==
    /\ loop \in {"batch", "after", "wait"} /\ Found # {}
    /\ pos' = [t \in Trade |-> IF t \in Found THEN coins[t] ELSE pos[t]]
    /\ UNCHANGED <<loop, step, chat, exchange, booked, counted, stop, disk, approvals,
                   restarts, ghosts>>

Refresh ==
    /\ loop \in {"batch", "after", "wait"} /\ Found # {}
    /\ pos' = [t \in Trade |-> IF t \in Found THEN coins[t] ELSE pos[t]]
    /\ stop' = stop \cup Found
    /\ UNCHANGED <<loop, step, chat, exchange, booked, counted, disk, approvals, restarts,
                   ghosts>>

\* An exception ends the cycle early.
Raise ==
    /\ loop \in {"after", "saved", "published"}
    /\ loop' = "wait"
    /\ UNCHANGED <<step, chat, exchange, ledger, disk, approvals, restarts, ghosts>>

\* save_state writes a new file and renames it; a failed write is only logged.
SaveState ==
    \/ file' = booked /\ unsaved' = {}
    \/ UNCHANGED <<file, unsaved>>

Save ==
    /\ loop = "after"
    /\ SaveState
    /\ loop' = "saved"
    /\ UNCHANGED <<step, chat, exchange, ledger, rows, approvals, restarts, revived, cut,
                   unwatched, rowLost>>

\* sync_to_redis: an empty queue is not published.  The call may fail.
Publish ==
    /\ loop = "saved"
    /\ mirror' \in {mirror, IF queued = {} THEN mirror ELSE queued}
    /\ loop' = "published"
    /\ UNCHANGED <<step, chat, exchange, ledger, disk, queued, overdue, told, restarts,
                   ghosts>>

\* Variant: only entries without a time are stale.
StaleWithoutTime == queued \cap Swap

\* prune_stale_approvals: a swap carries no time and goes at once.
Stale == (queued \cap Swap) \cup (queued \cap overdue)

Prune ==
    /\ loop = "published"
    /\ queued' = queued \ Stale
    /\ told' = [p \in Proposal |-> IF p \in Stale THEN "expired" ELSE told[p]]
    /\ step' = [p \in Proposal |-> IF p \in Stale THEN "over" ELSE step[p]]
    /\ loop' = "wait"
    /\ UNCHANGED <<chat, overdue, mirror, exchange, ledger, disk, restarts, ghosts>>

-----------------------------------------------------------------------------
(* The end of a process and the next one *)

\* Redis drops the mirror a day after it was last written.
MirrorExpires ==
    /\ mirror # {}
    /\ mirror' = {}
    /\ UNCHANGED <<loop, step, chat, queued, overdue, told, exchange, ledger, disk, restarts,
                   ghosts>>

\* is_running is cleared: the ledger is saved, then every coroutine is cancelled.
\* TrailingStopManager has no save_state, so no stop is saved.
ShutDown ==
    /\ loop = "wait" /\ restarts < MaxRestarts
    /\ SaveState
    /\ Cancel({t \in Trade : step[t] \in Suspended})
    /\ loop' = "down"
    /\ UNCHANGED <<chat, exchange, ledger, rows, approvals, restarts, revived, rowLost>>

\* The process dies anywhere.
Crash ==
    /\ loop # "down" /\ restarts < MaxRestarts
    /\ loop' = "down"
    /\ cut' = cut \cup {t \in Trade : step[t] = "verifying"}
    /\ UNCHANGED <<step, chat, exchange, ledger, disk, approvals, restarts, revived, unsaved,
                   unwatched, rowLost>>

\* load_pending_approvals keeps well-formed trades and discards swaps.
Loaded == mirror \cap Trade

\* Variants: the start reads no snapshot; it seeds no counters.
ColdStart == [t \in Trade |-> 0]

\* _warm_start and seed_daily_counters
WarmStart == file
Seeded == rows

\* The process starts: _warm_start, seed_daily_counters, load_pending_approvals.
\* Positions are found by the first refresh.
Restart ==
    /\ loop = "down"
    /\ loop' = "wait"
    /\ restarts' = restarts + 1
    /\ booked' = WarmStart /\ counted' = Seeded
    /\ pos' = [t \in Trade |-> 0] /\ stop' = {}
    /\ queued' = Loaded
    /\ step' = [p \in Proposal |-> IF p \in Loaded THEN "asked"
                                   ELSE IF step[p] = "new" THEN "new" ELSE "over"]
    /\ revived' = [p \in Proposal |-> IF p \in Loaded \ queued THEN revived[p] + 1
                                      ELSE revived[p]]
    /\ rowLost' = rowLost \cup {t \in Trade : step[t] \in {"writing", "orphan"}}
    /\ unsaved' = {}
    /\ unwatched' = {}
    /\ cut' = cut \cup unsaved
    /\ UNCHANGED <<chat, overdue, mirror, told, exchange, disk>>

Next ==
    \/ \E t \in Trade : Buy(t) \/ Fill(t) \/ Verified(t) \/ WriteRow(t) \/ Finish(t)
    \/ \E p \in Proposal : Ask(p) \/ Approve(p) \/ GiveUp(p) \/ Reject(p) \/ RunScheduled(p)
    \/ HourPasses
    \/ StartBatch \/ EndBatch("after") \/ EndBatch("wait") \/ Deadline
    \/ Refresh \/ Raise \/ Save \/ Publish \/ Prune
    \/ MirrorExpires \/ ShutDown \/ Crash \/ Restart

Spec == Init /\ [][Next]_vars

\* Cycles go on, their batches end, not every cycle raises or loses Redis, time
\* passes.  Nothing obliges the owner to answer.
Fairness ==
    /\ WF_vars(StartBatch) /\ WF_vars(HourPasses)
    /\ SF_vars(EndBatch("after") \/ Deadline)
    /\ SF_vars(Save) /\ SF_vars(Publish) /\ SF_vars(Prune)

FairSpec == Spec /\ Fairness

-----------------------------------------------------------------------------
(* Properties *)

TypeOK ==
    /\ loop \in Loop
    /\ step \in [Proposal -> Step]
    /\ chat \subseteq Proposal
    /\ queued \subseteq Proposal /\ overdue \subseteq Trade /\ mirror \subseteq Proposal
    /\ told \in [Proposal -> {"nothing", "failed"} \cup Settled]
    /\ \A f \in {orders, coins, booked, file, pos, counted, rows} : f \in [Trade -> Nat]
    /\ stop \subseteq Trade
    /\ restarts \in 0..MaxRestarts
    /\ revived \in [Proposal -> Nat]
    /\ unsaved \subseteq Trade /\ cut \subseteq Trade
    /\ unwatched \subseteq Trade /\ rowLost \subseteq Trade

\* A decision is ordered once, however often it is approved, timed out on or
\* started over; only an approval that Redis still listed after it was settled
\* can be given, and executed, once more per restart.
OrderedOnce == \A t \in Trade : orders[t] <= 1 + revived[t]

\* What the owner rejected, or was told has expired, is not in the queue, not on
\* its way and was never ordered, unless a restart brought it back.
AnswersStand ==
    \A p \in Proposal :
        told[p] \in {"rejected", "expired"} /\ revived[p] = 0 =>
            /\ p \notin queued /\ step[p] = "over"
            /\ p \in Trade => orders[p] = 0

\* The ledger knows every order of the exchange except those under
\* verification, those whose coroutine was cancelled there, and those a crash
\* took between their booking and the next save.
OrdersAreBooked ==
    \A t \in Trade \ cut :
        orders[t] = booked[t] + (IF step[t] = "verifying" THEN 1 ELSE 0)

\* The day's counters cover every booked buy, also after a restart, except buys
\* approved by chat, which have no row, and rows that died with the process.
BookedBuysCount ==
    \A t \in Trade \ (chat \cup rowLost) : counted[t] >= booked[t]

\* A position has a trailing stop, or its pipeline is about to set it, except
\* buys approved by chat and buys cancelled before their stop was set.
PositionsHaveStops ==
    \A t \in Trade \ (chat \cup unwatched) :
        pos[t] > 0 => t \in stop \/ step[t] \in {"writing", "written"}

\* No approval waits for ever: it is answered, or it expires.
QueueDrains == \A p \in Proposal : []<>(p \notin queued \/ loop = "down")
=============================================================================
