----------------------------- MODULE TradingLoop -----------------------------
(***************************************************************************)
(* The orchestrator's main loop (core/orchestrator.py, run_forever), the   *)
(* circuit breaker it trips and recovers, the watchdog thread beside it,   *)
(* the owner's commands from Telegram (at any moment) and from the         *)
(* dashboard (where the loop looks for them), and the container that       *)
(* starts the process again.  What one batch of pipelines does to the      *)
(* ledger is OrderExecution's and ExitEngine's matter; here a batch is the *)
(* step in which the agent may trade.                                      *)
(*                                                                         *)
(* Ages are told apart only as far as the code does: a snapshot is fresh   *)
(* or more than an hour old, the breaker cools down or has cooled down.    *)
(***************************************************************************)
EXTENDS Integers

CONSTANTS
    Value,       \* the portfolio values looked at
    MaxDdPct,    \* risk.max_drawdown_pct, in percent
    MaxLoss,     \* max_daily_loss
    LossCap      \* bound: the daily loss is followed this far

ASSUME LoopAssumption ==
    /\ Value \subseteq Nat \ {0} /\ Value # {}
    /\ MaxDdPct \in Nat \ {0}
    /\ MaxLoss \in Nat \ {0} /\ LossCap \in Nat /\ LossCap >= MaxLoss

VARIABLES
    pc,          \* where the loop is
    hung,        \* a blocking call of the loop does not return
    running,     \* state.is_running
    paused,      \* state.is_paused
    breaker,     \* state.circuit_breaker_triggered
    cooling,     \* less than 30 minutes since _circuit_breaker_ts
    ack,         \* the acknowledgement is in Redis
    live,        \* not paper mode: holdings are synced from the exchange
    redis,       \* the agent has a Redis client
    snapshot,    \* age of _live_snapshot_ts
    synced,      \* _initial_balance_synced
    value,       \* what state.portfolio_value answers
    peak,        \* peak_portfolio_value
    loss,        \* rules._daily_loss
    staleDay,    \* rules._last_reset_date is before today
    sincePause,  \* for the properties: batches begun since the pause
    sinceTrip,   \* for the properties: batches begun since the breaker tripped
    overLimit,   \* for the properties: batches begun over a limit, unjudged
    ackCurrent   \* for the properties: the acknowledgement is of this trip

process == <<pc, hung>>
flags == <<running, paused, breaker, cooling>>
setting == <<live, redis>>
holdings == <<snapshot, synced, value, peak>>
day == <<loss, staleDay>>
history == <<sincePause, sinceTrip, overLimit, ackCurrent>>
vars == <<process, flags, ack, setting, holdings, day, history>>

Stage == {"top",     \* the head of the loop, and the sleeps that lead back to it
          "halt",    \* _handle_circuit_breaker_halt, holdings refreshed
          "cycle",   \* a cycle has begun
          "exits",   \* the batch is done, stops and exits are next
          "judge",   \* holdings refreshed and snapshot taken
          "tail",    \* breaker checked, state saved
          "wait",    \* waiting for the next cycle
          "nap",     \* asleep within the wait, before early triggers are read
          "down"}    \* the process has ended

Drawdown(pct) == (peak - value) * 100 >= pct * peak

\* What _check_circuit_breakers trips on.  A drawdown on data more than an
\* hour old does not count.
Over ==
    \/ snapshot # "old" /\ Drawdown(MaxDdPct)
    \/ loss >= MaxLoss

\* Before the first sync, and always in paper mode, the value is computed
\* from positions and prices.
StartValues ==
    /\ value' \in Value /\ peak' \in Value
    /\ \/ live /\ snapshot' = "fresh" /\ synced' = TRUE /\ peak' = value'
       \/ snapshot' = "never" /\ synced' = FALSE

Init ==
    /\ pc = "top" /\ hung = FALSE
    /\ running = TRUE /\ paused = FALSE /\ breaker = FALSE /\ cooling = FALSE
    /\ ack = FALSE
    /\ live \in BOOLEAN /\ redis \in BOOLEAN
    /\ value \in Value /\ peak \in Value
    /\ \/ live /\ snapshot = "fresh" /\ synced = TRUE /\ peak = value
       \/ snapshot = "never" /\ synced = FALSE
    /\ loss = 0 /\ staleDay = FALSE
    /\ sincePause = 0 /\ sinceTrip = 0 /\ overLimit = 0 /\ ackCurrent = FALSE

-----------------------------------------------------------------------------
(* Shared steps *)

\* maybe_refresh_holdings: young data is kept, a failed refresh keeps the old
\* snapshot.  The first sync of a process sets the peak and clears the breaker.
Refresh ==
    \/ UNCHANGED <<holdings, breaker>>
    \/ /\ live
       /\ snapshot' = "fresh" /\ synced' = TRUE
       /\ value' \in Value
       /\ IF synced THEN UNCHANGED <<peak, breaker>>
          ELSE peak' = value' /\ breaker' = FALSE

Today == IF staleDay THEN 0 ELSE loss

ResetDay == loss' = Today /\ staleDay' = FALSE

\* Variant: the status is published without resetting the day's counters.
SyncToRedisAsIs == UNCHANGED day

\* sync_to_redis publishes rules.get_status, which resets the counters of a
\* day gone by; without Redis nothing is looked at.
SyncToRedis == IF redis THEN ResetDay ELSE UNCHANGED day

Counted(n) == IF n < 3 THEN n + 1 ELSE n

\* Pipelines of some pairs: here the agent buys, sells and swaps.  Holdings
\* may be refreshed first, checking a buy resets the day's counters.
Batch ==
    /\ Refresh
    /\ ResetDay \/ UNCHANGED day
    /\ sincePause' = IF paused THEN Counted(sincePause) ELSE sincePause
    /\ sinceTrip' = IF breaker THEN Counted(sinceTrip) ELSE sinceTrip
    /\ overLimit' = IF Over THEN Counted(overLimit) ELSE overLimit

Goes(from, to) == pc = from /\ ~hung /\ pc' = to /\ hung' = FALSE

-----------------------------------------------------------------------------
(* The loop *)

\* is_running is read at the head of the loop only.
ShutDown ==
    /\ ~running
    /\ Goes("top", "down")
    /\ UNCHANGED <<flags, ack, setting, holdings, day, history>>

TopPaused ==
    /\ running /\ paused
    /\ Goes("top", "top")
    /\ SyncToRedis
    /\ UNCHANGED <<flags, ack, setting, holdings, history>>

HaltRefresh ==
    /\ running /\ ~paused /\ breaker
    /\ Goes("top", "halt")
    /\ Refresh
    /\ overLimit' = IF breaker' THEN overLimit ELSE 0
    /\ UNCHANGED <<running, paused, cooling, ack, setting, day, sincePause, sinceTrip, ackCurrent>>

\* _try_circuit_breaker_recovery: a drawdown below 80 % of the limit, on
\* fresh data.  The daily loss is the counter as it stands, also yesterday's.
CanRecover ==
    /\ ~cooling
    /\ snapshot = "fresh"
    /\ ~((peak - value) * 1000 >= 8 * MaxDdPct * peak)
    /\ loss < MaxLoss

HaltRecover ==
    /\ Goes("halt", "top")
    /\ IF CanRecover THEN breaker' = FALSE /\ cooling' = FALSE /\ overLimit' = 0
       ELSE UNCHANGED <<breaker, cooling, overLimit>>
    /\ SyncToRedis
    /\ UNCHANGED <<running, paused, ack, setting, holdings, sincePause, sinceTrip, ackCurrent>>

BeginCycle ==
    /\ running /\ ~paused /\ ~breaker
    /\ Goes("top", "cycle")
    /\ UNCHANGED <<flags, ack, setting, holdings, day, history>>

\* No LLM provider answers: the whole cycle is skipped, exits included.
SkipCycle ==
    /\ Goes("cycle", "top")
    /\ UNCHANGED <<flags, ack, setting, holdings, day, history>>

\* The pipelines of the cycle, or none in monitoring mode
RunBatch ==
    /\ Goes("cycle", "exits")
    /\ Batch
    /\ UNCHANGED <<running, paused, cooling, ack, setting, ackCurrent>>

NoBatch ==
    /\ Goes("cycle", "exits")
    /\ UNCHANGED <<flags, ack, setting, holdings, day, history>>

Higher(a, b) == IF a >= b THEN a ELSE b

\* Stops and exits are over: holdings are refreshed, the snapshot moves the peak.
TakeSnapshot ==
    /\ Goes("exits", "judge")
    /\ \/ /\ UNCHANGED <<snapshot, synced, value, breaker>>
          /\ peak' = Higher(peak, value)
       \/ /\ live
          /\ snapshot' = "fresh" /\ synced' = TRUE
          /\ breaker' = (breaker /\ synced)
          /\ \E v \in Value :
                value' = v /\ peak' = IF synced THEN Higher(peak, v) ELSE v
    /\ UNCHANGED <<running, paused, cooling, ack, setting, day, history>>

\* Variant: the acknowledgement of an earlier trip is left in Redis.
TripKeepsAck ==
    /\ breaker' = TRUE /\ cooling' = TRUE
    /\ ackCurrent' = FALSE
    /\ sinceTrip' = 0
    /\ SyncToRedis
    /\ UNCHANGED <<ack, overLimit>>

Trip ==
    /\ breaker' = TRUE /\ cooling' = TRUE
    /\ ack' = (ack /\ ~redis) /\ ackCurrent' = FALSE
    /\ sinceTrip' = 0
    /\ SyncToRedis
    /\ UNCHANGED overLimit

\* Variant: a trip by the drawdown only.
JudgeDrawdownOnly ==
    /\ Goes("judge", "tail")
    /\ IF ~breaker /\ snapshot # "old" /\ Drawdown(MaxDdPct) THEN Trip
       ELSE /\ overLimit' = IF Over THEN overLimit ELSE 0
            /\ UNCHANGED <<breaker, cooling, ack, day, sinceTrip, ackCurrent>>
    /\ UNCHANGED <<running, paused, setting, holdings, sincePause>>

\* _check_circuit_breakers, then save_state
Judge ==
    /\ Goes("judge", "tail")
    /\ IF ~breaker /\ Over THEN Trip
       ELSE /\ overLimit' = IF Over THEN overLimit ELSE 0
            /\ UNCHANGED <<breaker, cooling, ack, day, sinceTrip, ackCurrent>>
    /\ UNCHANGED <<running, paused, setting, holdings, sincePause>>

\* The rest of the cycle ends with sync_to_redis and the dashboard's commands.
EndCycle ==
    /\ Goes("tail", "wait")
    /\ SyncToRedis
    /\ UNCHANGED <<flags, ack, setting, holdings, history>>

\* An exception is logged, and whatever is left of the cycle is skipped: the
\* breaker may not be looked at.
Raise ==
    /\ \E from \in {"cycle", "exits", "judge", "tail"} : Goes(from, "wait")
    /\ overLimit' = 0
    /\ UNCHANGED <<flags, ack, setting, holdings, day, sincePause, sinceTrip, ackCurrent>>

\* Variant: the wait does not look at the breaker.
NapWhileHalted ==
    /\ running /\ ~paused
    /\ Goes("wait", "nap")
    /\ UNCHANGED <<flags, ack, setting, holdings, day, history>>

\* Variant: the wait does not look at the pause.
NapWhilePaused ==
    /\ running /\ ~breaker
    /\ Goes("wait", "nap")
    /\ UNCHANGED <<flags, ack, setting, holdings, day, history>>

\* The wait sleeps in slices of ten seconds while nothing stops it.
Nap ==
    /\ running /\ ~paused /\ ~breaker
    /\ Goes("wait", "nap")
    /\ UNCHANGED <<flags, ack, setting, holdings, day, history>>

NapOver ==
    /\ Goes("nap", "wait")
    /\ UNCHANGED <<flags, ack, setting, holdings, day, history>>

\* A price move or news during the nap: pipelines run at once, without a look
\* at the flags, and the wait ends.
EarlyBatch ==
    /\ Goes("nap", "top")
    /\ Batch
    /\ UNCHANGED <<running, paused, cooling, ack, setting, ackCurrent>>

\* The interval is over or a flag was raised.
WaitOver ==
    /\ Goes("wait", "top")
    /\ UNCHANGED <<flags, ack, setting, holdings, day, history>>

Loop ==
    \/ ShutDown \/ TopPaused
    \/ HaltRefresh \/ HaltRecover
    \/ BeginCycle \/ SkipCycle \/ RunBatch \/ NoBatch
    \/ TakeSnapshot \/ Judge \/ EndCycle \/ Raise
    \/ Nap \/ NapOver \/ EarlyBatch \/ WaitOver

-----------------------------------------------------------------------------
(* The owner *)

Resumed ==
    /\ paused' = FALSE /\ breaker' = FALSE
    /\ sincePause' = 0 /\ sinceTrip' = 0 /\ overLimit' = 0

TelegramPause ==
    /\ pc # "down"
    /\ paused' = TRUE
    /\ UNCHANGED <<process, running, breaker, cooling, ack, setting, holdings, day, history>>

\* /resume clears the breaker with the pause and leaves the acknowledgement.
TelegramResume ==
    /\ pc # "down"
    /\ Resumed
    /\ UNCHANGED <<process, running, cooling, ack, setting, holdings, day, ackCurrent>>

TelegramStop ==
    /\ pc # "down"
    /\ running' = FALSE /\ paused' = TRUE
    /\ UNCHANGED <<process, breaker, cooling, ack, setting, holdings, day, history>>

\* process_commands runs at the head of the loop and at the end of a cycle.
LooksForCommands == ~hung /\ redis /\ pc \in {"top", "tail"}

DashboardResume ==
    /\ LooksForCommands
    /\ Resumed
    /\ cooling' = FALSE /\ ack' = FALSE
    /\ ResetDay
    /\ UNCHANGED <<process, running, setting, holdings, ackCurrent>>

DashboardAcknowledge ==
    /\ LooksForCommands
    /\ ack' = TRUE /\ ackCurrent' = TRUE
    /\ UNCHANGED <<process, flags, setting, holdings, day, sincePause, sinceTrip, overLimit>>

-----------------------------------------------------------------------------
(* Time, market, faults *)

CoolingEnds ==
    /\ cooling
    /\ cooling' = FALSE
    /\ UNCHANGED <<process, running, paused, breaker, ack, setting, holdings, day, history>>

SnapshotAges ==
    /\ snapshot = "fresh"
    /\ snapshot' = "old"
    /\ UNCHANGED <<process, flags, ack, setting, synced, value, peak, day, history>>

\* Without live data the value follows the price feed.
LocalValueMoves ==
    /\ snapshot = "never"
    /\ value' \in Value
    /\ UNCHANGED <<process, flags, ack, setting, snapshot, synced, peak, day, history>>

\* A position is closed at a loss: by an exit, a command, or the chat.
RecordLoss ==
    /\ pc # "down"
    /\ Today < LossCap
    /\ loss' = Today + 1 /\ staleDay' = FALSE
    /\ UNCHANGED <<process, flags, ack, setting, holdings, history>>

Midnight ==
    /\ pc # "down"
    /\ staleDay' = TRUE
    /\ UNCHANGED <<process, flags, ack, setting, holdings, loss, history>>

\* A blocking call hangs: of the cycle, the halt handler, a command or the
\* publishing at the head, the proactive update or an early batch of the wait.
Hang ==
    /\ ~hung /\ pc # "down"
    /\ hung' = TRUE
    /\ UNCHANGED <<pc, flags, ack, setting, holdings, day, history>>

Returns ==
    /\ hung
    /\ hung' = FALSE
    /\ UNCHANGED <<pc, flags, ack, setting, holdings, day, history>>

\* Variant: the watchdog takes a halted loop for a paused one.
WatchdogSparesHalt ==
    /\ hung /\ running /\ ~paused /\ ~breaker
    /\ pc' = "down" /\ hung' = FALSE
    /\ UNCHANGED <<flags, ack, setting, holdings, day, history>>

\* No heartbeat for the timeout: os._exit.  The thread refreshes the heartbeat
\* of a paused loop itself and ends with is_running.
Watchdog ==
    /\ hung /\ running /\ ~paused
    /\ pc' = "down" /\ hung' = FALSE
    /\ UNCHANGED <<flags, ack, setting, holdings, day, history>>

Crash ==
    /\ pc # "down"
    /\ pc' = "down" /\ hung' = FALSE
    /\ UNCHANGED <<flags, ack, setting, holdings, day, history>>

\* The container is started again after any end, also after /stop.  Pause and
\* breaker are not read back; the day's losses are, unless the database fails.
Restart ==
    /\ pc = "down"
    /\ pc' = "top" /\ hung' = FALSE
    /\ running' = TRUE /\ paused' = FALSE /\ breaker' = FALSE /\ cooling' = FALSE
    /\ StartValues
    /\ loss' \in 0..Today /\ staleDay' = FALSE
    /\ sincePause' = 0 /\ sinceTrip' = 0 /\ overLimit' = 0
    /\ UNCHANGED <<ack, setting, ackCurrent>>

Next ==
    \/ Loop
    \/ TelegramPause \/ TelegramResume \/ TelegramStop
    \/ DashboardResume \/ DashboardAcknowledge
    \/ CoolingEnds \/ SnapshotAges \/ LocalValueMoves \/ RecordLoss \/ Midnight
    \/ Hang \/ Returns \/ Watchdog \/ Crash \/ Restart

Spec == Init /\ [][Next]_vars

\* The loop goes on, time passes, the watchdog looks, Docker restarts.
FairSpec ==
    /\ Spec
    /\ WF_vars(Loop) /\ WF_vars(CoolingEnds) /\ WF_vars(Watchdog) /\ WF_vars(Restart)

-----------------------------------------------------------------------------
(* Properties *)

TypeOK ==
    /\ pc \in Stage /\ hung \in BOOLEAN
    /\ running \in BOOLEAN /\ paused \in BOOLEAN
    /\ breaker \in BOOLEAN /\ cooling \in BOOLEAN /\ ack \in BOOLEAN
    /\ live \in BOOLEAN /\ redis \in BOOLEAN
    /\ snapshot \in {"never", "fresh", "old"} /\ synced \in BOOLEAN
    /\ value \in Value /\ peak \in Value
    /\ loss \in 0..LossCap /\ staleDay \in BOOLEAN
    /\ sincePause \in 0..3 /\ sinceTrip \in 0..3 /\ overLimit \in 0..3
    /\ ackCurrent \in BOOLEAN

\* After a pause at most one more batch begins: that of the cycle under way,
\* or an early one whose nap the pause fell into.
PauseLetsOneBatchBegin == sincePause <= 1

\* Once the breaker has tripped no batch begins until it is cleared, although
\* the flag is only read at the head of the loop and in the wait.
TripStopsBatches == sinceTrip = 0

\* Over the drawdown or the daily loss limit at most two batches begin before
\* the breaker answers, an early one and that of the next cycle, unless a
\* cycle raises, the owner resumes, the first live sync clears the breaker, or
\* the process starts anew.
TwoBatchesOverLimit == overLimit <= 2

\* An acknowledgement shown while the breaker is tripped is of this trip.
AcknowledgedThisTrip == breaker /\ ack /\ redis => ackCurrent

Calm ==
    /\ live /\ redis /\ running /\ ~paused /\ ~hung
    /\ snapshot = "fresh"
    /\ (peak - value) * 1000 < 8 * MaxDdPct * peak
    /\ Today < MaxLoss

\* A halt ends by itself once the drawdown has subsided and the day's losses
\* are below the limit, while data stays fresh and with Redis: only publishing the
\* status resets the counter the recovery reads.
HaltEnds == <>[]Calm => []<>~breaker

\* A hung loop is killed, unless it is paused or was told to stop: the
\* watchdog does not look then.
HungLoopIsKilled == hung ~> (~hung \/ paused \/ ~running)
=============================================================================
