------------------------- MODULE TradingLoop_proofs -------------------------
(***************************************************************************)
(* The safety of the main loop for every set of portfolio values and every *)
(* limit.  The loop reads the flags in two places only, so the invariants  *)
(* say for every place of the loop what the flags still allow: a pause may *)
(* find a cycle or a nap under way, a tripped breaker may not, and a limit *)
(* passed in a nap is judged at the end of the next cycle.                 *)
(***************************************************************************)
EXTENDS TradingLoop, TLAPS

\* One batch more may begin under a pause only where none has begun since.
Pausing ==
    /\ sincePause <= 1
    /\ ~paused => sincePause = 0
    /\ pc \in {"cycle", "nap"} => sincePause = 0

\* Between the head of the loop and the judgement, and in the nap, the
\* breaker is clear: it trips behind the exits only.
Tripping ==
    /\ sinceTrip = 0
    /\ breaker => pc \notin {"cycle", "exits", "judge", "nap"}

\* A batch over a limit that has not been judged was that of this cycle, or an
\* early one just before it.
Judging ==
    /\ overLimit <= 2
    /\ ~breaker /\ pc \in {"tail", "wait", "nap", "halt"} => overLimit = 0
    /\ ~breaker /\ pc \in {"top", "cycle"} => overLimit <= 1

IInv == TypeOK /\ Pausing /\ Tripping /\ Judging /\ AcknowledgedThisTrip

\* Where the counts of batches start.
LEMMA Zero == 0 \in 0..3
OBVIOUS

\* What a refresh may change, and that it only clears the breaker.
LEMMA RefreshFacts ==
    ASSUME TypeOK, Refresh
    PROVE  /\ snapshot' \in {"never", "fresh", "old"} /\ synced' \in BOOLEAN
           /\ value' \in Value /\ peak' \in Value
           /\ breaker' \in BOOLEAN /\ (breaker' => breaker)
<1>1. CASE UNCHANGED <<holdings, breaker>>
  BY <1>1 DEF TypeOK, holdings
<1>2. CASE live /\ snapshot' = "fresh" /\ synced' = TRUE /\ value' \in Value
           /\ IF synced THEN UNCHANGED <<peak, breaker>>
              ELSE peak' = value' /\ breaker' = FALSE
  BY <1>2 DEF TypeOK
<1> QED
  BY <1>1, <1>2 DEF Refresh

\* Resetting the day's counters, or publishing the status, keeps them typed.
LEMMA DayFacts ==
    ASSUME TypeOK
    PROVE  /\ Today \in 0..LossCap
           /\ ResetDay => loss' \in 0..LossCap /\ staleDay' \in BOOLEAN
           /\ SyncToRedis => loss' \in 0..LossCap /\ staleDay' \in BOOLEAN
<1>1. Today \in 0..LossCap
  BY LoopAssumption DEF LoopAssumption, Today, TypeOK
<1> QED
  BY <1>1 DEF ResetDay, SyncToRedis, day, TypeOK

\* What a batch may change: each of the three counts grows by one at most.
LEMMA BatchFacts ==
    ASSUME TypeOK, Batch
    PROVE  /\ snapshot' \in {"never", "fresh", "old"} /\ synced' \in BOOLEAN
           /\ value' \in Value /\ peak' \in Value
           /\ breaker' \in BOOLEAN /\ (breaker' => breaker)
           /\ loss' \in 0..LossCap /\ staleDay' \in BOOLEAN
           /\ sincePause' \in 0..3 /\ sinceTrip' \in 0..3 /\ overLimit' \in 0..3
           /\ sincePause' <= sincePause + 1 /\ (~paused => sincePause' = sincePause)
           /\ overLimit' <= overLimit + 1
           /\ ~breaker => sinceTrip' = sinceTrip
<1>1. Refresh /\ (ResetDay \/ UNCHANGED day)
  BY DEF Batch
<1>2. loss' \in 0..LossCap /\ staleDay' \in BOOLEAN
  BY <1>1, DayFacts DEF day, TypeOK
<1>3. /\ sincePause' = IF paused THEN Counted(sincePause) ELSE sincePause
      /\ sinceTrip' = IF breaker THEN Counted(sinceTrip) ELSE sinceTrip
      /\ overLimit' = IF Over THEN Counted(overLimit) ELSE overLimit
  BY DEF Batch
<1>4. \A n \in 0..3 : Counted(n) \in 0..3 /\ Counted(n) <= n + 1
  BY DEF Counted
<1>5. sincePause \in 0..3 /\ sinceTrip \in 0..3 /\ overLimit \in 0..3
  BY DEF TypeOK
<1> QED
  BY <1>1, <1>2, <1>3, <1>4, <1>5, RefreshFacts

\* Any batch keeps the invariant where it may begin.
LEMMA BatchKeeps ==
    ASSUME IInv, Batch, NEW from \in {"cycle", "nap"}, NEW to \in {"exits", "top"},
           Goes(from, to), from = "nap" <=> to = "top",
           UNCHANGED <<running, paused, cooling, ack, setting, ackCurrent>>
    PROVE  IInv'
<1>1. TypeOK /\ Pausing /\ Tripping /\ Judging /\ AcknowledgedThisTrip
  BY DEF IInv
<1>2. pc = from /\ pc' = to /\ hung' = FALSE
  BY DEF Goes
<1>3. ~breaker /\ sincePause = 0 /\ overLimit \in 0..3
  BY <1>1, <1>2 DEF Tripping, Pausing, TypeOK
<1>4. TypeOK'
  BY <1>1, <1>2, BatchFacts DEF TypeOK, setting, Stage
<1>5. Pausing'
  BY <1>1, <1>2, <1>3, BatchFacts DEF Pausing
<1>6. Tripping'
  BY <1>1, <1>2, <1>3, BatchFacts DEF Tripping
<1>7. Judging'
  BY <1>1, <1>2, <1>3, BatchFacts DEF Judging
<1>8. AcknowledgedThisTrip'
  BY <1>1, <1>3, BatchFacts DEF AcknowledgedThisTrip, setting
<1> QED
  BY <1>4, <1>5, <1>6, <1>7, <1>8 DEF IInv

\* The judgement either trips the breaker or finds nothing over a limit.
LEMMA JudgeKeeps == IInv /\ Judge => IInv'
<1> SUFFICES ASSUME IInv, Judge PROVE IInv'
  OBVIOUS
<1>1. TypeOK /\ Pausing /\ Tripping /\ Judging /\ AcknowledgedThisTrip
  BY DEF IInv
<1>2. /\ pc = "judge" /\ pc' = "tail" /\ hung' = FALSE /\ ~breaker
      /\ UNCHANGED <<running, paused, setting, holdings, sincePause>>
  BY <1>1 DEF Judge, Goes, Tripping
<1>3. CASE Over
  <2>1. Trip
    BY <1>2, <1>3 DEF Judge
  <2>d. loss' \in 0..LossCap /\ staleDay' \in BOOLEAN
    BY <1>1, <2>1, DayFacts DEF Trip
  <2>2. TypeOK'
    BY <1>1, <1>2, <2>1, <2>d, Zero, ZenonT(60) DEF Trip, TypeOK, Stage, setting, holdings
  <2>3. AcknowledgedThisTrip'
    BY <1>2, <2>1 DEF Trip, AcknowledgedThisTrip, setting
  <2> QED
    BY <1>1, <1>2, <2>1, <2>2, <2>3 DEF Trip, IInv, Pausing, Tripping, Judging
<1>4. CASE ~Over
  <2>1. overLimit' = 0 /\ UNCHANGED <<breaker, cooling, ack, day, sinceTrip, ackCurrent>>
    BY <1>2, <1>4 DEF Judge
  <2>2. TypeOK'
    BY <1>1, <1>2, <2>1, Zero, ZenonT(60) DEF TypeOK, Stage, setting, holdings, day
  <2> QED
    BY <1>1, <1>2, <2>1, <2>2
       DEF IInv, Pausing, Tripping, Judging, AcknowledgedThisTrip, setting
<1> QED
  BY <1>3, <1>4

\* The handler of a halt refreshes the holdings and then tries to recover:
\* when it clears the breaker, what was over a limit has been answered.
LEMMA HaltKeeps == IInv /\ (HaltRefresh \/ HaltRecover) => IInv'
<1> SUFFICES ASSUME IInv, HaltRefresh \/ HaltRecover PROVE IInv'
  OBVIOUS
<1>1. TypeOK /\ Pausing /\ Tripping /\ Judging /\ AcknowledgedThisTrip
  BY DEF IInv
<1>2. CASE HaltRefresh
  <2>1. /\ pc' = "halt" /\ hung' = FALSE /\ breaker /\ Refresh
        /\ overLimit' = IF breaker' THEN overLimit ELSE 0
        /\ UNCHANGED <<running, paused, cooling, ack, setting, day, sincePause, sinceTrip, ackCurrent>>
    BY <1>2 DEF HaltRefresh, Goes
  <2>2. TypeOK'
    <3>1. overLimit' \in 0..3
      BY <1>1, <2>1, Zero DEF TypeOK
    <3>2. /\ snapshot' \in {"never", "fresh", "old"} /\ synced' \in BOOLEAN
          /\ value' \in Value /\ peak' \in Value /\ breaker' \in BOOLEAN
      BY <1>1, <2>1, RefreshFacts
    <3> QED
      BY <1>1, <2>1, <3>1, <3>2, ZenonT(60) DEF TypeOK, Stage, setting, day
  <2>3. Pausing' /\ Tripping' /\ Judging' /\ AcknowledgedThisTrip'
    BY <1>1, <2>1, RefreshFacts DEF Pausing, Tripping, Judging, AcknowledgedThisTrip, setting
  <2> QED
    BY <2>2, <2>3 DEF IInv
<1>3. CASE HaltRecover
  <2>1. /\ pc = "halt" /\ pc' = "top" /\ hung' = FALSE /\ SyncToRedis
        /\ UNCHANGED <<running, paused, ack, setting, holdings, sincePause, sinceTrip, ackCurrent>>
        /\ \/ breaker' = FALSE /\ cooling' = FALSE /\ overLimit' = 0
           \/ UNCHANGED <<breaker, cooling, overLimit>>
    BY <1>3 DEF HaltRecover, Goes
  <2>2. TypeOK'
    <3>1. loss' \in 0..LossCap /\ staleDay' \in BOOLEAN
      BY <1>1, <2>1, DayFacts
    <3> QED
      BY <1>1, <2>1, <3>1, Zero, ZenonT(60) DEF TypeOK, Stage, setting, holdings
  <2>3. Pausing' /\ Tripping' /\ Judging' /\ AcknowledgedThisTrip'
    BY <1>1, <2>1 DEF Pausing, Tripping, Judging, AcknowledgedThisTrip, setting
  <2> QED
    BY <2>2, <2>3 DEF IInv
<1> QED
  BY <1>2, <1>3

\* The snapshot behind the exits moves value and peak only.
LEMMA SnapshotKeeps == IInv /\ TakeSnapshot => IInv'
<1> SUFFICES ASSUME IInv, TakeSnapshot PROVE IInv'
  OBVIOUS
<1>1. TypeOK /\ Pausing /\ Tripping /\ Judging /\ AcknowledgedThisTrip
  BY DEF IInv
<1>2. /\ pc = "exits" /\ pc' = "judge" /\ hung' = FALSE /\ ~breaker
      /\ UNCHANGED <<running, paused, cooling, ack, setting, day, history>>
  BY <1>1 DEF TakeSnapshot, Goes, Tripping
<1>3. /\ breaker' = FALSE /\ snapshot' \in {"never", "fresh", "old"} /\ synced' \in BOOLEAN
      /\ value' \in Value /\ peak' \in Value
  BY <1>1, <1>2 DEF TakeSnapshot, TypeOK, Higher
<1> QED
  BY <1>1, <1>2, <1>3
     DEF IInv, TypeOK, Stage, Pausing, Tripping, Judging, AcknowledgedThisTrip, setting, day, history

\* The other steps of the loop change where it is, and at most the counters of
\* the day.
LEMMA MovesKeep ==
    ASSUME IInv,
           \/ ShutDown \/ TopPaused \/ BeginCycle \/ SkipCycle \/ NoBatch
           \/ EndCycle \/ Raise \/ Nap \/ NapOver \/ WaitOver
    PROVE  IInv'
<1>1. TypeOK /\ Pausing /\ Tripping /\ Judging /\ AcknowledgedThisTrip
  BY DEF IInv
<1>2. /\ pc' \in Stage /\ hung' = FALSE /\ loss' \in 0..LossCap /\ staleDay' \in BOOLEAN
      /\ UNCHANGED <<flags, ack, setting, holdings, sincePause, sinceTrip, ackCurrent>>
  <2>1. SyncToRedis \/ UNCHANGED day
    BY DEF ShutDown, TopPaused, BeginCycle, SkipCycle, NoBatch, EndCycle, Raise, Nap, NapOver, WaitOver
  <2>2. loss' \in 0..LossCap /\ staleDay' \in BOOLEAN
    BY <1>1, <2>1, DayFacts DEF TypeOK, day
  <2> QED
    BY <2>2 DEF ShutDown, TopPaused, BeginCycle, SkipCycle, NoBatch, EndCycle, Raise, Nap,
                NapOver, WaitOver, Goes, Stage, history
<1>3. \/ overLimit' = overLimit
      \/ overLimit' = 0 /\ pc' = "wait"
  BY DEF ShutDown, TopPaused, BeginCycle, SkipCycle, NoBatch, EndCycle, Raise, Nap, NapOver,
         WaitOver, Goes, history
<1>4. /\ pc' \in {"top", "cycle", "exits", "wait", "nap", "down"}
      /\ pc' = "cycle" => pc = "top" /\ ~paused /\ ~breaker
      /\ pc' = "nap" => pc = "wait" /\ ~paused /\ ~breaker
  BY DEF ShutDown, TopPaused, BeginCycle, SkipCycle, NoBatch, EndCycle, Raise, Nap, NapOver,
         WaitOver, Goes
<1>5. /\ pc' = "top" => pc \in {"top", "cycle", "wait"}
      /\ pc' = "exits" => pc = "cycle"
      /\ pc' = "wait" => pc \in {"tail", "nap"} \/ overLimit' = 0
  BY DEF ShutDown, TopPaused, BeginCycle, SkipCycle, NoBatch, EndCycle, Raise, Nap, NapOver,
         WaitOver, Goes
<1>6. TypeOK'
  BY <1>1, <1>2, <1>3, Zero, ZenonT(60) DEF TypeOK, flags, setting, holdings
<1>7. Pausing' /\ Tripping' /\ Judging' /\ AcknowledgedThisTrip'
  BY <1>1, <1>2, <1>3, <1>4, <1>5 DEF Pausing, Tripping, Judging, AcknowledgedThisTrip, flags, setting
<1> QED
  BY <1>6, <1>7 DEF IInv

\* Every step of the loop keeps the invariant.
LEMMA LoopKeeps == IInv /\ Loop => IInv'
<1>1. IInv /\ RunBatch => IInv'
  BY BatchKeeps DEF RunBatch
<1>2. IInv /\ EarlyBatch => IInv'
  BY BatchKeeps DEF EarlyBatch
<1> QED
  BY <1>1, <1>2, JudgeKeeps, HaltKeeps, SnapshotKeeps, MovesKeep DEF Loop

\* The owner's commands: resuming clears the breaker and all that is counted.
LEMMA OwnerKeeps ==
    ASSUME IInv,
           \/ TelegramPause \/ TelegramResume \/ TelegramStop
           \/ DashboardResume \/ DashboardAcknowledge
    PROVE  IInv'
<1>1. TypeOK /\ Pausing /\ Tripping /\ Judging /\ AcknowledgedThisTrip
  BY DEF IInv
<1>2. loss' \in 0..LossCap /\ staleDay' \in BOOLEAN
  BY <1>1, DayFacts
     DEF TelegramPause, TelegramResume, TelegramStop, DashboardResume, DashboardAcknowledge,
         TypeOK, day
<1>3. TypeOK'
  BY <1>1, <1>2, Zero, ZenonT(60)
     DEF TelegramPause, TelegramResume, TelegramStop, DashboardResume, DashboardAcknowledge,
         Resumed, TypeOK, process, flags, setting, holdings, history
<1>4. CASE TelegramPause \/ TelegramStop
  BY <1>1, <1>3, <1>4
     DEF TelegramPause, TelegramStop, IInv, Pausing, Tripping, Judging,
         AcknowledgedThisTrip, process, setting, history
<1>5. CASE TelegramResume \/ DashboardResume
  BY <1>1, <1>3, <1>5
     DEF TelegramResume, DashboardResume, Resumed, IInv, Pausing, Tripping, Judging,
         AcknowledgedThisTrip, process, setting
<1>6. CASE DashboardAcknowledge
  BY <1>1, <1>3, <1>6
     DEF DashboardAcknowledge, IInv, Pausing, Tripping, Judging,
         AcknowledgedThisTrip, process, flags, setting
<1> QED
  BY <1>4, <1>5, <1>6

\* Time, the market and faults: only a restart touches what is counted.
LEMMA WorldKeeps ==
    ASSUME IInv,
           \/ CoolingEnds \/ SnapshotAges \/ LocalValueMoves \/ RecordLoss \/ Midnight
           \/ Hang \/ Returns \/ Watchdog \/ Crash \/ Restart \/ UNCHANGED vars
    PROVE  IInv'
<1>1. TypeOK /\ Pausing /\ Tripping /\ Judging /\ AcknowledgedThisTrip
  BY DEF IInv
<1>2. CASE CoolingEnds \/ SnapshotAges \/ LocalValueMoves \/ Midnight \/ Hang \/ Returns \/ UNCHANGED vars
  <2>1. TypeOK'
    <3>1. CASE CoolingEnds
      BY <1>1, <3>1, ZenonT(60)
         DEF CoolingEnds, TypeOK, process, setting, holdings, day, history
    <3>4. CASE Hang \/ Returns
      BY <1>1, <3>4, ZenonT(60)
         DEF Hang, Returns, TypeOK, flags, setting, holdings, day, history
    <3>3. CASE UNCHANGED vars
      BY <1>1, <3>3, ZenonT(60)
         DEF vars, TypeOK, process, flags, setting, holdings, day, history
    <3>2. CASE SnapshotAges \/ LocalValueMoves \/ Midnight
      BY <1>1, <3>2, ZenonT(60)
         DEF SnapshotAges, LocalValueMoves, Midnight, TypeOK, process, flags, setting,
             holdings, day, history
    <3> QED
      BY <1>2, <3>1, <3>2, <3>3, <3>4
  <2>2. UNCHANGED <<pc, paused, breaker, ack, redis, history>>
    BY <1>2
       DEF CoolingEnds, SnapshotAges, LocalValueMoves, Midnight, Hang, Returns, vars,
           process, flags, setting
  <2> QED
    BY <1>1, <2>1, <2>2
       DEF IInv, Pausing, Tripping, Judging, AcknowledgedThisTrip, history
<1>3. CASE RecordLoss
  <2>1. loss' \in 0..LossCap /\ staleDay' \in BOOLEAN
    <3>1. Today \in 0..LossCap /\ Today < LossCap /\ loss' = Today + 1 /\ staleDay' = FALSE
      BY <1>1, <1>3, DayFacts DEF RecordLoss
    <3>2. loss' \in 0..LossCap
      BY <3>1, LoopAssumption DEF LoopAssumption
    <3> QED
      BY <3>1, <3>2
  <2>2. TypeOK'
    BY <1>1, <1>3, <2>1, ZenonT(60)
       DEF RecordLoss, TypeOK, process, flags, setting, holdings, history
  <2> QED
    BY <1>1, <1>3, <2>2
       DEF RecordLoss, IInv, Pausing, Tripping, Judging, AcknowledgedThisTrip,
           process, flags, setting, history
<1>4. CASE Watchdog \/ Crash
  <2>1. TypeOK'
    BY <1>1, <1>4, ZenonT(60)
       DEF Watchdog, Crash, TypeOK, Stage, flags, setting, holdings, day, history
  <2> QED
    BY <1>1, <1>4, <2>1
       DEF Watchdog, Crash, IInv, Pausing, Tripping, Judging, AcknowledgedThisTrip,
           flags, setting, history
<1>5. CASE Restart
  <2>1. loss' \in 0..LossCap
    <3>1. Today \in 0..LossCap /\ loss' \in 0..Today
      BY <1>1, <1>5, DayFacts DEF Restart
    <3> QED
      BY <3>1, LoopAssumption DEF LoopAssumption
  <2>2. /\ snapshot' \in {"never", "fresh", "old"} /\ synced' \in BOOLEAN
        /\ value' \in Value /\ peak' \in Value
    BY <1>5 DEF Restart, StartValues
  <2>3. TypeOK'
    BY <1>1, <1>5, <2>1, <2>2, Zero, ZenonT(60) DEF Restart, TypeOK, Stage, setting
  <2> QED
    BY <1>5, <2>3
       DEF Restart, IInv, Pausing, Tripping, Judging, AcknowledgedThisTrip
<1> QED
  BY <1>2, <1>3, <1>4, <1>5

\* At the start nothing is paused, tripped or counted.
LEMMA InitInv == Init => IInv
<1>1. Init => TypeOK
  <2>1. 0 \in 0..LossCap
    BY LoopAssumption DEF LoopAssumption
  <2> QED
    BY <2>1, Zero, ZenonT(60) DEF Init, TypeOK, Stage
<1> QED
  BY <1>1 DEF Init, IInv, Pausing, Tripping, Judging, AcknowledgedThisTrip

\* The invariant holds in every reachable state.
LEMMA Invariant == Spec => []IInv
<1>1. IInv /\ [Next]_vars => IInv'
  BY LoopKeeps, OwnerKeeps, WorldKeeps DEF Next
<1> QED
  BY <1>1, InitInv, PTL DEF Spec

-----------------------------------------------------------------------------
\* Every reachable state of the loop is well typed: the daily loss stays
\* within what is recorded, whatever midnight, restarts and resets do to it.
THEOREM TypeCorrect == Spec => []TypeOK
<1>1. IInv => TypeOK
  BY DEF IInv
<1> QED
  BY <1>1, Invariant, PTL

\* A pause of core/orchestrator.py lets at most one batch begin.
THEOREM PauseHolds == Spec => []PauseLetsOneBatchBegin
<1>1. IInv => PauseLetsOneBatchBegin
  BY DEF IInv, Pausing, PauseLetsOneBatchBegin
<1> QED
  BY <1>1, Invariant, PTL

\* A tripped breaker lets no batch begin, although the loop reads the flag at
\* its head and in the wait only.
THEOREM TripHolds == Spec => []TripStopsBatches
<1>1. IInv => TripStopsBatches
  BY DEF IInv, Tripping, TripStopsBatches
<1> QED
  BY <1>1, Invariant, PTL

\* Two batches at most begin over a limit before the breaker answers.
THEOREM LimitAnswered == Spec => []TwoBatchesOverLimit
<1>1. IInv => TwoBatchesOverLimit
  BY DEF IInv, Judging, TwoBatchesOverLimit
<1> QED
  BY <1>1, Invariant, PTL

\* With Redis, an acknowledgement shown while the breaker is tripped is of
\* this trip.
THEOREM AcknowledgementCurrent == Spec => []AcknowledgedThisTrip
<1>1. IInv => AcknowledgedThisTrip
  BY DEF IInv
<1> QED
  BY <1>1, Invariant, PTL
=============================================================================
