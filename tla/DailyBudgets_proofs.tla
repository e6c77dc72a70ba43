------------------------- MODULE DailyBudgets_proofs -------------------------
(***************************************************************************)
(* The budgets of a day and how far overlapping callers pass them: what    *)
(* AbsoluteRules lets be spent, and how often LlmProviders asks a provider.*)
(* Both check a counter at the start of a trade or a call, wait, and count *)
(* at the end.                                                             *)
(*                                                                         *)
(* The invariant of AbsoluteRules is inductive once it knows that a pending*)
(* buy carries no more than MaxGrown; the work is in the two               *)
(* cardinalities, which each stage change moves by one.  That of           *)
(* LlmProviders says that the requests counted so far and the calls that   *)
(* are still to be counted stay within the limit and one for every other   *)
(* caller.                                                                 *)
(***************************************************************************)
EXTENDS AbsoluteRules, LlmProviders, FiniteSetTheorems, WellFoundedInduction, TLAPS

-----------------------------------------------------------------------------
(* Spending per day                                                        *)

\* What RecordPending may add: the amount of a pending buy was sized.
PendingSized == \A c \in Late : quoted[c] <= MaxGrown

IInv == TypeOK /\ PendingSized /\ SpendOvershootBounded

\* Multiplying an inequality, which the solvers do not find in context.
LEMMA Scale ==
    ASSUME NEW g \in Nat, NEW x \in Int, NEW y \in Int, x <= y
    PROVE  g * x <= g * y
OBVIOUS

\* The same with the factor on the other side of a sum.
LEMMA ScaleDown ==
    ASSUME NEW g \in Nat, NEW x \in Int, NEW y \in Int, NEW k \in Nat, x <= y - k
    PROVE  g * x <= g * y - k * g
<1>1. g * x <= g * (y - k)
  BY Scale
<1>2. g * (y - k) = g * y - k * g
  OBVIOUS
<1> QED
  BY <1>1, <1>2

\* The two cardinalities are numbers, and together at most all callers.
LEMMA Cards ==
    /\ IsFiniteSet(Early) /\ IsFiniteSet(Late) /\ IsFiniteSet(Caller)
    /\ Cardinality(Early) \in Nat
    /\ Cardinality(Late) \in Nat
    /\ Cardinality(Caller) \in Nat
    /\ Cardinality(Early) + Cardinality(Late) <= Cardinality(Caller)
<1>1. IsFiniteSet(Caller)
  BY RulesAssumption DEF RulesAssumption
<1>2. Early \subseteq Caller /\ Late \subseteq Caller /\ Early \cap Late = {}
  BY DEF Early, Late
<1>3. IsFiniteSet(Early) /\ IsFiniteSet(Late) /\ IsFiniteSet(Early \cup Late)
  BY <1>1, <1>2, FS_Subset, FS_Union
<1>4. /\ Cardinality(Early) \in Nat /\ Cardinality(Late) \in Nat
      /\ Cardinality(Caller) \in Nat
  BY <1>1, <1>3, FS_CardinalityType
<1>5. Cardinality(Early \cup Late) <= Cardinality(Caller)
  BY <1>1, <1>2, FS_Subset
<1>6. Cardinality(Early \cup Late) = Cardinality(Early) + Cardinality(Late) - Cardinality(Early \cap Late)
  BY <1>3, FS_Union
<1>7. Cardinality(Early \cap Late) = 0
  BY <1>2, FS_EmptySet
<1> QED
  BY <1>1, <1>3, <1>4, <1>5, <1>6, <1>7

\* A caller that moves leaves its old class of stages and joins the new one.
One(S, x) == IF x \in S THEN 1 ELSE 0

\* A caller that joins a class makes it larger by one.
LEMMA Join ==
    ASSUME NEW A, NEW c, IsFiniteSet(A)
    PROVE  Cardinality(A \cup {c}) = Cardinality(A) + 1 - One(A, c)
<1>1. Cardinality(A) \in Nat
  BY FS_CardinalityType
<1>2. Cardinality(A \cup {c}) = IF c \in A THEN Cardinality(A) ELSE Cardinality(A) + 1
  BY FS_AddElement
<1> QED
  BY <1>1, <1>2 DEF One

\* A caller that leaves a class makes it smaller by one.
LEMMA Leave ==
    ASSUME NEW A, NEW c, IsFiniteSet(A)
    PROVE  Cardinality(A \ {c}) = Cardinality(A) + 0 - One(A, c)
<1>1. Cardinality(A) \in Nat
  BY FS_CardinalityType
<1>2. Cardinality(A \ {c}) = IF c \in A THEN Cardinality(A) - 1 ELSE Cardinality(A)
  BY FS_RemoveElement
<1> QED
  BY <1>1, <1>2 DEF One

EarlyStage == {"approved", "queued", "released"}
LateStage == {"resting", "unconfirmed"}

\* How Early and Late change in size when one caller moves.
LEMMA MoveCards ==
    ASSUME stage \in [Caller -> Stage], NEW c \in Caller, NEW to \in Stage,
           stage' = [stage EXCEPT ![c] = to]
    PROVE  /\ stage' \in [Caller -> Stage]
           /\ Cardinality(Early') = Cardinality(Early) + One(EarlyStage, to) - One(EarlyStage, stage[c])
           /\ Cardinality(Late') = Cardinality(Late) + One(LateStage, to) - One(LateStage, stage[c])
<1>1. IsFiniteSet(Early) /\ IsFiniteSet(Late)
  BY Cards
<1>2. Early' = IF to \in EarlyStage THEN Early \cup {c} ELSE Early \ {c}
  BY DEF Early, EarlyStage
<1>3. Late' = IF to \in LateStage THEN Late \cup {c} ELSE Late \ {c}
  BY DEF Late, LateStage
<1>4. One(Early, c) = One(EarlyStage, stage[c])
  BY DEF Early, EarlyStage, One
<1>5. One(Late, c) = One(LateStage, stage[c])
  BY DEF Late, LateStage, One
<1>6. Cardinality(Early') = Cardinality(Early) + One(EarlyStage, to) - One(EarlyStage, stage[c])
  <2>1. CASE to \in EarlyStage
    BY <1>1, <1>2, <1>4, <2>1, Join DEF One
  <2>2. CASE to \notin EarlyStage
    BY <1>1, <1>2, <1>4, <2>2, Leave DEF One
  <2> QED
    BY <2>1, <2>2
<1>7. Cardinality(Late') = Cardinality(Late) + One(LateStage, to) - One(LateStage, stage[c])
  <2>1. CASE to \in LateStage
    BY <1>1, <1>3, <1>5, <2>1, Join DEF One
  <2>2. CASE to \notin LateStage
    BY <1>1, <1>3, <1>5, <2>2, Leave DEF One
  <2> QED
    BY <2>1, <2>2
<1> QED
  BY <1>6, <1>7

\* The records the buys under way may still cause, and what they weigh
Weight == 2 * Cardinality(Early) + Cardinality(Late)

WeightFacts ==
    /\ Weight \in Nat
    /\ Weight <= 2 * Cardinality(Caller)
    /\ Outstanding = MaxGrown * Weight

\* The weight facts hold in every state, so before and after a step.
LEMMA Weighed == WeightFacts /\ WeightFacts'
<1>1. WeightFacts
  BY Cards DEF WeightFacts, Weight, Outstanding
<1>2. QED
  BY <1>1, PTL

\* A move changes the weight by the difference of its two stages.
Weigh(s) == 2 * One(EarlyStage, s) + One(LateStage, s)

LEMMA MoveWeighed ==
    ASSUME stage \in [Caller -> Stage], NEW c \in Caller, NEW to \in Stage,
           stage' = [stage EXCEPT ![c] = to]
    PROVE  /\ stage' \in [Caller -> Stage]
           /\ Weight' = Weight + Weigh(to) - Weigh(stage[c])
<1>1. /\ stage' \in [Caller -> Stage]
      /\ Cardinality(Early') = Cardinality(Early) + One(EarlyStage, to) - One(EarlyStage, stage[c])
      /\ Cardinality(Late') = Cardinality(Late) + One(LateStage, to) - One(LateStage, stage[c])
  BY MoveCards
<1>2. Cardinality(Early) \in Nat /\ Cardinality(Late) \in Nat
  BY Cards
<1> QED
  BY <1>1, <1>2 DEF Weight, Weigh, One

\* The bound, once the weight is known before and after a step: the spend
\* grows by no more than the weight gives back ...
LEMMA Spent ==
    ASSUME IInv, dailySpend' \in Nat, UNCHANGED maxDaily,
           NEW k \in Nat, Weight' <= Weight - k,
           \/ dailySpend' <= dailySpend + k * MaxGrown /\ base' = base
           \/ dailySpend' <= Today(dailySpend) + k * MaxGrown /\ base' = Today(base)
    PROVE  SpendOvershootBounded'
<1> DEFINE Room == MaxGrown * 2 * Cardinality(Caller)
<1>1. /\ Weight \in Nat /\ Outstanding = MaxGrown * Weight
      /\ Weight <= 2 * Cardinality(Caller)
      /\ Weight' \in Nat /\ Outstanding' = MaxGrown * Weight'
  BY Weighed DEF WeightFacts
<1>2. /\ MaxGrown \in Nat /\ maxDaily \in Nat /\ maxDaily' = maxDaily
      /\ Cardinality(Caller) \in Nat /\ base \in Nat /\ dailySpend \in Nat
  BY Cards, RulesAssumption DEF RulesAssumption, IInv, TypeOK
<1>3. MaxGrown * Weight' <= MaxGrown * Weight - k * MaxGrown
  <2>1. Weight \in Int /\ Weight' \in Int /\ MaxGrown \in Nat
    BY <1>1, <1>2
  <2> QED
    BY <2>1, ScaleDown, Zenon
<1>4. MaxGrown * Weight <= Room /\ Room \in Nat
  <2>1. MaxGrown * Weight <= MaxGrown * (2 * Cardinality(Caller))
    BY <1>1, <1>2, Scale
  <2>2. MaxGrown * (2 * Cardinality(Caller)) = Room /\ Room \in Nat
    BY <1>2
  <2> QED
    BY <2>1, <2>2
<1>5. MaxGrown * Weight \in Nat /\ MaxGrown * Weight' \in Nat /\ k * MaxGrown \in Nat
  <2>1. ASSUME NEW x \in Nat, NEW y \in Nat PROVE x * y \in Nat
    OBVIOUS
  <2> QED
    BY <1>1, <1>2, <2>1, Zenon
<1>6. dailySpend + MaxGrown * Weight <= (IF base > maxDaily THEN base ELSE maxDaily) + Room
  BY <1>1 DEF IInv, SpendOvershootBounded, Allowance
<1>7. dailySpend' + MaxGrown * Weight' <= (IF base' > maxDaily THEN base' ELSE maxDaily) + Room
  <2> HIDE DEF Room
  <2>1. CASE dailySpend' <= dailySpend + k * MaxGrown /\ base' = base
    BY <1>2, <1>3, <1>4, <1>5, <1>6, <2>1
  <2>2. CASE dailySpend' <= Today(dailySpend) + k * MaxGrown /\ base' = Today(base)
    <3>1. CASE stale
      BY <1>2, <1>3, <1>4, <1>5, <2>2, <3>1 DEF Today
    <3>2. CASE ~stale
      BY <1>2, <1>3, <1>4, <1>5, <1>6, <2>2, <3>2 DEF Today
    <3> QED
      BY <3>1, <3>2
  <2> QED
    BY <2>1, <2>2
<1> QED
  BY <1>1, <1>2, <1>7 DEF SpendOvershootBounded, Allowance

\* ... or, when a buy is admitted or a limit is set, the spend itself is allowed.
LEMMA Admitted ==
    ASSUME dailySpend' \in Nat, base' \in Nat, maxDaily' \in Nat,
           dailySpend' <= maxDaily' \/ dailySpend' <= base'
    PROVE  SpendOvershootBounded'
<1>1. /\ Weight' \in Nat /\ Outstanding' = MaxGrown * Weight'
      /\ Weight' <= 2 * Cardinality(Caller)
  BY Weighed DEF WeightFacts
<1>2. MaxGrown \in Nat /\ Cardinality(Caller) \in Nat
  BY Cards, RulesAssumption DEF RulesAssumption
<1>3. MaxGrown * Weight' <= MaxGrown * (2 * Cardinality(Caller))
  BY <1>1, <1>2, Scale
<1>4. MaxGrown * (2 * Cardinality(Caller)) = MaxGrown * 2 * Cardinality(Caller)
  BY <1>2
<1> QED
  BY <1>1, <1>2, <1>3, <1>4 DEF SpendOvershootBounded, Allowance

-----------------------------------------------------------------------------
\* The invariant holds when the rules engine has been seeded.
LEMMA InitInv == Init => IInv
<1> SUFFICES ASSUME Init PROVE IInv
  OBVIOUS
<1>0. dailySpend \in Nat /\ base = dailySpend /\ maxDaily \in Nat
  BY RulesAssumption DEF RulesAssumption, Init
<1>1. TypeOK
  <2>1. dailyLoss \in Nat /\ dailyCount \in Nat
    BY RulesAssumption DEF RulesAssumption, Init
  <2> QED
    BY <1>0, <2>1 DEF Init, TypeOK, Stage
<1>2. Early = {} /\ Late = {}
  BY DEF Init, Early, Late
<1>3. PendingSized
  BY <1>2 DEF PendingSized
<1>4. SpendOvershootBounded
  <2>1. Cardinality(Early) = 0 /\ Cardinality(Late) = 0
    BY <1>2, FS_EmptySet
  <2>2. Outstanding = 0
    BY <2>1, RulesAssumption DEF RulesAssumption, Outstanding
  <2>3. MaxGrown * 2 * Cardinality(Caller) \in Nat
    BY Cards, RulesAssumption DEF RulesAssumption
  <2> QED
    BY <1>0, <2>2, <2>3 DEF SpendOvershootBounded, Allowance
<1> QED
  BY <1>1, <1>3, <1>4 DEF IInv

\* A new day only lowers a counter.
LEMMA TodayLess ==
    ASSUME TypeOK
    PROVE  /\ Today(dailySpend) \in Nat /\ Today(dailySpend) <= dailySpend
           /\ Today(dailyLoss) \in Nat
           /\ Today(dailyCount) \in Nat
           /\ Today(base) \in Nat
BY DEF TypeOK, Today

\* The steps that move no caller and add to no spend.
LEMMA Elsewhere ==
    ASSUME IInv, TypeOK', UNCHANGED <<stage, quoted, maxDaily>>,
           \/ UNCHANGED <<dailySpend, base>>
           \/ dailySpend' = Today(dailySpend) /\ base' = Today(base)
    PROVE  IInv'
<1>1. PendingSized'
  BY DEF IInv, PendingSized, Late
<1>2. Weight' = Weight
  BY DEF Weight, Early, Late
<1>3. SpendOvershootBounded'
  <2>1. dailySpend' \in Nat /\ Weight' <= Weight - 0
    BY <1>2, Weighed DEF WeightFacts, TypeOK
  <2>2. \/ dailySpend' <= dailySpend + 0 * MaxGrown /\ base' = base
        \/ dailySpend' <= Today(dailySpend) + 0 * MaxGrown /\ base' = Today(base)
    BY TodayLess, RulesAssumption DEF RulesAssumption, IInv, TypeOK
  <2> QED
    BY <2>1, <2>2, Spent
<1> QED
  BY <1>1, <1>3 DEF IInv

\* An admitted buy keeps the invariant: it saw the whole daily spend.
LEMMA CheckKeeps ==
    ASSUME IInv, NEW c \in Caller, NEW amount \in Amount, CheckBuy(c, amount)
    PROVE  IInv'
<1>1. TypeOK'
  <2>1. dailySpend' \in Nat /\ dailyLoss' \in Nat /\ dailyCount' \in Nat /\ base' \in Nat
    BY TodayLess DEF IInv, TypeOK, CheckBuy, ResetCounters, counters
  <2>2. stale' \in BOOLEAN /\ coolingDown' \in BOOLEAN /\ seedingFailed' \in BOOLEAN
    BY DEF IInv, TypeOK, CheckBuy, ResetCounters, counters
  <2>3. peak' \in Portfolio \cup {0} /\ portfolio' \in Portfolio
    BY DEF IInv, TypeOK, CheckBuy, RaisedPeak
  <2>4. stage' \in [Caller -> Stage] /\ quoted' \in [Caller -> Nat]
    BY RulesAssumption DEF RulesAssumption, IInv, TypeOK, CheckBuy, Moves, Stage
  <2>5. maxSingle' \in Single /\ maxDaily' \in Daily
    BY DEF IInv, TypeOK, CheckBuy, limits
  <2> QED
    BY <2>1, <2>2, <2>3, <2>4, <2>5 DEF TypeOK
<1>2. Late' = Late
  BY DEF IInv, TypeOK, CheckBuy, Moves, Late
<1>3. PendingSized'
  BY <1>2 DEF IInv, TypeOK, PendingSized, CheckBuy, Moves, Late
<1>4. /\ dailySpend' \in Nat /\ base' \in Nat
      /\ maxDaily' \in Nat /\ dailySpend' <= maxDaily'
  BY RulesAssumption, TodayLess
     DEF RulesAssumption, IInv, TypeOK, CheckBuy, Allowed, WithinDailySpend,
         ResetCounters, limits
<1> QED
  BY <1>1, <1>3, <1>4, Admitted DEF IInv

\* A caller moves on and k records are made: the weight must pay for them.
LEMMA MoveKeeps ==
    ASSUME IInv, TypeOK', NEW c \in Caller, NEW from \in Stage, NEW to \in Stage,
           NEW amount \in Nat, NEW k \in Nat, Moves(c, from, to, amount),
           to \in LateStage => amount <= MaxGrown,
           Weigh(to) <= Weigh(from) - k, UNCHANGED maxDaily,
           \/ dailySpend' <= dailySpend + k * MaxGrown /\ base' = base
           \/ dailySpend' <= Today(dailySpend) + k * MaxGrown /\ base' = Today(base)
    PROVE  IInv'
<1>1. PendingSized'
  <2> SUFFICES ASSUME NEW d \in Caller, d \in Late'
               PROVE  quoted'[d] <= MaxGrown
    BY DEF PendingSized, Late
  <2>1. CASE d = c
    BY <2>1 DEF IInv, TypeOK, Moves, Late, LateStage
  <2>2. CASE d # c
    BY <2>2 DEF IInv, TypeOK, PendingSized, Moves, Late
  <2> QED
    BY <2>1, <2>2
<1>2. Weight' = Weight + Weigh(to) - Weigh(from)
  BY MoveWeighed DEF IInv, TypeOK, Moves
<1>3. Weight' <= Weight - k
  BY <1>2, Weighed DEF WeightFacts, Weigh, One
<1>4. SpendOvershootBounded'
  BY <1>3, Spent DEF TypeOK
<1> QED
  BY <1>1, <1>4 DEF IInv

\* A record keeps the counters natural and adds at most its amount.
LEMMA RecordAdds ==
    ASSUME TypeOK, NEW amount \in Nat, RecordTrade(amount, "buy")
    PROVE  /\ dailySpend' \in Nat /\ dailySpend' <= Today(dailySpend) + amount
           /\ Today(dailySpend) \in Nat /\ base' = Today(base) /\ base' \in Nat
           /\ dailyLoss' \in Nat /\ dailyCount' \in Nat
           /\ stale' \in BOOLEAN /\ coolingDown' \in BOOLEAN
<1>1. /\ Today(dailySpend) \in Nat /\ Today(base) \in Nat
      /\ Today(dailyLoss) \in Nat /\ Today(dailyCount) \in Nat
  BY TodayLess
<1>2. /\ dailySpend' \in Nat /\ dailySpend' <= Today(dailySpend) + amount
      /\ base' = Today(base) /\ base' \in Nat
      /\ dailyLoss' \in Nat /\ dailyCount' \in Nat
  <2>1. /\ dailySpend' = Today(dailySpend) + amount
        /\ dailyLoss' = Today(dailyLoss) /\ dailyCount' = Today(dailyCount) + 1
        /\ base' = Today(base)
    BY DEF RecordTrade
  <2> QED
    BY <1>1, <2>1
<1>3. stale' \in BOOLEAN /\ coolingDown' \in BOOLEAN
  BY DEF RecordTrade
<1> QED
  BY <1>1, <1>2, <1>3

\* Every step of the engine, its callers and the clock keeps the invariant.
LEMMA StepInv == IInv /\ [Next]_vars => IInv'
<1> SUFFICES ASSUME IInv, [Next]_vars PROVE IInv'
  OBVIOUS
<1>n. MaxGrown \in Nat
  BY RulesAssumption DEF RulesAssumption
<1>w. /\ Weigh("idle") = 0
      /\ Weigh("resting") = 1 /\ Weigh("unconfirmed") = 1
      /\ Weigh("approved") = 2 /\ Weigh("queued") = 2 /\ Weigh("released") = 2
  BY DEF Weigh, One, EarlyStage, LateStage
<1>1. ASSUME NEW c \in Caller, NEW amount \in Amount, CheckBuy(c, amount)
      PROVE  IInv'
  BY <1>1, CheckKeeps
<1>2. ASSUME NEW c \in Caller, Approve(c)
      PROVE  IInv'
  <2>1. TypeOK'
    BY <1>2 DEF IInv, TypeOK, Approve, Moves, engine, counters, limits, Stage
  <2>2. dailySpend' <= dailySpend + 0 * MaxGrown /\ base' = base /\ maxDaily' = maxDaily
    BY <1>2, <1>n DEF IInv, TypeOK, Approve, engine, counters, limits
  <2>3. quoted[c] \in Nat /\ Moves(c, "queued", "released", quoted[c])
    BY <1>2 DEF IInv, TypeOK, Approve
  <2> QED
    BY <1>w, <2>1, <2>2, <2>3, MoveKeeps DEF Stage, LateStage
<1>3. ASSUME NEW c \in Caller, Drop(c)
      PROVE  IInv'
  <2>1. TypeOK'
    BY <1>3 DEF IInv, TypeOK, Drop, Moves, engine, counters, limits, Stage
  <2>2. dailySpend' <= dailySpend + 0 * MaxGrown /\ base' = base /\ maxDaily' = maxDaily
    BY <1>3, <1>n DEF IInv, TypeOK, Drop, engine, counters, limits
  <2>3. stage[c] \in Stage /\ Moves(c, stage[c], "idle", 0)
    BY <1>3 DEF IInv, TypeOK, Drop
  <2>4. Weigh("idle") <= Weigh(stage[c]) - 0
    BY <1>w, <2>3 DEF Weigh, One
  <2>5. 0 \in Nat /\ "idle" \in Stage /\ "idle" \notin LateStage
    BY DEF Stage, LateStage
  <2> QED
    BY <2>1, <2>2, <2>3, <2>4, <2>5, MoveKeeps, Zenon
<1>4. ASSUME NEW c \in Caller, NEW amount \in 0..MaxGrown, NEW to \in Stage,
             Executes(c, amount, to)
      PROVE  /\ amount \in Nat /\ amount <= MaxGrown
             /\ stage[c] \in {"approved", "released"}
             /\ Moves(c, stage[c], to, amount)
             /\ stage' \in [Caller -> Stage] /\ quoted' \in [Caller -> Nat]
  BY <1>n, <1>4 DEF IInv, TypeOK, Executes, Grown, Moves
<1>5. ASSUME NEW c \in Caller, NEW amount \in 0..MaxGrown, NEW to \in {"idle", "unconfirmed"},
             Executes(c, amount, to), RecordTrade(amount, "buy"),
             UNCHANGED <<limits, seedingFailed, peak, portfolio>>
      PROVE  IInv'
  <2>1. to \in Stage
    BY DEF Stage
  <2>2. /\ amount \in Nat /\ amount <= MaxGrown
        /\ stage[c] \in {"approved", "released"}
        /\ Moves(c, stage[c], to, amount)
        /\ stage' \in [Caller -> Stage] /\ quoted' \in [Caller -> Nat]
    BY <1>4, <1>5, <2>1
  <2>3. TypeOK'
    BY <1>5, <2>2, RecordAdds DEF IInv, TypeOK, limits
  <2>4. /\ dailySpend' <= Today(dailySpend) + 1 * MaxGrown /\ base' = Today(base)
        /\ maxDaily' = maxDaily
    BY <1>5, <1>n, <2>2, RecordAdds DEF IInv, TypeOK, limits
  <2>5. stage[c] \in Stage /\ Weigh(to) <= Weigh(stage[c]) - 1
    BY <1>w, <2>2 DEF Stage
  <2>6. 1 \in Nat
    OBVIOUS
  <2> QED
    BY <2>1, <2>2, <2>3, <2>4, <2>5, <2>6, MoveKeeps, Zenon
<1>6. ASSUME NEW c \in Caller, NEW amount \in 0..MaxGrown, Rest(c, amount)
      PROVE  IInv'
  <2>1. "resting" \in Stage /\ Executes(c, amount, "resting")
    BY <1>6 DEF Rest, Stage
  <2>2. /\ amount \in Nat /\ amount <= MaxGrown
        /\ stage[c] \in {"approved", "released"}
        /\ Moves(c, stage[c], "resting", amount)
        /\ stage' \in [Caller -> Stage] /\ quoted' \in [Caller -> Nat]
    BY <1>4, <2>1
  <2>3. TypeOK'
    BY <1>6, <2>2 DEF IInv, TypeOK, Rest, engine, counters, limits
  <2>4. dailySpend' <= dailySpend + 0 * MaxGrown /\ base' = base /\ maxDaily' = maxDaily
    BY <1>6, <1>n DEF IInv, TypeOK, Rest, engine, counters, limits
  <2>5. stage[c] \in Stage /\ Weigh("resting") <= Weigh(stage[c]) - 0
    BY <1>w, <2>2 DEF Stage
  <2>6. 0 \in Nat
    OBVIOUS
  <2> QED
    BY <2>1, <2>2, <2>3, <2>4, <2>5, <2>6, MoveKeeps, Zenon
<1>7. ASSUME NEW c \in Caller, RecordPending(c)
      PROVE  IInv'
  <2>1. PICK from \in {"resting", "unconfirmed"} : Moves(c, from, "idle", 0)
    BY <1>7 DEF RecordPending
  <2>2. quoted[c] \in Nat /\ quoted[c] <= MaxGrown
    BY <2>1 DEF IInv, TypeOK, PendingSized, Late, Moves
  <2>3. RecordTrade(quoted[c], "buy") /\ UNCHANGED <<limits, seedingFailed, peak, portfolio>>
    BY <1>7 DEF RecordPending
  <2>4. stage' \in [Caller -> Stage] /\ quoted' \in [Caller -> Nat]
    BY <2>1 DEF IInv, TypeOK, Moves, Stage
  <2>5. TypeOK'
    BY <2>2, <2>3, <2>4, RecordAdds DEF IInv, TypeOK, limits
  <2>6. /\ dailySpend' <= Today(dailySpend) + 1 * MaxGrown /\ base' = Today(base)
        /\ maxDaily' = maxDaily
    BY <1>n, <2>2, <2>3, RecordAdds DEF IInv, TypeOK, limits
  <2>7. from \in Stage /\ Weigh("idle") <= Weigh(from) - 1
    BY <1>w DEF Stage
  <2>8. 0 \in Nat /\ 1 \in Nat /\ "idle" \in Stage /\ "idle" \notin LateStage
    BY DEF Stage, LateStage
  <2> QED
    BY <2>1, <2>5, <2>6, <2>7, <2>8, MoveKeeps, Zenon
<1>8. ASSUME NEW amount \in Amount, RejectBuy(amount)
      PROVE  IInv'
  <2>1. /\ dailySpend' \in Nat /\ dailyLoss' \in Nat /\ dailyCount' \in Nat
        /\ stale' \in BOOLEAN /\ coolingDown' \in BOOLEAN /\ base' \in Nat
        /\ \/ UNCHANGED <<dailySpend, base>>
           \/ dailySpend' = Today(dailySpend) /\ base' = Today(base)
    <3>1. /\ Today(dailySpend) \in Nat /\ Today(base) \in Nat
          /\ Today(dailyLoss) \in Nat /\ Today(dailyCount) \in Nat
      BY TodayLess DEF IInv
    <3>2. CASE seedingFailed
      BY <1>8, <3>2 DEF IInv, TypeOK, RejectBuy, ResetCounters, counters
    <3>3. CASE ~seedingFailed
      <4>1. /\ dailySpend' = Today(dailySpend) /\ dailyLoss' = Today(dailyLoss)
            /\ dailyCount' = Today(dailyCount) /\ base' = Today(base)
            /\ stale' = FALSE /\ coolingDown' = coolingDown
        BY <1>8, <3>3 DEF RejectBuy, ResetCounters
      <4> QED
        BY <3>1, <4>1 DEF IInv, TypeOK
    <3> QED
      BY <3>2, <3>3
  <2>2. TypeOK'
    BY <1>8, <2>1 DEF IInv, TypeOK, RejectBuy, RaisedPeak, limits
  <2> QED
    BY <1>8, <2>1, <2>2, Elsewhere DEF RejectBuy, limits
<1>9. ASSUME NEW loss \in Loss, NEW twice \in BOOLEAN, RecordExit(loss, twice)
      PROVE  IInv'
  <2>1. loss \in Nat
    BY RulesAssumption DEF RulesAssumption
  <2>2. TypeOK'
    <3>1. /\ Today(dailySpend) \in Nat /\ Today(base) \in Nat
          /\ Today(dailyLoss) \in Nat /\ Today(dailyCount) \in Nat
      BY TodayLess DEF IInv
    <3>2. dailySpend' \in Nat /\ dailyLoss' \in Nat /\ dailyCount' \in Nat /\ base' \in Nat
      BY <1>9, <2>1, <3>1 DEF RecordExit
    <3> QED
      BY <1>9, <3>2 DEF IInv, TypeOK, RecordExit, limits
  <2>3. dailySpend' = Today(dailySpend) /\ base' = Today(base)
    BY <1>9 DEF RecordExit
  <2> QED
    BY <1>9, <2>2, <2>3, Elsewhere DEF RecordExit, limits
<1>10. ASSUME \/ Midnight \/ CooledDown \/ UNCHANGED vars
              \/ \E value \in Portfolio : MarketMoves(value)
       PROVE  IInv'
  <2>1. TypeOK'
    BY <1>10 DEF IInv, TypeOK, Midnight, CooledDown, MarketMoves, vars, engine, counters, limits
  <2>2. UNCHANGED <<dailySpend, base, stage, quoted, maxDaily>>
    BY <1>10 DEF Midnight, CooledDown, MarketMoves, vars, engine, counters, limits
  <2> QED
    BY <2>1, <2>2, Elsewhere
<1>11. ASSUME NEW single \in Single, NEW daily \in Daily, SetRule(single, daily)
       PROVE  IInv'
  <2>1. TypeOK'
    BY <1>11 DEF IInv, TypeOK, SetRule
  <2>2. CASE daily = maxDaily
    BY <1>11, <2>1, <2>2, Elsewhere DEF SetRule
  <2>3. CASE daily # maxDaily
    <3>1. SpendOvershootBounded'
      BY <1>11, <2>3, RulesAssumption, Admitted DEF RulesAssumption, IInv, TypeOK, SetRule
    <3>2. PendingSized'
      BY <1>11 DEF IInv, PendingSized, Late, SetRule
    <3> QED
      BY <2>1, <3>1, <3>2 DEF IInv
  <2> QED
    BY <2>2, <2>3
<1>12. ASSUME UpdateParam \/ PushToRuntime
       PROVE  IInv'
  <2>1. maxSingle \in Single /\ maxDaily \in Daily
    BY DEF IInv, TypeOK
  <2> QED
    BY <1>11, <1>12, <2>1 DEF UpdateParam, PushToRuntime
<1> QED
  BY <1>1, <1>2, <1>3, <1>5, <1>6, <1>7, <1>8, <1>9, <1>10, <1>12
     DEF Next, FillNow, RecordUnconfirmed

-----------------------------------------------------------------------------
\* Every reachable state of the rules engine and its callers is well typed:
\* the counters of core/rules.py never go negative, whatever is reset when.
THEOREM TypeCorrect == Spec => []TypeOK
<1>1. Spec => []IInv
  BY InitInv, StepInv, PTL DEF Spec
<1>2. IInv => TypeOK
  BY DEF IInv
<1> QED
  BY <1>1, <1>2, PTL

\* The daily spend of core/rules.py passes max_daily_spend, or what had been
\* spent when it was last set, by no more than two records of the largest order
\* for each buy that may be under way at once.
THEOREM SpendBounded == Spec => []SpendOvershootBounded
<1>1. Spec => []IInv
  BY InitInv, StepInv, PTL DEF Spec
<1>2. IInv => SpendOvershootBounded
  BY DEF IInv
<1> QED
  BY <1>1, <1>2, PTL

-----------------------------------------------------------------------------
(* Requests of a provider per day                                          *)

\* What the invariant needs of a provider object: its daily counter.  The
\* index and the model go through CHOOSE and are not typed here.
Counts(o) == {"requests", "stale"} \subseteq DOMAIN o /\ o.requests \in Nat /\ o.stale \in BOOLEAN

\* o has made as many requests today as n.
SameCount(o, n) == Counts(n) /\ Dated(n).requests = Dated(o).requests

Objects(objects) ==
    /\ objects = [g \in Generation |-> [p \in Name |-> objects[g][p]]]
    /\ \A g \in Generation, p \in Name : Counts(objects[g][p])

AllSame(old, new) ==
    /\ Objects(new)
    /\ \A g \in Generation, p \in Name : SameCount(old[g][p], new[g][p])

Calls ==
    /\ call = [c \in Thread |-> call[c]]
    /\ \A c \in Thread : /\ call[c].gen \in Generation /\ call[c].left \subseteq Place
                         /\ call[c].asked \in Name \cup {"nobody"}

Requests(p) == Dated(prov[gen][p]).requests

\* The calls that will be counted where the next one looks
Askers(p) == {c \in Thread : call[c].asked = p /\ call[c].gen = gen}

\* An answer is counted or unseen, and a call is begun below the limit only.
Budget(p) ==
    /\ served[p] = Requests(p) + unseen[p]
    /\ Requests(p) + Cardinality(Askers(p)) <= DailyLimit[p] + Cardinality(Thread) - 1

LInv ==
    /\ gen \in Generation /\ Objects(prov) /\ Calls
    /\ served \in [Budgeted -> Nat] /\ unseen \in [Budgeted -> Nat]
    /\ \A p \in Budgeted : Budget(p)

\* A set of places has a first one.
LEMMA FirstPlace ==
    ASSUME NEW S \in SUBSET Place, S # {}
    PROVE  Min(S) \in S
<1>1. S \subseteq Nat
  BY LlmAssumption DEF LlmAssumption, Place
<1> DEFINE R == {ss \in Nat \X Nat : ss[1] < ss[2]}
<1>0. R = OpToRel(<, Nat)
  BY Zenon DEF OpToRel
<1>2. \E x \in S : \A y \in S : <<y, x>> \notin R
  <2>1. IsWellFoundedOn(R, Nat)
    BY <1>0, NatLessThanWellFounded, Zenon
  <2> HIDE DEF R
  <2> QED
    BY <1>1, <2>1, WFMin, Zenon
<1>3. \A x, y \in S : <<y, x>> \in R \/ x <= y
  BY <1>1
<1>4. \E x \in S : \A y \in S : x <= y
  <2> HIDE DEF R
  <2> QED
    BY <1>2, <1>3
<1> QED
  BY <1>4 DEF Min

\* Names, places and limits are what they are called.
LEMMA NamesAndPlaces ==
    /\ \A i \in Place : Chain[i] \in Name
    /\ "nobody" \notin Name
    /\ Budgeted \subseteq Name /\ Local \notin Budgeted
    /\ \A p \in Budgeted : DailyLimit[p] \in Nat /\ DailyLimit[p] > 0
    /\ IsFiniteSet(Thread) /\ Cardinality(Thread) \in Nat \ {0}
<1>1. /\ IsFiniteSet(Thread) /\ Cardinality(Thread) > 0
      /\ DailyLimit \in [Limited -> Nat] /\ "nobody" \notin Name
  BY LlmAssumption DEF LlmAssumption
<1>2. Cardinality(Thread) \in Nat
  BY <1>1, FS_CardinalityType
<1> QED
  BY <1>1, <1>2 DEF Budgeted, Limited, Name, Place

\* Every object counts as itself.
LEMMA SameSelf ==
    ASSUME NEW o, Counts(o)
    PROVE  SameCount(o, o)
BY DEF SameCount

\* Counts that agree with a third agree.
LEMMA SameTrans ==
    ASSUME NEW o, NEW n, NEW m, SameCount(o, n), SameCount(n, m)
    PROVE  SameCount(o, m)
BY DEF SameCount

\* What leaves the counter and its date alone
LEMMA SameFields ==
    ASSUME NEW o, NEW n, Counts(o), {"requests", "stale"} \subseteq DOMAIN n,
           n.requests = o.requests, n.stale = o.stale
    PROVE  SameCount(o, n)
<1>1. Counts(n)
  BY DEF Counts
<1>2. Dated(n).requests = Dated(o).requests
  BY DEF Counts, Dated
<1> QED
  BY <1>1, <1>2 DEF SameCount

\* Writing the date does not change how many requests were made today.
LEMMA DatedSame ==
    ASSUME NEW o, Counts(o)
    PROVE  SameCount(o, Dated(o)) /\ Dated(o).requests \in Nat /\ Dated(o).stale = FALSE
BY DEF SameCount, Dated, Counts

\* The clock leaves the daily counter alone.
LEMMA AgedSame == ASSUME NEW o, Counts(o) PROVE SameCount(o, Aged(o))
<1>1. /\ {"requests", "stale"} \subseteq DOMAIN Aged(o)
      /\ Aged(o).requests = o.requests /\ Aged(o).stale = o.stale
  BY DEF Aged, Counts
<1> QED
  BY <1>1, SameFields

\* Failures, cooldowns and rotations leave the daily counter alone.
LEMMA RotatedSame == ASSUME NEW o, Counts(o) PROVE SameCount(o, Rotated(o))
<1> DEFINE next == (o.index + 1) % Cardinality(free)
<1>1. CASE Rotated(o) = o
  BY <1>1, SameSelf
<1>2. CASE Rotated(o) = [o EXCEPT !.index = next]
  BY <1>2, SameFields DEF Counts
<1>3. CASE Rotated(o) = [o EXCEPT !.index = next, !.model = FreeAt(free, next), !.cooling = 0]
  BY <1>3, SameFields DEF Counts
<1> QED
  BY <1>1, <1>2, <1>3 DEF Rotated

\* So does a cooldown.
LEMMA CooledSame == ASSUME NEW o, Counts(o), NEW p PROVE SameCount(o, Cooled(o, p))
<1> DEFINE failed == Failed(o, p)
           cooled == [failed EXCEPT !.cooling = CooldownOf(failed, p)]
<1>1. SameCount(o, failed)
  BY SameFields, SameSelf DEF Failed, Counts
<1>2. SameCount(failed, cooled)
  <2> HIDE DEF failed
  <2> QED
    BY <1>1, SameFields DEF Counts, SameCount
<1>3. SameCount(o, cooled) /\ Counts(cooled)
  BY <1>1, <1>2, SameTrans DEF SameCount
<1>4. SameCount(o, Rotated(cooled))
  <2> HIDE DEF cooled
  <2> QED
    BY <1>3, RotatedSame, SameTrans
<1> QED
  BY <1>3, <1>4 DEF Cooled

\* So does a model that is blacklisted.
LEMMA BlacklistedSame == ASSUME NEW o, Counts(o) PROVE SameCount(o, Blacklisted(o))
BY SameFields, SameSelf DEF Blacklisted, Counts

\* A counted answer is one request more today.
LEMMA CountedOneMore ==
    ASSUME NEW o, Counts(o), NEW p \in Limited
    PROVE  /\ Counts(Counted(o, p))
           /\ p \in Budgeted => Dated(Counted(o, p)).requests = Dated(o).requests + 1
<1> DEFINE d == Dated(o)
           n == Counted(o, p)
<1>1. Counts(d) /\ d.requests \in Nat /\ d.stale = FALSE
  BY DatedSame DEF SameCount
<1>2. /\ {"requests", "stale"} \subseteq DOMAIN n
      /\ n.requests = IF DailyLimit[p] > 0 THEN d.requests + 1 ELSE d.requests
      /\ n.stale = d.stale
  BY <1>1 DEF Counted, Counts
<1>3. Counts(n) /\ Dated(n) = n
  <2> HIDE DEF n, d
  <2> QED
    BY <1>1, <1>2 DEF Counts, Dated
<1> QED
  BY <1>2, <1>3 DEF Budgeted

\* Objects that differ at one place, in what SameCount leaves open
LEMMA UpdatedSame ==
    ASSUME NEW objects, Objects(objects), NEW g \in Generation, NEW p \in Name,
           NEW n, SameCount(objects[g][p], n)
    PROVE  AllSame(objects, [objects EXCEPT ![g][p] = n])
<1> DEFINE new == [objects EXCEPT ![g][p] = n]
<1>1. \A h \in Generation, q \in Name :
         new[h][q] = IF h = g /\ q = p THEN n ELSE objects[h][q]
  BY DEF Objects
<1>2. new = [h \in Generation |-> [q \in Name |-> new[h][q]]]
  BY DEF Objects
<1>3. \A h \in Generation, q \in Name : SameCount(objects[h][q], new[h][q])
  <2> HIDE DEF new
  <2> QED
    BY <1>1, SameSelf DEF Objects
<1> QED
  BY <1>2, <1>3 DEF AllSame, Objects, SameCount

\* A call that is asking has found its provider available.
LEMMA AskingFacts ==
    ASSUME NEW g \in Generation, NEW places \in SUBSET Place, NEW objects
    PROVE  LET asking == Asking(g, places, objects) IN
           /\ asking.gen \in Generation /\ asking.left \subseteq Place
           /\ asking.asked \in Name \cup {"nobody"}
           /\ asking.asked # "nobody" => /\ asking.gen = g
                                        /\ Available(objects[g][asking.asked], asking.asked)
<1> DEFINE ready == Ready(g, places, objects)
           first == Min(ready)
           asking == Asking(g, places, objects)
<1>1. CASE ready = {}
  <2>1. asking = NoCall
    BY <1>1 DEF Asking
  <2>2. 1 \in Generation
    BY LlmAssumption DEF LlmAssumption, Generation
  <2> QED
    BY <2>1, <2>2 DEF NoCall
<1>2. CASE ready # {}
  <2>1. first \in ready /\ ready \subseteq Place
    BY <1>2, FirstPlace DEF Ready
  <2>2. asking = [gen |-> g, left |-> {i \in places : i > first}, asked |-> Chain[first],
                 model |-> objects[g][Chain[first]].model]
    BY <1>2 DEF Asking
  <2>3. Chain[first] \in Name /\ Available(objects[g][Chain[first]], Chain[first])
    BY <2>1, NamesAndPlaces DEF Ready
  <2> HIDE DEF first
  <2> QED
    BY <2>2, <2>3
<1> QED
  BY <1>1, <1>2

\* Looking at the objects on the way leaves the daily counters alone.
LEMMA LookedAtSame ==
    ASSUME NEW objects, Objects(objects), NEW g \in Generation, NEW places
    PROVE  AllSame(objects, LookedAt(g, places, objects))
<1> DEFINE seen == {Chain[i] : i \in places \ Asking(g, places, objects).left}
           Viewed(p) == IF p \in seen /\ objects[g][p].cooling = 0 THEN Dated(objects[g][p])
                      ELSE objects[g][p]
           new == LookedAt(g, places, objects)
<1>1. new = [objects EXCEPT ![g] = [p \in Name |-> Viewed(p)]]
  BY DEF LookedAt
<1>2. \A p \in Name : SameCount(objects[g][p], Viewed(p))
  BY DatedSame, SameSelf DEF Objects
<1> HIDE DEF Viewed
<1>3. \A h \in Generation, q \in Name : new[h][q] = IF h = g THEN Viewed(q) ELSE objects[h][q]
  BY <1>1 DEF Objects
<1>4. new = [h \in Generation |-> [q \in Name |-> new[h][q]]]
  BY <1>1 DEF Objects
<1> HIDE DEF new
<1>5. \A h \in Generation, q \in Name : SameCount(objects[h][q], new[h][q])
  BY <1>2, <1>3, SameSelf DEF Objects
<1>6. \A h \in Generation, q \in Name : Counts(new[h][q])
  BY <1>5 DEF SameCount
<1>7. Objects(new)
  BY <1>4, <1>6, Zenon DEF Objects
<1> QED
  BY <1>5, <1>7, Zenon DEF AllSame, new

\* Forgetting the objects that nobody holds keeps the chain in use.
LEMMA HeldSame ==
    ASSUME NEW objects, Objects(objects), NEW calls, NEW current \in Generation
    PROVE  /\ Objects(Held(objects, calls, current))
           /\ \A p \in Name : Held(objects, calls, current)[current][p] = objects[current][p]
<1>1. \A p \in Name : Counts(New(p))
  BY DEF New, Counts
<1> DEFINE held == Held(objects, calls, current)
<1>2. \A g \in Generation, p \in Name :
         /\ held[g][p] \in {objects[g][p], New(p)}
         /\ g = current => held[g][p] = objects[g][p]
  BY DEF Held
<1>3. held = [g \in Generation |-> [p \in Name |-> held[g][p]]]
  BY DEF Held
<1> HIDE DEF held
<1>4. \A g \in Generation, p \in Name : Counts(held[g][p])
  BY <1>1, <1>2 DEF Objects
<1>5. Objects(held)
  BY <1>3, <1>4, Zenon DEF Objects
<1> QED
  BY <1>2, <1>5 DEF held

\* When the count is the same and nobody begins to ask, the budget is kept.
LEMMA BudgetStays ==
    ASSUME LInv, NEW p \in Budgeted, gen' \in Generation, Objects(prov'),
           SameCount(prov[gen][p], prov'[gen'][p]), Askers(p)' \subseteq Askers(p),
           served'[p] = served[p], unseen'[p] = unseen[p]
    PROVE  Budget(p)'
<1>1. IsFiniteSet(Askers(p)) /\ Cardinality(Askers(p)') <= Cardinality(Askers(p))
  BY NamesAndPlaces, FS_Subset DEF Askers
<1>2. Cardinality(Askers(p)') \in Nat /\ Cardinality(Askers(p)) \in Nat
  BY <1>1, FS_Subset, FS_CardinalityType
<1>3. Requests(p)' = Requests(p)
  BY DEF Requests, SameCount
<1>4. Requests(p) \in Nat
  BY DatedSame, NamesAndPlaces DEF LInv, Objects, Requests
<1> QED
  BY <1>1, <1>2, <1>3, <1>4, NamesAndPlaces DEF LInv, Budget

\* A provider below its limit may be asked by everybody.
LEMMA BudgetBelow ==
    ASSUME LInv, NEW p \in Budgeted, gen' \in Generation, Objects(prov'),
           SameCount(prov[gen][p], prov'[gen'][p]), Requests(p)' < DailyLimit[p],
           served'[p] = served[p], unseen'[p] = unseen[p]
    PROVE  Budget(p)'
<1>1. Cardinality(Askers(p)') <= Cardinality(Thread) /\ Cardinality(Askers(p)') \in Nat
  BY NamesAndPlaces, FS_Subset, FS_CardinalityType DEF Askers
<1>2. Requests(p)' = Requests(p)
  BY DEF Requests, SameCount
<1>3. Requests(p) \in Nat
  BY DatedSame, NamesAndPlaces DEF LInv, Objects, Requests
<1> QED
  BY <1>1, <1>2, <1>3, NamesAndPlaces DEF LInv, Budget

\* A walk asks a provider only while it is below its limit.
LEMMA WalkKeeps ==
    ASSUME LInv, NEW c \in Thread, NEW g \in Generation, NEW places \in SUBSET Place,
           NEW objects, AllSame(prov, objects), Walk(c, g, places, objects),
           UNCHANGED <<gen, tallies>>
    PROVE  LInv'
<1> DEFINE asking == Asking(g, places, objects)
           looked == LookedAt(g, places, objects)
<1>1. call' = [call EXCEPT ![c] = asking] /\ prov' = Held(looked, call', gen)
  BY DEF Walk
<1>2. AllSame(objects, looked)
  BY LookedAtSame DEF AllSame
<1>3. /\ Objects(prov')
      /\ \A p \in Name : prov'[gen][p] = looked[gen][p]
  BY <1>1, <1>2, HeldSame DEF AllSame, LInv
<1>4. \A p \in Name : SameCount(prov[gen][p], prov'[gen][p])
  BY <1>2, <1>3, SameTrans DEF AllSame, LInv
<1>5. /\ asking.gen \in Generation /\ asking.left \subseteq Place
      /\ asking.asked \in Name \cup {"nobody"}
      /\ asking.asked # "nobody" =>
           asking.gen = g /\ Available(objects[g][asking.asked], asking.asked)
  BY AskingFacts
<1> HIDE DEF asking, looked
<1>6. Calls'
  BY <1>1, <1>5 DEF Calls, LInv
<1>7. gen' = gen /\ served' = served /\ unseen' = unseen
  BY DEF tallies
<1>8. \A d \in Thread : call'[d] = IF d = c THEN asking ELSE call[d]
  BY <1>1 DEF LInv, Calls
<1>9. ASSUME NEW p \in Budgeted
      PROVE  Budget(p)'
  <2>1. p \in Name /\ p # "nobody" /\ p # Local
    BY NamesAndPlaces
  <2>2. CASE asking.asked = p /\ asking.gen = gen
    <3>1. g = gen /\ WithinBudget(objects[gen][p], p)
      BY <1>5, <2>1, <2>2 DEF Available
    <3>2. Dated(objects[gen][p]).requests < DailyLimit[p]
      BY <3>1, NamesAndPlaces DEF WithinBudget
    <3>3. Requests(p)' = Dated(objects[gen][p]).requests
      BY <1>2, <1>3, <1>7, <2>1 DEF Requests, AllSame, SameCount, LInv
    <3> QED
      BY <1>3, <1>4, <1>7, <2>1, <3>2, <3>3, BudgetBelow DEF LInv
  <2>3. CASE ~(asking.asked = p /\ asking.gen = gen)
    <3>1. Askers(p)' \subseteq Askers(p)
      BY <1>7, <1>8, <2>3 DEF Askers
    <3> QED
      BY <1>3, <1>4, <1>7, <2>1, <3>1, BudgetStays DEF LInv
  <2> QED
    BY <2>2, <2>3
<1> QED
  BY <1>3, <1>6, <1>7, <1>9 DEF LInv

\* All objects count as themselves.
LEMMA AllSelf == ASSUME NEW objects, Objects(objects) PROVE AllSame(objects, objects)
BY SameSelf DEF AllSame, Objects

\* A call begins.
LEMMA BeginKeeps ==
    ASSUME LInv, NEW c \in Thread, NEW high \in BOOLEAN, Begin(c, high)
    PROVE  LInv'
<1>1. Selected(high) \in SUBSET Place
  BY DEF Selected
<1>2. AllSame(prov, prov)
  BY AllSelf DEF LInv
<1> QED
  BY <1>1, <1>2, WalkKeeps DEF Begin, LInv

\* The call that has been asking
LEMMA CallAt ==
    ASSUME LInv, NEW c \in Thread
    PROVE  /\ call[c].gen \in Generation /\ call[c].left \in SUBSET Place
           /\ call[c].asked # "nobody" => call[c].asked \in Name
BY DEF LInv, Calls

\* A call goes on with the rest of the chain: after a limit or a timeout, ...
LEMMA LimitedOrLateKeeps == ASSUME LInv, NEW c \in Thread, LimitedOrLate(c) PROVE LInv'
<1> DEFINE g == call[c].gen
           p == call[c].asked
           objects == IF p = Local THEN prov ELSE [prov EXCEPT ![g][p] = Cooled(prov[g][p], p)]
<1>1. g \in Generation /\ call[c].left \in SUBSET Place /\ p \in Name
  BY CallAt DEF LimitedOrLate
<1>2. Walk(c, g, call[c].left, objects)
  BY DEF LimitedOrLate
<1>3. AllSame(prov, objects)
  <2>1. Objects(prov) /\ SameCount(prov[g][p], Cooled(prov[g][p], p))
    BY <1>1, CooledSame DEF LInv, Objects
  <2>2. AllSame(prov, [prov EXCEPT ![g][p] = Cooled(prov[g][p], p)])
    <3> HIDE DEF g, p
    <3> QED
      BY <1>1, <2>1, UpdatedSame
  <2> QED
    BY <2>1, <2>2, AllSelf
<1> HIDE DEF g, objects
<1> QED
  BY <1>1, <1>2, <1>3, WalkKeeps DEF LimitedOrLate

\* ... after its model was rejected, ...
LEMMA ModelRejectedKeeps == ASSUME LInv, NEW c \in Thread, ModelRejected(c) PROVE LInv'
<1> DEFINE g == call[c].gen
           objects == [prov EXCEPT ![g][Rotating] = Blacklisted(prov[g][Rotating])]
<1>1. g \in Generation /\ call[c].left \in SUBSET Place /\ Rotating \in Name
  BY CallAt, LlmAssumption DEF LlmAssumption, Limited
<1>2. Walk(c, g, call[c].left, objects)
  BY DEF ModelRejected
<1>3. AllSame(prov, objects)
  <2>1. Objects(prov) /\ SameCount(prov[g][Rotating], Blacklisted(prov[g][Rotating]))
    BY <1>1, BlacklistedSame DEF LInv, Objects
  <2> HIDE DEF g
  <2> QED
    BY <1>1, <2>1, UpdatedSame
<1> HIDE DEF g, objects
<1> QED
  BY <1>1, <1>2, <1>3, WalkKeeps DEF ModelRejected

\* ... and after any other error.
LEMMA FailsKeeps == ASSUME LInv, NEW c \in Thread, Fails(c) PROVE LInv'
<1> DEFINE places == IF call[c].asked = Local THEN {} ELSE call[c].left
<1>1. call[c].gen \in Generation /\ places \in SUBSET Place
  BY CallAt
<1>2. AllSame(prov, prov)
  BY AllSelf DEF LInv
<1>3. Walk(c, call[c].gen, places, prov)
  BY DEF Fails
<1> HIDE DEF places
<1> QED
  BY <1>1, <1>2, <1>3, WalkKeeps DEF Fails

\* An answer takes the caller out of those that ask, and is counted there or
\* among the unseen ones.
LEMMA AnswerKeeps ==
    ASSUME LInv, NEW c \in Thread, NEW usage \in BOOLEAN, Answer(c, usage)
    PROVE  LInv'
<1> DEFINE g == call[c].gen
           p == call[c].asked
           seen == usage /\ g = gen
           counted == usage /\ p # Local
           objects == IF counted THEN [prov EXCEPT ![g][p] = Counted(prov[g][p], p)] ELSE prov
<1>1. g \in Generation /\ p \in Name
  BY CallAt DEF Answer
<1>2. /\ call' = [call EXCEPT ![c] = NoCall] /\ prov' = Held(objects, call', gen) /\ gen' = gen
      /\ served' = IF p \in Budgeted THEN [served EXCEPT ![p] = @ + 1] ELSE served
      /\ unseen' = IF p \in Budgeted /\ ~seen THEN [unseen EXCEPT ![p] = @ + 1] ELSE unseen
  BY DEF Answer
<1>3. p # Local => p \in Limited
  BY <1>1 DEF Limited
<1>4. Objects(prov) /\ gen \in Generation /\ Calls
  BY DEF LInv
<1> HIDE DEF g, p
<1>5. Counts(prov[g][p])
  BY <1>1, <1>4 DEF Objects
<1>6. \A h \in Generation, q \in Name :
         objects[h][q] = IF counted /\ h = g /\ q = p THEN Counted(prov[g][p], p) ELSE prov[h][q]
  BY <1>1, <1>4 DEF Objects
<1>7. objects = [h \in Generation |-> [q \in Name |-> objects[h][q]]]
  BY <1>1, <1>4 DEF Objects
<1> HIDE DEF objects
<1>8. \A h \in Generation, q \in Name : Counts(objects[h][q])
  BY <1>3, <1>4, <1>5, <1>6, CountedOneMore DEF Objects
<1>9. Objects(objects)
  BY <1>7, <1>8, Zenon DEF Objects
<1>10. Objects(prov') /\ \A q \in Name : prov'[gen][q] = objects[gen][q]
  BY <1>2, <1>4, <1>9, HeldSame
<1>11. Calls'
  <2>1. 1 \in Generation
    BY LlmAssumption DEF LlmAssumption, Generation
  <2> QED
    BY <1>2, <1>4, <2>1 DEF Calls, NoCall
<1>12. \A d \in Thread : call'[d] = IF d = c THEN NoCall ELSE call[d]
  BY <1>2, <1>4 DEF Calls
<1>13. served' \in [Budgeted -> Nat] /\ unseen' \in [Budgeted -> Nat]
  BY <1>2 DEF LInv
<1>14. ASSUME NEW q \in Budgeted
       PROVE  Budget(q)'
  <2>1. q \in Name /\ q # "nobody" /\ q # Local
    BY NamesAndPlaces
  <2>2. Askers(q)' = Askers(q) \ {c}
    BY <1>2, <1>12, <2>1 DEF Askers, NoCall
  <2>3. CASE q = p /\ seen
    <3>1. Requests(q)' = Requests(q) + 1
      <4>1. p \in Limited /\ prov'[gen'][q] = Counted(prov[gen][q], q)
        BY <1>2, <1>3, <1>4, <1>6, <1>10, <2>1, <2>3
      <4>2. Dated(Counted(prov[gen][q], q)).requests = Dated(prov[gen][q]).requests + 1
        BY <1>5, <2>3, <4>1, CountedOneMore
      <4> QED
        BY <4>1, <4>2 DEF Requests
    <3>2. c \in Askers(q) /\ IsFiniteSet(Askers(q))
      BY <2>3, NamesAndPlaces, FS_Subset DEF Askers, p, g
    <3>3. Cardinality(Askers(q)') = Cardinality(Askers(q)) - 1 /\ Cardinality(Askers(q)) \in Nat
      BY <2>2, <3>2, FS_RemoveElement, FS_CardinalityType
    <3>4. served'[q] = served[q] + 1 /\ unseen'[q] = unseen[q]
      BY <1>2, <2>3 DEF LInv
    <3>5. Requests(q) \in Nat
      BY DatedSame, <2>1 DEF LInv, Objects, Requests
    <3> QED
      BY <3>1, <3>3, <3>4, <3>5, NamesAndPlaces DEF LInv, Budget
  <2>4. CASE q = p /\ ~seen
    <3>1. SameCount(prov[gen][q], prov'[gen'][q])
      BY <1>2, <1>4, <1>6, <1>10, <2>1, <2>4, SameSelf DEF Objects
    <3>2. served'[q] = served[q] + 1 /\ unseen'[q] = unseen[q] + 1
      BY <1>2, <2>4 DEF LInv
    <3>3. IsFiniteSet(Askers(q)) /\ Cardinality(Askers(q)') <= Cardinality(Askers(q))
      BY <2>2, NamesAndPlaces, FS_Subset DEF Askers
    <3>4. Cardinality(Askers(q)') \in Nat /\ Cardinality(Askers(q)) \in Nat
      BY <2>2, <3>3, FS_Subset, FS_CardinalityType
    <3>5. Requests(q)' = Requests(q) /\ Requests(q) \in Nat
      BY <3>1, DatedSame, <2>1 DEF LInv, Objects, Requests, SameCount
    <3> QED
      BY <3>2, <3>3, <3>4, <3>5, NamesAndPlaces DEF LInv, Budget
  <2>5. CASE q # p
    <3>1. SameCount(prov[gen][q], prov'[gen'][q])
      BY <1>2, <1>4, <1>6, <1>10, <2>1, <2>5, SameSelf DEF Objects
    <3>2. served'[q] = served[q] /\ unseen'[q] = unseen[q]
      BY <1>2, <2>5 DEF LInv
    <3> QED
      BY <1>2, <1>4, <1>10, <2>2, <3>1, <3>2, BudgetStays
  <2> QED
    BY <2>3, <2>4, <2>5
<1> QED
  BY <1>2, <1>4, <1>10, <1>11, <1>13, <1>14 DEF LInv

\* Whatever leaves the calls and the counters alone
LEMMA SameKeeps ==
    ASSUME LInv, UNCHANGED <<gen, call, tallies>>, AllSame(prov, prov')
    PROVE  LInv'
<1>1. gen' = gen /\ call' = call /\ served' = served /\ unseen' = unseen
  BY DEF tallies
<1>2. gen \in Generation /\ Objects(prov')
  BY DEF LInv, AllSame
<1>3. ASSUME NEW p \in Budgeted
      PROVE  Budget(p)'
  <2>1. SameCount(prov[gen][p], prov'[gen'][p])
    BY <1>1, <1>2, NamesAndPlaces DEF AllSame
  <2>2. Askers(p)' = Askers(p)
    BY <1>1 DEF Askers
  <2> QED
    BY <1>1, <1>2, <2>1, <2>2, BudgetStays
<1>4. Calls'
  BY <1>1 DEF LInv, Calls
<1> QED
  BY <1>1, <1>2, <1>3, <1>4 DEF LInv

\* The recovery check writes dates only.
LEMMA CheckRecoveryKeeps == LInv /\ CheckRecovery => LInv'
<1> SUFFICES ASSUME LInv, CheckRecovery PROVE LInv'
  OBVIOUS
<1>1. Objects(prov) /\ gen \in Generation
  BY DEF LInv
<1>2. prov' = [prov EXCEPT ![gen] = [p \in Name |-> Dated(prov[gen][p])]]
  BY DEF CheckRecovery
<1>3. \A g \in Generation, p \in Name :
         prov'[g][p] = IF g = gen THEN Dated(prov[g][p]) ELSE prov[g][p]
  BY <1>1, <1>2 DEF Objects
<1>4. prov' = [g \in Generation |-> [p \in Name |-> prov'[g][p]]]
  BY <1>1, <1>2 DEF Objects
<1>5. \A g \in Generation, p \in Name : SameCount(prov[g][p], prov'[g][p])
  <2> SUFFICES ASSUME NEW g \in Generation, NEW p \in Name
               PROVE  SameCount(prov[g][p], prov'[g][p])
    OBVIOUS
  <2>1. Counts(prov[g][p])
    BY <1>1 DEF Objects
  <2>2. CASE g = gen
    BY <1>3, <2>1, <2>2, DatedSame
  <2>3. CASE g # gen
    BY <1>3, <2>1, <2>3, SameSelf
  <2> QED
    BY <2>2, <2>3
<1>6. \A g \in Generation, p \in Name : Counts(prov'[g][p])
  BY <1>5 DEF SameCount
<1>7. Objects(prov')
  BY <1>4, <1>6, Zenon DEF Objects
<1>8. AllSame(prov, prov')
  BY <1>5, <1>7, Zenon DEF AllSame
<1> QED
  BY <1>8, SameKeeps DEF CheckRecovery

\* Time leaves all daily counters alone.
LEMMA TickKeeps == LInv /\ Tick => LInv'
<1> SUFFICES ASSUME LInv, Tick PROVE LInv'
  OBVIOUS
<1>1. Objects(prov)
  BY DEF LInv
<1>2. prov' = [g \in Generation |-> [p \in Name |-> Aged(prov[g][p])]]
  BY DEF Tick
<1>3. \A g \in Generation, p \in Name : prov'[g][p] = Aged(prov[g][p])
  BY <1>2
<1>4. prov' = [g \in Generation |-> [p \in Name |-> prov'[g][p]]]
  BY <1>2
<1>5. \A g \in Generation, p \in Name : SameCount(prov[g][p], prov'[g][p])
  BY <1>1, <1>3, AgedSame DEF Objects
<1>6. \A g \in Generation, p \in Name : Counts(prov'[g][p])
  BY <1>5 DEF SameCount
<1>7. Objects(prov')
  BY <1>4, <1>6, Zenon DEF Objects
<1>8. AllSame(prov, prov')
  BY <1>5, <1>7, Zenon DEF AllSame
<1> QED
  BY <1>8, SameKeeps DEF Tick

\* The reload hands the counters to objects that no call has come to.
LEMMA RescanKeeps == LInv /\ Rescan => LInv'
<1> SUFFICES ASSUME LInv, Rescan PROVE LInv'
  OBVIOUS
<1> DEFINE objects == [prov EXCEPT ![gen'] = Reloaded]
<1>1. Objects(prov) /\ gen \in Generation /\ gen' \in Generation /\ Calls
  BY DEF LInv, Rescan
<1>2. /\ \A c \in Thread : call[c] # NoCall => call[c].gen # gen'
      /\ prov' = Held(objects, call, gen') /\ call' = call
      /\ served' = served /\ unseen' = unseen
  BY DEF Rescan, tallies
<1>3. \A p \in Name : SameCount(prov[gen][p], Reloaded[p])
  <2> SUFFICES ASSUME NEW p \in Name PROVE SameCount(prov[gen][p], Reloaded[p])
    OBVIOUS
  <2>1. Reloaded[p] = Carried(New(p), prov[gen][p])
    BY DEF Reloaded
  <2>2. /\ {"requests", "stale"} \subseteq DOMAIN Carried(New(p), prov[gen][p])
        /\ Carried(New(p), prov[gen][p]).requests = prov[gen][p].requests
        /\ Carried(New(p), prov[gen][p]).stale = prov[gen][p].stale
    BY DEF Carried, New
  <2> QED
    BY <1>1, <2>1, <2>2, SameFields DEF Objects
<1>4. \A g \in Generation, p \in Name :
         objects[g][p] = IF g = gen' THEN Reloaded[p] ELSE prov[g][p]
  BY <1>1 DEF Objects
<1>5. objects = [g \in Generation |-> [p \in Name |-> objects[g][p]]]
  BY <1>1 DEF Objects, Reloaded
<1> HIDE DEF objects
<1>6. \A g \in Generation, p \in Name : Counts(objects[g][p])
  BY <1>1, <1>3, <1>4 DEF Objects, SameCount
<1>7. Objects(objects)
  BY <1>5, <1>6, Zenon DEF Objects
<1>8. Objects(prov') /\ \A p \in Name : prov'[gen'][p] = objects[gen'][p]
  BY <1>1, <1>2, <1>7, HeldSame
<1>9. ASSUME NEW p \in Budgeted
      PROVE  Budget(p)'
  <2>1. p \in Name /\ p # "nobody"
    BY NamesAndPlaces
  <2>2. SameCount(prov[gen][p], prov'[gen'][p])
    BY <1>1, <1>3, <1>4, <1>8, <2>1
  <2>3. Askers(p)' = {}
    BY <1>2, <2>1 DEF Askers, NoCall
  <2> QED
    BY <1>1, <1>2, <1>8, <2>2, <2>3, BudgetStays
<1>10. Calls'
  BY <1>1, <1>2 DEF Calls
<1> QED
  BY <1>1, <1>2, <1>8, <1>9, <1>10 DEF LInv

\* A new day begins without requests, whoever is being asked.
LEMMA NewDayKeeps == LInv /\ NewDay => LInv'
<1> SUFFICES ASSUME LInv, NewDay PROVE LInv'
  OBVIOUS
<1> DEFINE Old(o) == [o EXCEPT !.stale = o.requests > 0]
<1>1. Objects(prov) /\ gen \in Generation /\ Calls
  BY DEF LInv
<1>2. /\ prov' = [g \in Generation |-> [p \in Name |-> Old(prov[g][p])]]
      /\ served' = [p \in Budgeted |-> 0] /\ unseen' = [p \in Budgeted |-> 0]
      /\ gen' = gen /\ call' = call
  BY DEF NewDay
<1>3. ASSUME NEW o, Counts(o)
      PROVE  Counts(Old(o)) /\ Dated(Old(o)).requests = 0
  <2>1. /\ {"requests", "stale"} \subseteq DOMAIN Old(o)
        /\ Old(o).requests = o.requests /\ Old(o).stale = (o.requests > 0)
    BY <1>3 DEF Counts
  <2>2. Counts(Old(o))
    BY <1>3, <2>1 DEF Counts
  <2> HIDE DEF Old
  <2>3. Dated(Old(o)).requests = IF Old(o).stale THEN 0 ELSE Old(o).requests
    BY <2>2 DEF Dated, Counts
  <2>4. CASE o.requests > 0
    <3>1. Old(o).stale
      BY <2>1, <2>4
    <3> QED
      BY <2>2, <2>3, <3>1
  <2>5. CASE ~(o.requests > 0)
    <3>1. ~Old(o).stale
      BY <2>1, <2>5, Zenon
    <3>2. o.requests = 0
      BY <1>3, <2>5 DEF Counts
    <3> QED
      BY <2>1, <2>2, <2>3, <3>1, <3>2
  <2> QED
    BY <2>4, <2>5
<1> HIDE DEF Old
<1>4. \A g \in Generation, p \in Name : prov'[g][p] = Old(prov[g][p])
  BY <1>2
<1>5. prov' = [g \in Generation |-> [p \in Name |-> prov'[g][p]]]
  BY <1>2
<1>6. \A g \in Generation, p \in Name : Counts(prov'[g][p])
  BY <1>1, <1>3, <1>4 DEF Objects
<1>7. Objects(prov')
  BY <1>5, <1>6, Zenon DEF Objects
<1>8. ASSUME NEW p \in Budgeted
      PROVE  Budget(p)'
  <2>1. Requests(p)' = 0
    BY <1>1, <1>2, <1>3, <1>4, NamesAndPlaces DEF Requests, Objects
  <2>2. Cardinality(Askers(p)') <= Cardinality(Thread) /\ Cardinality(Askers(p)') \in Nat
    BY NamesAndPlaces, FS_Subset, FS_CardinalityType DEF Askers
  <2> QED
    BY <1>2, <2>1, <2>2, NamesAndPlaces DEF Budget
<1>9. Calls'
  BY <1>1, <1>2 DEF Calls
<1>10. served' \in [Budgeted -> Nat] /\ unseen' \in [Budgeted -> Nat]
  BY <1>2
<1> QED
  BY <1>1, <1>2, <1>7, <1>8, <1>9, <1>10 DEF LInv

\* At the start nothing has been served, and nobody is asked.
LEMMA InitLInv == LlmInit => LInv
<1> SUFFICES ASSUME LlmInit PROVE LInv
  OBVIOUS
<1>1. 1 \in Generation
  BY LlmAssumption DEF LlmAssumption, Generation
<1>2. prov = [g \in Generation |-> [p \in Name |-> New(p)]] /\ gen = 1
  BY DEF LlmInit
<1>3. \A p : Counts(New(p)) /\ Dated(New(p)).requests = 0
  BY DEF New, Counts, Dated
<1>4. \A g \in Generation, p \in Name : prov[g][p] = New(p)
  BY <1>2
<1>5. prov = [g \in Generation |-> [p \in Name |-> prov[g][p]]]
  BY <1>2
<1>6. \A g \in Generation, p \in Name : Counts(prov[g][p])
  BY <1>3, <1>4
<1>7. Objects(prov)
  BY <1>5, <1>6, Zenon DEF Objects
<1>8. Calls
  BY <1>1 DEF LlmInit, Calls, NoCall
<1>9. ASSUME NEW p \in Budgeted
      PROVE  Budget(p)
  <2>1. Requests(p) = 0
    BY <1>1, <1>2, <1>3, <1>4, NamesAndPlaces DEF Requests
  <2>2. Cardinality(Askers(p)) <= Cardinality(Thread) /\ Cardinality(Askers(p)) \in Nat
    BY NamesAndPlaces, FS_Subset, FS_CardinalityType DEF Askers
  <2>3. served[p] = 0 /\ unseen[p] = 0
    BY DEF LlmInit
  <2> QED
    BY <2>1, <2>2, <2>3, NamesAndPlaces DEF Budget
<1> QED
  BY <1>1, <1>2, <1>7, <1>8, <1>9 DEF LlmInit, LInv

\* Every step keeps the invariant.
LEMMA StepLInv == LInv /\ [LlmNext]_llmVars => LInv'
<1> SUFFICES ASSUME LInv, [LlmNext]_llmVars PROVE LInv'
  OBVIOUS
<1>1. CASE RefreshFreeModels \/ UNCHANGED llmVars
  <2>1. UNCHANGED <<gen, call, tallies>> /\ prov' = prov
    BY <1>1 DEF RefreshFreeModels, llmVars
  <2>2. AllSame(prov, prov')
    BY <2>1, AllSelf DEF LInv
  <2> QED
    BY <2>1, <2>2, SameKeeps
<1>2. CASE \E c \in Thread : (\E high \in BOOLEAN : Begin(c, high)) \/ Replies(c)
  BY <1>2, BeginKeeps, AnswerKeeps, LimitedOrLateKeeps, ModelRejectedKeeps, FailsKeeps DEF Replies
<1> QED
  BY <1>1, <1>2, CheckRecoveryKeeps, RescanKeeps, TickKeeps, NewDayKeeps DEF LlmNext

\* llm_client.py checks the daily budget of a provider before it awaits and
\* counts after: calls that overlap pass the limit, but by one each at most,
\* and what is not counted was answered without usage or by a replaced chain.
THEOREM ServedBounded == LlmSpec => []ServedWithinBudget
<1>1. LInv => ServedWithinBudget
  <2> SUFFICES ASSUME LInv, NEW p \in Budgeted
               PROVE  served[p] <= DailyLimit[p] + Cardinality(Thread) - 1 + unseen[p]
    BY DEF ServedWithinBudget
  <2>1. Cardinality(Askers(p)) \in Nat
    BY NamesAndPlaces, FS_Subset, FS_CardinalityType DEF Askers
  <2>2. Requests(p) \in Nat
    BY DatedSame, NamesAndPlaces DEF LInv, Objects, Requests
  <2> QED
    BY <2>1, <2>2, NamesAndPlaces DEF LInv, Budget
<1> QED
  BY <1>1, InitLInv, StepLInv, PTL DEF LlmSpec
=============================================================================
