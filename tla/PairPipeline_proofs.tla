------------------------ MODULE PairPipeline_proofs ------------------------
(***************************************************************************)
(* What the pipelines of a batch guarantee together, for any pairs, limits *)
(* and shares.  The size of a buy is followed through clamping, sizing and *)
(* the fee gate up to the executor's multiplier.  The number of positions  *)
(* needs more than the ledger: a buy that is being verified will become a  *)
(* position, and so will coins the ledger has not seen, so the invariant   *)
(* counts open and coming positions together.                              *)
(***************************************************************************)
EXTENDS PairPipeline, FiniteSetTheorems, TLAPS

-----------------------------------------------------------------------------
(* Arithmetic of the sizing *)

\* SmallestOf is a member and a lower bound of a set that has one.
LEMMA SmallestIs ==
    ASSUME NEW S, \E x \in S : \A y \in S : x <= y
    PROVE  SmallestOf(S) \in S /\ \A y \in S : SmallestOf(S) <= y
  BY Zenon DEF SmallestOf

\* LargestOf is a member and an upper bound of a set that has one.
LEMMA LargestIs ==
    ASSUME NEW S, \E x \in S : \A y \in S : y <= x
    PROVE  LargestOf(S) \in S /\ \A y \in S : y <= LargestOf(S)
  BY Zenon DEF LargestOf

\* The smaller of two numbers.
LEMMA SmallestOfTwo ==
    ASSUME NEW a \in Nat, NEW b \in Nat
    PROVE  SmallestOf({a, b}) \in Nat /\ SmallestOf({a, b}) <= a /\ SmallestOf({a, b}) <= b
<1>1. \E x \in {a, b} : \A y \in {a, b} : x <= y
  OBVIOUS
<1> QED
  BY <1>1, SmallestIs

\* The smallest of three numbers.
LEMMA SmallestOfThree ==
    ASSUME NEW a \in Nat, NEW b \in Nat, NEW c \in Nat
    PROVE  /\ SmallestOf({a, b, c}) \in Nat
           /\ SmallestOf({a, b, c}) <= a /\ SmallestOf({a, b, c}) <= b
           /\ SmallestOf({a, b, c}) <= c
<1>1. \E x \in {a, b, c} : \A y \in {a, b, c} : x <= y
  <2>1. CASE a <= b /\ a <= c
    BY <2>1
  <2>2. CASE b <= a /\ b <= c
    BY <2>2
  <2>3. CASE c <= a /\ c <= b
    BY <2>3
  <2> QED
    BY <2>1, <2>2, <2>3
<1> QED
  BY <1>1, SmallestIs

\* The larger of two numbers.
LEMMA LargestOfTwo ==
    ASSUME NEW a \in Nat, NEW b \in Nat
    PROVE  LargestOf({a, b}) \in Nat /\ a <= LargestOf({a, b}) /\ b <= LargestOf({a, b})
<1>1. \E x \in {a, b} : \A y \in {a, b} : y <= x
  OBVIOUS
<1> QED
  BY <1>1, LargestIs

\* The largest of three numbers is a number.
LEMMA LargestOfThree ==
    ASSUME NEW a \in Nat, NEW b \in Nat, NEW c \in Nat
    PROVE  LargestOf({a, b, c}) \in Nat
<1>1. \E x \in {a, b, c} : \A y \in {a, b, c} : y <= x
  <2>1. CASE b <= a /\ c <= a
    BY <2>1
  <2>2. CASE a <= b /\ c <= b
    BY <2>2
  <2>3. CASE a <= c /\ b <= c
    BY <2>3
  <2> QED
    BY <2>1, <2>2, <2>3
<1> QED
  BY <1>1, LargestIs

\* Products of larger factors are larger.
LEMMA Products ==
    ASSUME NEW m \in Nat, NEW n \in Nat, NEW a \in Nat, NEW b \in Nat, m <= n, a <= b
    PROVE  m * a \in Nat /\ n * b \in Nat /\ m * a <= n * b
<1>1. m * a <= n * a
  OBVIOUS
<1>2. n * a <= n * b
  OBVIOUS
<1> QED
  BY <1>1, <1>2

\* A share of more, or a larger share, is not less.
LEMMA PctGrows ==
    ASSUME NEW m \in Nat, NEW n \in Nat, NEW a \in Nat, NEW b \in Nat, m <= n, a <= b
    PROVE  Pct(m, a) \in Nat /\ Pct(n, b) \in Nat /\ Pct(m, a) <= Pct(n, b)
<1> DEFINE x == m * a
           y == n * b
<1>1. x \in Nat /\ y \in Nat /\ x <= y
  BY Products
<1> HIDE DEF x, y
<1>2. x \div 100 \in Nat /\ y \div 100 \in Nat /\ x \div 100 <= y \div 100
  BY <1>1
<1> QED
  BY <1>2 DEF Pct, x, y

\* The whole of an amount is the amount.
LEMMA PctWhole == \A a \in Nat : Pct(100, a) = a
  BY DEF Pct

\* The constants are numbers.
LEMMA Numbers ==
    /\ InitialCash \in Nat /\ MaxSingle \in Nat /\ MaxDaily \in Nat
    /\ ApprovalAbove \in Nat /\ MaxOpen \in Nat /\ MaxOrders \in Nat
    /\ MinTrade \in Nat /\ Amount \subseteq Nat /\ MaxPosition \subseteq Nat
    /\ Viable \subseteq Nat /\ CaMult \subseteq 70..130
    /\ Share \subseteq 0..100 /\ CashPct \in Nat /\ RiskPct \in Nat
    /\ PositionPct \in Nat /\ ExposurePct \in Nat
    /\ IsFiniteSet(Pair)
  BY PipelineAssumption DEF PipelineAssumption

\* A share of a number is a number.
LEMMA PctNat == \A m, a \in Nat : Pct(m, a) \in Nat
  BY PctGrows

\* What the rules allow for a trade is a number.
LEMMA RuleCapNat ==
    ASSUME NEW cash \in Nat
    PROVE  RuleCap(cash) \in Nat /\ SingleTrade \in Nat
<1>1. Pct(CashPct, InitialCash) \in Nat /\ Pct(RiskPct, InitialCash) \in Nat
      /\ Pct(CashPct, cash) \in Nat
  BY Numbers, PctNat
<1>2. SingleTrade \in Nat
  BY <1>1, Numbers, SmallestOfTwo DEF SingleTrade
<1>3. CashShare(cash) \in Nat
  BY <1>1, <1>2 DEF CashShare
<1> QED
  BY <1>1, <1>2, <1>3, SmallestOfThree DEF RuleCap

\* Clamping and sizing only ever cut.
LEMMA Cuts ==
    ASSUME NEW amount \in Nat, NEW cash \in Nat, NEW maxPosition \in Nat
    PROVE  /\ Clamped(amount, cash) \in Nat /\ Clamped(amount, cash) <= amount
           /\ Sized(amount, maxPosition) \in Nat /\ Sized(amount, maxPosition) <= amount
<1>1. Pct(CashPct, cash) \in Nat /\ Pct(ExposurePct, InitialCash) \in Nat /\ SingleTrade \in Nat
  BY Numbers, PctNat, RuleCapNat
<1>2. Clamped(amount, cash) \in Nat /\ Clamped(amount, cash) <= amount
  BY <1>1, SmallestOfThree DEF Clamped
<1>3. Headroom \in Nat
  BY <1>1, LargestOfTwo DEF Headroom, ExistingExposure
<1> QED
  BY <1>2, <1>3, SmallestOfThree DEF Sized

\* A bump stays within what the rules allow.
LEMMA BumpFits ==
    ASSUME NEW amount \in Nat, NEW viable \in Nat, NEW cash \in Nat
    PROVE  /\ Bumped(amount, viable, cash) \in Nat
           /\ Bumped(amount, viable, cash) <= RuleCap(cash)
<1>1. RuleCap(cash) \in Nat /\ Pct(PositionPct, InitialCash) \in Nat
  BY Numbers, PctNat, RuleCapNat
<1>2. BumpCap(cash) \in Nat /\ BumpCap(cash) <= RuleCap(cash)
  BY <1>1, SmallestOfThree DEF BumpCap
<1>3. LargestOf({MinTrade, viable}) \in Nat
  BY Numbers, LargestOfTwo
<1>4. LeastWorthwhile(viable, BumpCap(cash)) \in Nat
  BY <1>3 DEF LeastWorthwhile
<1>5. LargestOf({amount, MinTrade, LeastWorthwhile(viable, BumpCap(cash))}) \in Nat
  BY <1>4, Numbers, LargestOfThree
<1> QED
  BY <1>1, <1>2, <1>5, SmallestOfTwo DEF Bumped

\* What leaves the fee gate: a buy within the rules, below the approval
\* threshold if it does not ask, and worth its fees unless its bump was refused.
LEMMA GatedOrders ==
    ASSUME NEW amount \in Nat, NEW asks \in BOOLEAN, NEW viable \in Nat, NEW cash \in Nat,
           amount <= RuleCap(cash), ~asks => amount <= ApprovalAbove,
           NEW way \in Gated(amount, asks, viable, cash)
    PROVE  /\ way.order \in Order /\ way.order.side = "buy" /\ ~way.order.approved
           /\ way.order.viable = viable
           /\ way.order.amount <= RuleCap(cash)
           /\ ~way.asks => way.order.amount <= ApprovalAbove
           /\ way.order.amount >= viable \/ way.order.blocked
<1> DEFINE bumped == Bumped(amount, viable, cash)
           buy == [NoOrder EXCEPT !.viable = viable]
<1>1. /\ bumped \in Nat /\ bumped <= RuleCap(cash) /\ RuleCap(cash) \in Nat
      /\ ApprovalAbove \in Nat
  BY BumpFits, RuleCapNat, Numbers
<1>2. \A n \in Nat : Worthwhile(n, viable) => n >= viable
  BY Numbers, LargestOfTwo DEF Worthwhile
<1>4. \A n \in Nat : /\ [buy EXCEPT !.amount = n] \in Order
                     /\ [buy EXCEPT !.amount = n].amount = n
                     /\ [buy EXCEPT !.amount = n].side = "buy"
                     /\ ~[buy EXCEPT !.amount = n].approved
                     /\ [buy EXCEPT !.amount = n].viable = viable
  BY DEF Order, NoOrder
<1>5. /\ [buy EXCEPT !.amount = amount, !.blocked = TRUE] \in Order
      /\ [buy EXCEPT !.amount = amount, !.blocked = TRUE].amount = amount
      /\ [buy EXCEPT !.amount = amount, !.blocked = TRUE].side = "buy"
      /\ ~[buy EXCEPT !.amount = amount, !.blocked = TRUE].approved
      /\ [buy EXCEPT !.amount = amount, !.blocked = TRUE].viable = viable
      /\ [buy EXCEPT !.amount = amount, !.blocked = TRUE].blocked
  BY DEF Order, NoOrder
<1> HIDE DEF bumped, buy
<1>6. \/ Worthwhile(amount, viable) /\ way = [asks |-> asks, order |-> [buy EXCEPT !.amount = amount]]
      \/ Worthwhile(bumped, viable)
         /\ way = [asks |-> NeedsApproval(amount, bumped), order |-> [buy EXCEPT !.amount = bumped]]
      \/ way = [asks |-> asks, order |-> [buy EXCEPT !.amount = amount, !.blocked = TRUE]]
  BY Zenon DEF Gated, bumped, buy
<1>7. CASE Worthwhile(amount, viable) /\ way = [asks |-> asks, order |-> [buy EXCEPT !.amount = amount]]
  <2>1. way.asks = asks /\ way.order = [buy EXCEPT !.amount = amount]
    BY <1>7
  <2> QED
    BY <1>2, <1>4, <1>7, <2>1
<1>8. CASE Worthwhile(bumped, viable)
           /\ way = [asks |-> NeedsApproval(amount, bumped), order |-> [buy EXCEPT !.amount = bumped]]
  <2>1. way.asks = NeedsApproval(amount, bumped) /\ way.order = [buy EXCEPT !.amount = bumped]
    BY <1>8
  <2>2. ~(bumped > ApprovalAbove) => bumped <= ApprovalAbove
    BY <1>1
  <2>3. ~way.asks => bumped <= ApprovalAbove
    BY <2>1, <2>2, Zenon DEF NeedsApproval, Asks
  <2> QED
    BY <1>1, <1>2, <1>4, <1>8, <2>1, <2>3
<1>9. CASE way = [asks |-> asks, order |-> [buy EXCEPT !.amount = amount, !.blocked = TRUE]]
  <2>1. way.asks = asks /\ way.order = [buy EXCEPT !.amount = amount, !.blocked = TRUE]
    BY <1>9
  <2> QED
    BY <1>5, <2>1
<1> QED
  BY <1>6, <1>7, <1>8, <1>9
-----------------------------------------------------------------------------
(* The invariants *)

\* What is known of a pipeline's order: queued, it is a buy within the rules and
\* worth its fees; being verified, it has met the executor's multiplier.
SoundAt(s, o, cash) ==
    /\ s = "queued" => /\ o.side = "buy"
                       /\ o.amount <= RuleCap(cash)
                       /\ o.amount >= o.viable \/ o.blocked
    /\ s = "verifying" /\ o.side = "buy" =>
          /\ o.amount <= Pct(Largest, RuleCap(cash))
          /\ o.amount <= Pct(Largest, ApprovalAbove) \/ o.approved
          /\ o.amount >= Pct(Smallest, o.viable) \/ o.blocked

Sizes == \A p \in Pair : SoundAt(stage[p], order[p], seen[p])

\* The positions there are and those that are coming, but for the excepted ones
Coming == (OpenPositions \cup Bought) \ crowded

Slots ==
    /\ \A p \in Pair : pos[p] # 0 => p \in tracked
    /\ \A p \in Pair : p \notin tracked /\ coins[p] > 0 => p \in crowded \cup Bought
    /\ \A p \in Pair : stage[p] = "verifying" /\ order[p].side = "sell" => pos[p] # 0
    /\ Cardinality(Coming) <= MaxOpen

IInv == TypeOK /\ Sizes /\ Slots

\* A step of one pipeline leaves the others' records alone.
OnlyAt(p) ==
    \A q \in Pair \ {p} : stage'[q] = stage[q] /\ order'[q] = order[q] /\ seen'[q] = seen[q]

\* Fewer coming positions are within the limit as well.
LEMMA FewerComing ==
    ASSUME NEW S, NEW T, S \subseteq T, T \subseteq Pair
    PROVE  /\ Cardinality(S) \in Nat /\ Cardinality(T) \in Nat
           /\ Cardinality(S) <= Cardinality(T)
<1>1. IsFiniteSet(T)
  BY Numbers, FS_Subset
<1>2. IsFiniteSet(S) /\ Cardinality(S) <= Cardinality(T)
  BY <1>1, FS_Subset
<1> QED
  BY <1>1, <1>2, FS_CardinalityType

\* The limit is kept when no position comes in addition.
LEMMA NothingComes ==
    ASSUME Cardinality(Coming) <= MaxOpen, Coming' \subseteq Coming
    PROVE  (Cardinality(Coming) <= MaxOpen)'
<1>1. Coming \subseteq Pair
  BY DEF Coming, OpenPositions, Bought
<1>2. \A S : S \subseteq Coming => Cardinality(S) <= MaxOpen
  BY <1>1, FewerComing, Numbers
<1> QED
  BY <1>2

\* A step of one pipeline leaves the others among the buys or out of them.
LEMMA BoughtElsewhere ==
    ASSUME NEW p \in Pair, OnlyAt(p)
    PROVE  \A q \in Pair \ {p} : q \in Bought' <=> q \in Bought
  BY DEF OnlyAt, Bought

\* A step of one pipeline keeps the sizes if its own order is sound after it.
LEMMA SizesElsewhere ==
    ASSUME Sizes, NEW p \in Pair, OnlyAt(p), SoundAt(stage'[p], order'[p], seen'[p])
    PROVE  Sizes'
<1>1. \A q \in Pair : SoundAt(stage'[q], order'[q], seen'[q])
  BY DEF Sizes, OnlyAt
<1> QED
  BY <1>1 DEF Sizes, SoundAt, RuleCap, SingleTrade, CashShare

\* A pipeline that ends leaves nothing behind.
LEMMA EndsFacts ==
    ASSUME TypeOK, NEW p \in Pair, Ends(p)
    PROVE  /\ stage' \in [Pair -> Stage] /\ seen' \in [Pair -> Nat] /\ order' \in [Pair -> Order]
           /\ stage'[p] = "idle" /\ OnlyAt(p)
           /\ p \notin Bought'
           /\ SoundAt(stage'[p], order'[p], seen'[p])
<1>1. NoOrder \in Order /\ "idle" \in Stage
  BY DEF NoOrder, Order, Stage
<1>2. stage' = [stage EXCEPT ![p] = "idle"] /\ seen' = [seen EXCEPT ![p] = 0]
      /\ order' = [order EXCEPT ![p] = NoOrder]
  BY DEF Ends, GoesTo
<1>3. stage' \in [Pair -> Stage] /\ seen' \in [Pair -> Nat] /\ order' \in [Pair -> Order]
  BY <1>1, <1>2 DEF TypeOK
<1>4. stage'[p] = "idle" /\ OnlyAt(p)
  BY <1>2 DEF TypeOK, OnlyAt
<1> QED
  BY <1>3, <1>4 DEF Bought, SoundAt

\* A pipeline that ends without having verified anything keeps the invariant.
LEMMA DropKeeps ==
    ASSUME IInv, NEW p \in Pair, Ends(p), stage[p] # "verifying",
           UNCHANGED <<ledger, account, crowded>>
    PROVE  IInv'
<1>1. TypeOK /\ Sizes /\ Slots
  BY DEF IInv
<1>2. /\ stage' \in [Pair -> Stage] /\ seen' \in [Pair -> Nat] /\ order' \in [Pair -> Order]
      /\ stage'[p] = "idle" /\ OnlyAt(p) /\ p \notin Bought'
      /\ SoundAt(stage'[p], order'[p], seen'[p])
  BY <1>1, EndsFacts
<1>3. UNCHANGED <<pos, tracked, liveCash, spent, money, coins, placed, crowded>>
  BY DEF ledger, account
<1>4. TypeOK'
  BY <1>1, <1>2, <1>3 DEF TypeOK
<1>5. Sizes'
  BY <1>1, <1>2, SizesElsewhere
<1>6. Bought' = Bought
  <2>1. p \notin Bought
    BY DEF Bought
  <2>2. Bought \subseteq Pair /\ Bought' \subseteq Pair
    BY DEF Bought
  <2> QED
    BY <1>2, <2>1, <2>2, BoughtElsewhere
<1>7. Coming' = Coming
  BY <1>3, <1>6 DEF Coming, OpenPositions
<1>8. \A q \in Pair : stage'[q] = "verifying" => q # p /\ stage[q] = "verifying" /\ order'[q] = order[q]
  BY <1>2 DEF OnlyAt
<1>9. Slots'
  BY <1>1, <1>3, <1>6, <1>7, <1>8, NothingComes DEF Slots
<1> QED
  BY <1>4, <1>5, <1>9 DEF IInv
-----------------------------------------------------------------------------
(* Steps that place no order *)

\* A pipeline that goes on with nothing ordered keeps the invariant.
LEMMA AdvanceKeeps ==
    ASSUME IInv, NEW p \in Pair, NEW s \in {"fetching", "asking"}, GoesTo(p, s),
           stage[p] \in {"idle", "fetching"},
           seen' = seen \/ seen' = [seen EXCEPT ![p] = liveCash],
           UNCHANGED <<order, ledger, account, crowded>>
    PROVE  IInv'
<1>1. TypeOK /\ Sizes /\ Slots
  BY DEF IInv
<1>2. UNCHANGED <<order, pos, tracked, liveCash, spent, money, coins, placed, crowded>>
  BY DEF ledger, account
<1>3. stage' = [stage EXCEPT ![p] = s] /\ s \in Stage
  BY DEF GoesTo, Stage
<1>4. stage' \in [Pair -> Stage] /\ seen' \in [Pair -> Nat]
  BY <1>1, <1>3 DEF TypeOK
<1>5. TypeOK'
  BY <1>1, <1>2, <1>4 DEF TypeOK
<1>6. stage'[p] = s /\ OnlyAt(p)
  BY <1>1, <1>2, <1>3 DEF TypeOK, OnlyAt
<1>7. Sizes'
  BY <1>1, <1>6, SizesElsewhere DEF SoundAt
<1>8. Bought' = Bought
  <2>1. p \notin Bought /\ p \notin Bought'
    BY <1>6 DEF Bought
  <2>2. Bought \subseteq Pair /\ Bought' \subseteq Pair
    BY DEF Bought
  <2> QED
    BY <1>6, <2>1, <2>2, BoughtElsewhere
<1>9. Coming' = Coming
  BY <1>2, <1>8 DEF Coming, OpenPositions
<1>10. \A q \in Pair : stage'[q] = "verifying" => stage[q] = "verifying"
  BY <1>6 DEF OnlyAt
<1>11. Slots'
  BY <1>1, <1>2, <1>8, <1>9, <1>10, NothingComes DEF Slots
<1> QED
  BY <1>5, <1>7, <1>11 DEF IInv

\* Starting and taking the snapshot keep the invariant.
LEMMA StartKeeps ==
    ASSUME IInv, NEW p \in Pair, Start(p) \/ Snapshot(p)
    PROVE  IInv'
<1>1. CASE Start(p)
  BY <1>1, AdvanceKeeps DEF Start
<1>2. CASE Snapshot(p)
  BY <1>2, AdvanceKeeps DEF Snapshot
<1> QED
  BY <1>1, <1>2

\* A refresh finds only coins that were coming already.
LEMMA RefreshKeeps ==
    ASSUME IInv, NEW p \in Pair, Refresh(p)
    PROVE  IInv'
<1> DEFINE found == {q \in Pair \ tracked : coins[q] > 0}
<1>1. TypeOK /\ Sizes /\ Slots
  BY DEF IInv
<1>2. /\ liveCash' = money
      /\ pos' = [q \in Pair |-> IF q \in found THEN coins[q] ELSE pos[q]]
      /\ tracked' = tracked \cup found
      /\ UNCHANGED <<stage, seen, order, spent, money, coins, placed, crowded>>
  BY DEF Refresh, account
<1>3. \A q \in found : q \in Pair /\ q \notin tracked /\ coins[q] > 0 /\ coins[q] \in Nat
  BY <1>1 DEF TypeOK
<1>4. pos' \in [Pair -> Int] /\ tracked' \subseteq Pair
  BY <1>1, <1>2, <1>3 DEF TypeOK
<1>5. TypeOK'
  BY <1>1, <1>2, <1>4 DEF TypeOK
<1>6. Sizes'
  BY <1>1, <1>2 DEF Sizes, SoundAt, RuleCap, SingleTrade, CashShare
<1>7. Bought' = Bought
  BY <1>2 DEF Bought
<1>8. found \subseteq crowded \cup Bought
  BY <1>1, <1>3 DEF Slots
<1>9. \A q \in Pair : pos'[q] = IF q \in found THEN coins[q] ELSE pos[q]
  BY <1>2
<1> HIDE DEF found
<1>10. Coming' \subseteq Coming
  BY <1>2, <1>7, <1>8, <1>9 DEF Coming, OpenPositions
<1>11. (\A q \in Pair : pos[q] # 0 => q \in tracked)'
  BY <1>1, <1>2, <1>9 DEF Slots
<1>12. (\A q \in Pair : q \notin tracked /\ coins[q] > 0 => q \in crowded \cup Bought)'
  BY <1>1, <1>2, <1>7 DEF Slots
<1>13. (\A q \in Pair : stage[q] = "verifying" /\ order[q].side = "sell" => pos[q] # 0)'
  BY <1>1, <1>2, <1>3, <1>9 DEF Slots
<1>14. Slots'
  BY <1>1, <1>10, <1>11, <1>12, <1>13, NothingComes DEF Slots
<1> QED
  BY <1>5, <1>6, <1>14 DEF IInv

\* Giving up and a rejection by the owner keep the invariant.
LEMMA GiveUpKeeps ==
    ASSUME IInv, NEW p \in Pair, GiveUp(p) \/ Reject(p)
    PROVE  IInv'
<1>1. stage[p] # "verifying" /\ Ends(p) /\ UNCHANGED <<ledger, account, crowded>>
  BY DEF GiveUp, Reject
<1> QED
  BY <1>1, DropKeeps

\* Midnight moves nothing but the day's spend.
LEMMA MidnightKeeps == IInv /\ Midnight => IInv'
<1> SUFFICES ASSUME IInv, Midnight PROVE IInv'
  OBVIOUS
<1>1. TypeOK /\ Sizes /\ Slots
  BY DEF IInv
<1>2. UNCHANGED <<stage, seen, order, pos, tracked, liveCash, money, coins, placed, crowded>>
      /\ spent' = 0
  BY DEF Midnight, account
<1>3. TypeOK'
  BY <1>1, <1>2 DEF TypeOK
<1>4. Sizes' /\ Slots'
  BY <1>1, <1>2
     DEF Sizes, SoundAt, RuleCap, SingleTrade, CashShare, Slots, Coming, OpenPositions, Bought
<1> QED
  BY <1>3, <1>4 DEF IInv

\* Nor does a stuttering step move anything.
LEMMA StutterKeeps == IInv /\ UNCHANGED vars => IInv'
<1> SUFFICES ASSUME IInv, UNCHANGED vars PROVE IInv'
  OBVIOUS
<1>1. TypeOK /\ Sizes /\ Slots
  BY DEF IInv
<1>2. UNCHANGED <<stage, seen, order, pos, tracked, liveCash, spent, money, coins, placed, crowded>>
  BY DEF vars, ledger, account
<1>3. TypeOK'
  BY <1>1, <1>2 DEF TypeOK
<1>4. Sizes' /\ Slots'
  BY <1>1, <1>2
     DEF Sizes, SoundAt, RuleCap, SingleTrade, CashShare, Slots, Coming, OpenPositions, Bought
<1> QED
  BY <1>3, <1>4 DEF IInv

-----------------------------------------------------------------------------
(* Orders *)

\* A buy that is sent is exempt from the limit unless it is the only one, and
\* then it had a free slot.
LEMMA PlaceBuyKeeps ==
    ASSUME IInv, NEW p \in Pair, NEW o \in Order, PlaceBuy(p, o), UNCHANGED ledger,
           stage[p] \in {"asking", "queued"}, o.side = "buy",
           SoundAt("verifying", o, seen[p]),
           o.approved \/ FreeSlot
    PROVE  IInv'
<1>1. TypeOK /\ Sizes /\ Slots
  BY DEF IInv
<1>2. CASE ~(o.amount <= money)
  BY <1>2, DropKeeps DEF PlaceBuy
<1>3. CASE o.amount <= money
  <2>1. /\ placed < MaxOrders /\ placed' = placed + 1
        /\ stage' = [stage EXCEPT ![p] = "verifying"]
        /\ order' = [order EXCEPT ![p] = o]
        /\ money' = money - o.amount
        /\ coins' = [coins EXCEPT ![p] = @ + o.amount]
        /\ crowded' = IF pos[p] = 0 /\ (Bought # {} \/ o.approved)
                      THEN crowded \cup {p} ELSE crowded
        /\ UNCHANGED <<seen, pos, tracked, liveCash, spent>>
    BY <1>3 DEF PlaceBuy, GoesTo, ledger
  <2>2. o.amount \in Nat
    BY DEF Order
  <2>3. stage' \in [Pair -> Stage] /\ order' \in [Pair -> Order]
    BY <1>1, <2>1 DEF TypeOK, Stage
  <2>4. money' \in Nat /\ coins' \in [Pair -> Nat] /\ placed' \in 0..MaxOrders
    BY <1>1, <1>3, <2>1, <2>2, Numbers DEF TypeOK
  <2>5. TypeOK'
    BY <1>1, <2>1, <2>3, <2>4 DEF TypeOK
  <2>6. stage'[p] = "verifying" /\ order'[p] = o /\ seen'[p] = seen[p] /\ OnlyAt(p)
    BY <1>1, <2>1 DEF TypeOK, OnlyAt
  <2>7. Sizes'
    BY <1>1, <2>6, SizesElsewhere
  <2>8. Bought' = Bought \cup {p}
    <3>1. p \in Bought'
      BY <2>6 DEF Bought
    <3>2. Bought \subseteq Pair /\ Bought' \subseteq Pair
      BY DEF Bought
    <3> QED
      BY <2>6, <3>1, <3>2, BoughtElsewhere
  <2>9. OpenPositions' = OpenPositions
    BY <2>1 DEF OpenPositions
  <2>10. (Cardinality(Coming) <= MaxOpen)'
    <3>1. CASE pos[p] = 0 /\ (Bought # {} \/ o.approved)
      <4>1. Coming' \subseteq Coming
        BY <2>1, <2>8, <2>9, <3>1 DEF Coming
      <4> QED
        BY <1>1, <4>1, NothingComes DEF Slots
    <3>2. CASE pos[p] # 0
      <4>1. p \in OpenPositions
        BY <3>2 DEF OpenPositions
      <4>2. Coming' \subseteq Coming
        BY <2>1, <2>8, <2>9, <3>2, <4>1 DEF Coming
      <4> QED
        BY <1>1, <4>2, NothingComes DEF Slots
    <3>3. CASE Bought = {} /\ ~o.approved
      <4>1. Cardinality(OpenPositions) < MaxOpen
        BY <3>3 DEF FreeSlot
      <4>2. OpenPositions \subseteq Pair /\ IsFiniteSet(OpenPositions)
            /\ OpenPositions \cup {p} \subseteq Pair
        BY Numbers, FS_Subset DEF OpenPositions
      <4>3. Cardinality(OpenPositions \cup {p}) <= Cardinality(OpenPositions) + 1
            /\ Cardinality(OpenPositions) \in Nat
            /\ Cardinality(OpenPositions \cup {p}) \in Nat
        <5>1. Cardinality(OpenPositions) \in Nat
          BY <4>2, FS_CardinalityType
        <5>2. Cardinality(OpenPositions \cup {p}) =
                 IF p \in OpenPositions THEN Cardinality(OpenPositions)
                 ELSE Cardinality(OpenPositions) + 1
          BY <4>2, FS_AddElement
        <5> QED
          BY <5>1, <5>2
      <4>4. Coming' \subseteq OpenPositions \cup {p}
        BY <2>8, <2>9, <3>3 DEF Coming
      <4>5. \A S : S \subseteq OpenPositions \cup {p} =>
               Cardinality(S) \in Nat /\ Cardinality(S) <= Cardinality(OpenPositions \cup {p})
        BY <4>2, FewerComing
      <4>6. Cardinality(Coming') \in Nat /\ Cardinality(Coming') <= Cardinality(OpenPositions \cup {p})
        BY <4>4, <4>5
      <4> QED
        BY <4>1, <4>3, <4>6, Numbers
    <3> QED
      BY <3>1, <3>2, <3>3
  <2>11. (\A q \in Pair : pos[q] # 0 => q \in tracked)'
    BY <1>1, <2>1 DEF Slots
  <2>12. (\A q \in Pair : q \notin tracked /\ coins[q] > 0 => q \in crowded \cup Bought)'
    <3>1. \A q \in Pair \ {p} : coins'[q] = coins[q]
      BY <1>1, <2>1 DEF TypeOK
    <3>2. crowded \subseteq crowded'
      BY <2>1
    <3> QED
      BY <1>1, <2>1, <2>8, <3>1, <3>2 DEF Slots
  <2>13. (\A q \in Pair : stage[q] = "verifying" /\ order[q].side = "sell" => pos[q] # 0)'
    BY <1>1, <2>1, <2>6 DEF Slots, OnlyAt
  <2>14. Slots'
    BY <2>10, <2>11, <2>12, <2>13 DEF Slots
  <2> QED
    BY <2>5, <2>7, <2>14 DEF IInv
<1> QED
  BY <1>2, <1>3
\* From the proposal to the order a buy is cut, checked, gated and scaled.
LEMMA BuyKeeps ==
    ASSUME IInv, NEW p \in Pair, NEW a \in Amount, NEW m \in MaxPosition, NEW v \in Viable,
           NEW k \in CaMult, Buy(p, a, m, v, k)
    PROVE  IInv'
<1>1. TypeOK /\ Sizes /\ Slots
  BY DEF IInv
<1>2. /\ a \in Nat /\ m \in Nat /\ v \in Nat /\ k \in Nat /\ k <= Largest /\ Smallest <= k
      /\ ApprovalAbove \in Nat /\ Largest \in Nat /\ Smallest \in Nat
  BY Numbers DEF Largest, Smallest
<1> DEFINE cash == seen[p]
           clamped == Clamped(a, cash)
           sized == Sized(clamped, m)
<1>3. stage[p] = "asking" /\ FreeSlot /\ Allowed(clamped, cash) /\ UNCHANGED ledger
  BY DEF Buy
<1>4. cash \in Nat /\ RuleCap(cash) \in Nat
  BY <1>1, RuleCapNat DEF TypeOK
<1>5. clamped \in Nat
  BY <1>2, <1>4, Cuts
<1>6. sized \in Nat /\ sized <= clamped
  BY <1>2, <1>4, <1>5, Cuts
<1>7. PICK way \in Gated(sized, Asks(clamped), v, cash) :
         IF way.asks
         THEN /\ GoesTo(p, "queued")
              /\ order' = [order EXCEPT ![p] = way.order]
              /\ UNCHANGED <<seen, account, crowded>>
         ELSE PlaceBuy(p, Scaled(way.order, k))
  BY DEF Buy
<1>8. clamped <= RuleCap(cash)
  BY <1>3 DEF Allowed
<1> HIDE DEF clamped, sized
<1>9. Asks(clamped) \in BOOLEAN /\ (~Asks(clamped) => clamped <= ApprovalAbove)
  BY <1>2, <1>5 DEF Asks
<1>10. sized <= RuleCap(cash) /\ (~Asks(clamped) => sized <= ApprovalAbove)
  BY <1>2, <1>4, <1>5, <1>6, <1>8, <1>9
<1>11. /\ way.order \in Order /\ way.order.side = "buy" /\ ~way.order.approved
       /\ way.order.viable = v
       /\ way.order.amount <= RuleCap(cash)
       /\ ~way.asks => way.order.amount <= ApprovalAbove
       /\ way.order.amount >= v \/ way.order.blocked
  <2> DEFINE asks == Asks(clamped)
  <2>1. asks \in BOOLEAN /\ (~asks => sized <= ApprovalAbove)
    BY <1>9, <1>10
  <2>2. way \in Gated(sized, asks, v, cash)
    OBVIOUS
  <2> HIDE DEF asks, cash
  <2> QED
    BY <1>2, <1>4, <1>6, <1>10, <2>1, <2>2, GatedOrders
<1>12. CASE way.asks
  <2>1. /\ stage' = [stage EXCEPT ![p] = "queued"]
        /\ order' = [order EXCEPT ![p] = way.order]
        /\ UNCHANGED <<seen, pos, tracked, liveCash, spent, money, coins, placed, crowded>>
    BY <1>3, <1>7, <1>12 DEF GoesTo, ledger, account
  <2>2. stage' \in [Pair -> Stage] /\ order' \in [Pair -> Order]
    BY <1>1, <1>11, <2>1 DEF TypeOK, Stage
  <2>3. TypeOK'
    BY <1>1, <2>1, <2>2 DEF TypeOK
  <2>4. stage'[p] = "queued" /\ order'[p] = way.order /\ seen'[p] = cash /\ OnlyAt(p)
    BY <1>1, <2>1 DEF TypeOK, OnlyAt
  <2>5. Sizes'
    <3>1. SoundAt("queued", way.order, cash)
      BY <1>11 DEF SoundAt
    <3> QED
      BY <1>1, <2>4, <3>1, SizesElsewhere
  <2>6. Bought' = Bought
    <3>1. p \notin Bought /\ p \notin Bought'
      BY <1>3, <2>4 DEF Bought
    <3>2. Bought \subseteq Pair /\ Bought' \subseteq Pair
      BY DEF Bought
    <3> QED
      BY <2>4, <3>1, <3>2, BoughtElsewhere
  <2>7. Coming' = Coming
    BY <2>1, <2>6 DEF Coming, OpenPositions
  <2>8. \A q \in Pair : stage'[q] = "verifying" => stage[q] = "verifying" /\ order'[q] = order[q]
    BY <2>4 DEF OnlyAt
  <2>9. Slots'
    BY <1>1, <2>1, <2>6, <2>7, <2>8, NothingComes DEF Slots
  <2> QED
    BY <2>3, <2>5, <2>9 DEF IInv
<1>13. CASE ~way.asks
  <2> DEFINE o == Scaled(way.order, k)
  <2>1. way.order.amount \in Nat
    BY <1>11 DEF Order
  <2>2. Pct(k, way.order.amount) \in Nat
    BY <1>2, <2>1, PctNat
  <2>3. /\ o \in Order /\ o.side = "buy" /\ o.viable = v
        /\ o.amount = Pct(k, way.order.amount) /\ o.blocked = way.order.blocked
    BY <1>11, <2>2 DEF Scaled, Order
  <2>4. /\ Pct(k, way.order.amount) <= Pct(Largest, RuleCap(cash))
        /\ Pct(k, way.order.amount) <= Pct(Largest, ApprovalAbove)
    BY <1>2, <1>4, <1>11, <1>13, <2>1, PctGrows
  <2>5. way.order.amount >= v => Pct(k, way.order.amount) >= Pct(Smallest, v)
    <3>1. ASSUME v <= way.order.amount
          PROVE  Pct(Smallest, v) <= Pct(k, way.order.amount)
                 /\ Pct(Smallest, v) \in Nat
      BY <1>2, <2>1, <3>1, PctGrows
    <3> QED
      BY <1>2, <2>1, <2>2, <3>1
  <2>6. SoundAt("verifying", o, cash)
    BY <1>11, <2>3, <2>4, <2>5 DEF SoundAt
  <2>7. PlaceBuy(p, o)
    BY <1>7, <1>13
  <2> HIDE DEF o
  <2> QED
    BY <1>3, <2>3, <2>6, <2>7, PlaceBuyKeeps
<1> QED
  BY <1>12, <1>13

\* An approved buy is ordered as it was queued.
LEMMA ApproveKeeps ==
    ASSUME IInv, NEW p \in Pair, Approve(p)
    PROVE  IInv'
<1> DEFINE o == [order[p] EXCEPT !.approved = TRUE]
<1>1. TypeOK /\ Sizes /\ stage[p] = "queued" /\ PlaceBuy(p, o) /\ UNCHANGED ledger
  BY DEF IInv, Approve
<1>2. SoundAt("queued", order[p], seen[p]) /\ order[p] \in Order /\ seen[p] \in Nat
  BY <1>1 DEF Sizes, TypeOK
<1>3. /\ o \in Order /\ o.side = "buy" /\ o.approved /\ o.amount = order[p].amount
      /\ o.viable = order[p].viable /\ o.blocked = order[p].blocked
  BY <1>2 DEF SoundAt, Order
<1>4. o.amount \in Nat /\ o.viable \in Nat /\ RuleCap(seen[p]) \in Nat
  BY <1>2, <1>3, RuleCapNat DEF Order
<1>5. /\ o.amount <= RuleCap(seen[p])
      /\ o.amount >= o.viable \/ o.blocked
  BY <1>2, <1>3 DEF SoundAt
<1>6. /\ Pct(100, RuleCap(seen[p])) = RuleCap(seen[p])
      /\ Pct(100, RuleCap(seen[p])) <= Pct(Largest, RuleCap(seen[p]))
      /\ Pct(Largest, RuleCap(seen[p])) \in Nat
  BY <1>4, PctWhole, PctGrows DEF Largest
<1>7. /\ Pct(100, o.viable) = o.viable
      /\ Pct(Smallest, o.viable) <= Pct(100, o.viable)
      /\ Pct(Smallest, o.viable) \in Nat
  BY <1>4, PctWhole, PctGrows DEF Smallest
<1> HIDE DEF o
<1>8. SoundAt("verifying", o, seen[p])
  <2>1. o.amount <= Pct(Largest, RuleCap(seen[p]))
    BY <1>4, <1>5, <1>6
  <2>2. o.amount >= Pct(Smallest, o.viable) \/ o.blocked
    BY <1>4, <1>5, <1>7
  <2> QED
    BY <1>3, <2>1, <2>2 DEF SoundAt
<1> QED
  BY <1>1, <1>3, <1>8, PlaceBuyKeeps
\* A sell is of a position the ledger knows, and adds none.
LEMMA SellKeeps ==
    ASSUME IInv, NEW p \in Pair, NEW h \in Share, NEW k \in CaMult, Sell(p, h, k)
    PROVE  IInv'
<1> DEFINE n == Pct(k, Pct(h, pos[p]))
<1>1. TypeOK /\ Sizes /\ Slots
  BY DEF IInv
<1>2. stage[p] = "asking" /\ pos[p] > 0 /\ pos[p] \in Nat
  BY <1>1 DEF Sell, TypeOK
<1>3. n \in Nat
  <2>1. h \in Nat /\ k \in Nat
    BY Numbers
  <2>2. Pct(h, pos[p]) \in Nat
    BY <1>2, <2>1, PctNat
  <2> QED
    BY <2>1, <2>2, PctNat
<1>4. CASE ~(n <= coins[p])
  BY <1>2, <1>4, DropKeeps DEF Sell
<1>5. CASE n <= coins[p]
  <2> DEFINE o == [NoOrder EXCEPT !.side = "sell", !.amount = n]
  <2>1. /\ placed < MaxOrders /\ placed' = placed + 1
        /\ stage' = [stage EXCEPT ![p] = "verifying"]
        /\ order' = [order EXCEPT ![p] = o]
        /\ money' = money + n
        /\ coins' = [coins EXCEPT ![p] = @ - n]
        /\ UNCHANGED <<seen, pos, tracked, liveCash, spent, crowded>>
    BY <1>5 DEF Sell, GoesTo, ledger
  <2>2. o \in Order /\ o.side = "sell"
    BY <1>3 DEF Order, NoOrder
  <2> HIDE DEF o, n
  <2>3. stage' \in [Pair -> Stage] /\ order' \in [Pair -> Order]
    BY <1>1, <2>1, <2>2 DEF TypeOK, Stage
  <2>4. money' \in Nat /\ coins' \in [Pair -> Nat] /\ placed' \in 0..MaxOrders
    BY <1>1, <1>3, <1>5, <2>1, Numbers DEF TypeOK
  <2>5. TypeOK'
    BY <1>1, <2>1, <2>3, <2>4 DEF TypeOK
  <2>6. stage'[p] = "verifying" /\ order'[p] = o /\ OnlyAt(p)
    BY <1>1, <2>1 DEF TypeOK, OnlyAt
  <2>7. Sizes'
    BY <1>1, <2>2, <2>6, SizesElsewhere DEF SoundAt
  <2>8. Bought' = Bought
    <3>1. p \notin Bought /\ p \notin Bought'
      BY <1>2, <2>2, <2>6 DEF Bought
    <3>2. Bought \subseteq Pair /\ Bought' \subseteq Pair
      BY DEF Bought
    <3> QED
      BY <2>6, <3>1, <3>2, BoughtElsewhere
  <2>9. Coming' = Coming
    BY <2>1, <2>8 DEF Coming, OpenPositions
  <2>10. p \in tracked /\ \A q \in Pair \ {p} : coins'[q] = coins[q]
    BY <1>1, <1>2, <2>1 DEF Slots, TypeOK
  <2>11. (\A q \in Pair : q \notin tracked /\ coins[q] > 0 => q \in crowded \cup Bought)'
    BY <1>1, <2>1, <2>8, <2>10 DEF Slots
  <2>12. (\A q \in Pair : stage[q] = "verifying" /\ order[q].side = "sell" => pos[q] # 0)'
    BY <1>1, <1>2, <2>1, <2>6 DEF Slots, OnlyAt
  <2>13. (\A q \in Pair : pos[q] # 0 => q \in tracked)'
    BY <1>1, <2>1 DEF Slots
  <2>14. Slots'
    BY <1>1, <2>9, <2>11, <2>12, <2>13, NothingComes DEF Slots
  <2> QED
    BY <2>5, <2>7, <2>14 DEF IInv
<1> QED
  BY <1>4, <1>5

\* What was coming is recorded: the position was counted before.
LEMMA RecordKeeps ==
    ASSUME IInv, NEW p \in Pair, Record(p)
    PROVE  IInv'
<1> DEFINE held == IF order[p].side = "buy" THEN pos[p] + order[p].amount
                   ELSE pos[p] - order[p].amount
<1>1. TypeOK /\ Sizes /\ Slots
  BY DEF IInv
<1>2. /\ stage[p] = "verifying" /\ Ends(p)
      /\ pos' = [pos EXCEPT ![p] = held]
      /\ tracked' = tracked \cup {p}
      /\ spent' = IF order[p].side = "buy" THEN spent + order[p].amount ELSE spent
      /\ crowded' = IF held = 0 THEN crowded \ {p} ELSE crowded
      /\ UNCHANGED <<liveCash, money, coins, placed>>
  BY DEF Record, account
<1>3. /\ stage' \in [Pair -> Stage] /\ seen' \in [Pair -> Nat] /\ order' \in [Pair -> Order]
      /\ stage'[p] = "idle" /\ OnlyAt(p) /\ p \notin Bought'
      /\ SoundAt(stage'[p], order'[p], seen'[p])
  BY <1>1, <1>2, EndsFacts
<1>4. order[p].amount \in Nat /\ order[p].side \in {"buy", "sell"} /\ pos[p] \in Int
  BY <1>1 DEF TypeOK, Order
<1>5. held \in Int
  BY <1>4
<1> HIDE DEF held
<1>6. pos' \in [Pair -> Int] /\ pos'[p] = held /\ \A q \in Pair \ {p} : pos'[q] = pos[q]
  BY <1>1, <1>2, <1>5 DEF TypeOK
<1>7. spent' \in Nat /\ crowded' \subseteq crowded /\ crowded \ {p} \subseteq crowded'
  BY <1>1, <1>2, <1>4 DEF TypeOK
<1>8. TypeOK'
  BY <1>1, <1>2, <1>3, <1>6, <1>7 DEF TypeOK
<1>9. Sizes'
  BY <1>1, <1>3, SizesElsewhere
<1>10. p \in OpenPositions \cup Bought
  <2>1. CASE order[p].side = "buy"
    BY <1>2, <2>1 DEF Bought
  <2>2. CASE order[p].side = "sell"
    BY <1>1, <1>2, <2>2 DEF Slots, OpenPositions
  <2> QED
    BY <1>4, <2>1, <2>2
<1>11. \A q \in Pair \ {p} : /\ q \in Bought' <=> q \in Bought
                             /\ q \in OpenPositions' <=> q \in OpenPositions
                             /\ q \in crowded' <=> q \in crowded
  BY <1>3, <1>6, <1>7, BoughtElsewhere DEF OpenPositions
<1>12. p \in Coming' => p \in Coming
  <2>1. p \in Coming' => p \in OpenPositions' /\ p \notin crowded'
    BY <1>3 DEF Coming
  <2>2. p \in OpenPositions' => held # 0
    BY <1>6 DEF OpenPositions
  <2>3. held # 0 => crowded' = crowded
    BY <1>2
  <2> QED
    BY <1>10, <2>1, <2>2, <2>3 DEF Coming
<1>13. Coming' \subseteq Coming
  <2>1. Coming \subseteq Pair /\ Coming' \subseteq Pair
    BY DEF Coming, OpenPositions, Bought
  <2>2. \A q \in Pair \ {p} : q \in Coming' => q \in Coming
    BY <1>11 DEF Coming
  <2> QED
    BY <1>12, <2>1, <2>2
<1>14. (\A q \in Pair : pos[q] # 0 => q \in tracked)'
  BY <1>1, <1>2, <1>6 DEF Slots
<1>15. (\A q \in Pair : q \notin tracked /\ coins[q] > 0 => q \in crowded \cup Bought)'
  BY <1>1, <1>2, <1>11 DEF Slots
<1>16. (\A q \in Pair : stage[q] = "verifying" /\ order[q].side = "sell" => pos[q] # 0)'
  BY <1>1, <1>3, <1>6 DEF Slots, OnlyAt
<1>17. Slots'
  BY <1>1, <1>13, <1>14, <1>15, <1>16, NothingComes DEF Slots
<1> QED
  BY <1>8, <1>9, <1>17 DEF IInv

\* The deadline leaves coins behind that are not in the ledger: exempt.
LEMMA DeadlineKeeps ==
    ASSUME IInv, NEW p \in Pair, Deadline(p)
    PROVE  IInv'
<1>1. TypeOK /\ Sizes /\ Slots
  BY DEF IInv
<1>2. /\ stage[p] = "verifying" /\ Ends(p)
      /\ crowded' = IF order[p].side = "buy" /\ pos[p] = 0 THEN crowded \cup {p} ELSE crowded
      /\ UNCHANGED <<pos, tracked, liveCash, spent, money, coins, placed>>
  BY DEF Deadline, ledger, account
<1>3. /\ stage' \in [Pair -> Stage] /\ seen' \in [Pair -> Nat] /\ order' \in [Pair -> Order]
      /\ stage'[p] = "idle" /\ OnlyAt(p) /\ p \notin Bought'
      /\ SoundAt(stage'[p], order'[p], seen'[p])
  BY <1>1, <1>2, EndsFacts
<1>4. TypeOK'
  BY <1>1, <1>2, <1>3 DEF TypeOK
<1>5. Sizes'
  BY <1>1, <1>3, SizesElsewhere
<1>6. Bought' \subseteq Bought /\ Bought \ {p} \subseteq Bought' /\ crowded \subseteq crowded'
  <2>1. Bought \subseteq Pair /\ Bought' \subseteq Pair
    BY DEF Bought
  <2> QED
    BY <1>2, <1>3, <2>1, BoughtElsewhere
<1>7. Coming' \subseteq Coming
  BY <1>2, <1>6 DEF Coming, OpenPositions
<1>8. p \in Bought => p \in crowded' \/ p \in tracked
  BY <1>1, <1>2 DEF Bought, Slots
<1>9. (\A q \in Pair : q \notin tracked /\ coins[q] > 0 => q \in crowded \cup Bought)'
  <2> SUFFICES ASSUME NEW q \in Pair, q \notin tracked', coins'[q] > 0
               PROVE  q \in crowded' \cup Bought'
    OBVIOUS
  <2>1. q \in crowded \cup Bought
    BY <1>1, <1>2 DEF Slots
  <2> QED
    BY <1>2, <1>6, <1>8, <2>1
<1>10. (\A q \in Pair : stage[q] = "verifying" /\ order[q].side = "sell" => pos[q] # 0)'
  BY <1>1, <1>2, <1>3 DEF Slots, OnlyAt
<1>11. (\A q \in Pair : pos[q] # 0 => q \in tracked)'
  BY <1>1, <1>2 DEF Slots
<1>12. Slots'
  BY <1>1, <1>7, <1>9, <1>10, <1>11, NothingComes DEF Slots
<1> QED
  BY <1>4, <1>5, <1>12 DEF IInv

-----------------------------------------------------------------------------
(* The theorems *)

\* At the start there are no orders and no positions.
LEMMA InitInv == Init => IInv
<1> SUFFICES ASSUME Init PROVE IInv
  OBVIOUS
<1>1. NoOrder \in Order /\ "idle" \in Stage
  BY DEF NoOrder, Order, Stage
<1>2. TypeOK
  BY <1>1, Numbers DEF Init, TypeOK
<1>3. Sizes
  BY DEF Init, Sizes, SoundAt
<1>4. Coming = {}
  BY DEF Init, Coming, OpenPositions, Bought
<1>5. Cardinality({}) = 0
  BY FS_EmptySet
<1>6. Slots
  BY <1>4, <1>5, Numbers DEF Init, Slots
<1> QED
  BY <1>2, <1>3, <1>6 DEF IInv

\* Every step of the pipelines, the owner and the clock keeps the invariant.
LEMMA StepInv == IInv /\ [Next]_vars => IInv'
  BY StartKeeps, RefreshKeeps, GiveUpKeeps, BuyKeeps, SellKeeps, RecordKeeps, DeadlineKeeps,
     ApproveKeeps, MidnightKeeps, StutterKeeps DEF Next

\* The invariant holds in every reachable state.
LEMMA Invariant == Spec => []IInv
  BY InitInv, StepInv, PTL DEF Spec

\* Every reachable state of the pipelines is well typed: no order takes the
\* account's cash or coins below zero.
THEOREM TypeCorrect == Spec => []TypeOK
<1>1. IInv => TypeOK
  BY DEF IInv
<1> QED
  BY <1>1, Invariant, PTL

\* max_open_positions of core/managers/pipeline_manager.py is kept by concurrent
\* pipelines, but for the three kinds of order named at the property.
THEOREM MaxOpenKept == Spec => []MaxOpenHolds
<1>1. IInv => MaxOpenHolds
  <2>1. OpenPositions \ crowded \subseteq Coming /\ Coming \subseteq Pair
    BY DEF Coming, OpenPositions, Bought
  <2>2. /\ Cardinality(OpenPositions \ crowded) <= Cardinality(Coming)
        /\ Cardinality(OpenPositions \ crowded) \in Nat /\ Cardinality(Coming) \in Nat
    BY <2>1, FewerComing
  <2> QED
    BY <2>2, Numbers DEF IInv, Slots, MaxOpenHolds
<1> QED
  BY <1>1, Invariant, PTL

\* No buy passes the rules' cap or the approval threshold by more than the
\* executor's multiplier.
THEOREM LimitsKept == Spec => []LimitsButForMultiplier
<1>1. IInv => LimitsButForMultiplier
  BY DEF IInv, Sizes, SoundAt, LimitsButForMultiplier, Bought
<1> QED
  BY <1>1, Invariant, PTL

\* The fee gate lets no buy through that is not worth its fees, but for the
\* refused bump and the multiplier.
THEOREM FeesBeaten == Spec => []OrdersBeatFees
<1>1. IInv => OrdersBeatFees
  BY DEF IInv, Sizes, SoundAt, OrdersBeatFees, Bought
<1> QED
  BY <1>1, Invariant, PTL
=============================================================================
