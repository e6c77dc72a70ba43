-------------------------- MODULE ExitEngine_proofs --------------------------
(***************************************************************************)
(* Every bought position keeps its trailing stop, and that stop never lies *)
(* below the position's stop-loss, for any number of trades, any pairs,    *)
(* prices, percentages and failure limit.  Stops are kept by pair and      *)
(* trades by number, so the invariant must say what joins the two: the     *)
(* owner of a stop exists (Known), a stop that belongs to an open trade    *)
(* has that trade's basis (Covered), and a resting order is watched like   *)
(* a filled one (Watched).  The second part is about quantities: what a    *)
(* trade holds against the tiers of its stop (Tiered), and what a pair's   *)
(* trades hold together against the balance of its coins.                  *)
(***************************************************************************)
EXTENDS ExitEngine, FiniteSetTheorems, WellFoundedInduction, TLAPS

Open(t) == trades[t].st \in {"pending", "filled"}

Watched == \A t \in Trade : Open(t) => Owns(t) \/ t \in abandoned

Known == \A t \in Trade, p \in Pair :
            HasStop(p) /\ stops[p].for = t => trades[t].st # "none"

Covered == \A t \in Trade : Open(t) /\ Owns(t) =>
              /\ stops[trades[t].pair].entry = trades[t].basis
              /\ stops[trades[t].pair].at >= StopLoss(t)

Guarded == Watched /\ Known /\ Covered

IInv == TypeOK /\ Guarded

-----------------------------------------------------------------------------
(* Types of the operators *)

\* The levels computed from a price are natural numbers in the right order.
LEMMA Levels ==
    ASSUME NEW x \in Price
    PROVE  /\ x \in Nat
           /\ x * (100 - TrailPct) \in Nat
           /\ x * (100 - StopLossPct) \in Nat
           /\ 100 * x \in Nat
           /\ x * (100 - StopLossPct) <= 100 * x
<1>1. x \in Nat /\ TrailPct \in 1..99 /\ StopLossPct \in 1..99
  BY ExitAssumption DEF ExitAssumption
<1>2. PICK a \in 1..99 : a = 100 - StopLossPct
  BY <1>1
<1>3. PICK b \in 1..99 : b = 100 - TrailPct
  BY <1>1
<1>4. x * a \in Nat /\ x * b \in Nat /\ 100 * x \in Nat /\ x * a <= 100 * x
  BY <1>1
<1> QED
  BY <1>1, <1>2, <1>3, <1>4

LEMMA NoStopIsNone == NoStop \notin Stop
BY DEF NoStop, Stop

\* A new stop is a stop.
LEMMA NewStopType ==
    ASSUME NEW owner \in Trade \cup {External}, NEW entry \in Price, NEW at \in Nat
    PROVE  /\ NewStop(owner, entry, at) \in Stop
           /\ NewStop(owner, entry, at) # NoStop
           /\ NewStop(owner, entry, at).for = owner
           /\ NewStop(owner, entry, at).entry = entry
           /\ NewStop(owner, entry, at).at = at
<1>1. NewStop(owner, entry, at) \in Stop
  BY DEF NewStop, Stop
<1> QED
  BY <1>1, NoStopIsNone DEF NewStop

\* A price update keeps a stop's owner and entry and never lowers it.
LEMMA UpdateKeeps ==
    ASSUME NEW s \in Stop, NEW x \in Price
    PROVE  /\ Update(s, x) \in Stop
           /\ Update(s, x).for = s.for /\ Update(s, x).entry = s.entry
           /\ Update(s, x).at >= s.at
<1> DEFINE c == CheckTiers(s, x)
<1>1. c \in Stop /\ c.for = s.for /\ c.entry = s.entry /\ c.at = s.at
  BY DEF CheckTiers, TiersAt, Stop
<1>2. x * (100 - TrailPct) \in Nat
  BY Levels
<1> DEFINE raised == IF x > c.high
                     THEN [c EXCEPT !.high = x,
                                    !.at = IF x * (100 - TrailPct) > @
                                           THEN x * (100 - TrailPct) ELSE @]
                     ELSE c
<1>3. raised \in Stop /\ raised.for = s.for /\ raised.entry = s.entry /\ raised.at >= s.at
  <2> DEFINE new == x * (100 - TrailPct)
             at == IF new > c.at THEN new ELSE c.at
  <2>1. at \in Nat /\ at >= c.at
    <3> HIDE DEF c
    <3> QED BY <1>1, <1>2 DEF Stop
  <2>2. CASE x > c.high
    <3>1. raised = [c EXCEPT !.high = x, !.at = at]
      BY <2>2, Zenon
    <3> QED
      <4> HIDE DEF raised, at, c
      <4> QED BY <1>1, <2>1, <3>1 DEF Stop
  <2>3. CASE ~(x > c.high)
    <3>1. raised = c
      BY <2>3, Zenon
    <3> QED
      <4> HIDE DEF raised, c
      <4> QED BY <1>1, <3>1 DEF Stop
  <2> QED
    BY <2>2, <2>3
<1>4. Trail(c, x) = [raised EXCEPT !.fired = ~c.early /\ 100 * x <= raised.at]
  BY Zenon DEF Trail
<1>5. (~c.early /\ 100 * x <= raised.at) \in BOOLEAN
  OBVIOUS
<1>6. /\ Trail(c, x) \in Stop /\ Trail(c, x).for = s.for
      /\ Trail(c, x).entry = s.entry /\ Trail(c, x).at >= s.at
  <2> HIDE DEF raised, c
  <2> QED BY <1>3, <1>4, <1>5 DEF Stop
<1>7. CASE s.fired
  <2>1. Update(s, x) = s
    BY <1>7 DEF Update
  <2> QED
    BY <2>1 DEF Stop
<1>8. CASE ~s.fired
  <2>1. Update(s, x) = Trail(c, x)
    BY <1>8 DEF Update
  <2> QED
    BY <1>6, <2>1
<1> QED
  BY <1>7, <1>8

\* The blank record and a trade that is over are positions.
LEMMA OverType ==
    ASSUME NEW tr \in Position, NEW st \in {"ended", "closed"}
    PROVE  Over(tr, st) \in Position /\ Over(tr, st).st = st
<1>1. Unused \in Position
  BY ExitAssumption DEF Unused, Position, ExitAssumption
<1> QED
  BY <1>1 DEF Over, Position

-----------------------------------------------------------------------------
(* What a step between two passes or within one does to what is guarded *)

\* A trade that is open after the step was open before, with the same data.
Carried(t) ==
    /\ trades[t].st # "none" => trades'[t].st # "none"
    /\ Open(t)' => /\ Open(t)
                   /\ trades'[t].pair = trades[t].pair
                   /\ trades'[t].basis = trades[t].basis

\* A stop goes, or stays with its owner and entry and is not lowered, except
\* to its entry.
Continued(p) ==
    \/ stops'[p] = NoStop
    \/ /\ HasStop(p) /\ HasStop(p)'
       /\ stops'[p].for = stops[p].for
       /\ stops'[p].entry = stops[p].entry
       /\ \/ stops'[p].at >= stops[p].at
          \/ stops'[p].at = 100 * stops[p].entry

\* An open trade whose stop goes is marked as abandoned.
Mourned(t) ==
    /\ t \in abandoned => t \in abandoned'
    /\ Open(t)' /\ Owns(t) /\ stops'[trades[t].pair] = NoStop => t \in abandoned'

LEMMA StopFields ==
    ASSUME TypeOK, NEW p \in Pair, HasStop(p)
    PROVE  /\ stops[p] \in Stop
           /\ stops[p].for \in Trade \cup {External} /\ stops[p].entry \in Price
           /\ stops[p].at \in Nat
BY DEF TypeOK, HasStop, Stop

LEMMA TradeFields ==
    ASSUME TypeOK, NEW t \in Trade
    PROVE  /\ trades[t] \in Position
           /\ trades[t].pair \in Pair /\ trades[t].entry \in Price /\ trades[t].held \in Nat
           /\ trades[t].basis \in Price
           /\ StopLoss(t) \in Nat /\ StopLoss(t) <= 100 * trades[t].basis
<1>1. /\ trades[t] \in Position
      /\ trades[t].pair \in Pair /\ trades[t].entry \in Price /\ trades[t].held \in Nat
      /\ trades[t].basis \in Price
  BY DEF TypeOK, Position
<1> QED
  BY <1>1, Levels DEF StopLoss

\* A step of this kind keeps what is guarded.
LEMMA GuardKept ==
    ASSUME TypeOK, TypeOK', Guarded,
           \A t \in Trade : Carried(t) /\ Mourned(t),
           \A p \in Pair : Continued(p)
    PROVE  Guarded'
<1>1. Watched'
  <2> SUFFICES ASSUME NEW t \in Trade, Open(t)'
               PROVE  Owns(t)' \/ t \in abandoned'
    BY DEF Watched
  <2>1. /\ Open(t) /\ trades'[t].pair = trades[t].pair /\ trades[t].pair \in Pair
    BY TradeFields DEF Carried
  <2>2. Owns(t) \/ t \in abandoned
    BY <2>1 DEF Guarded, Watched
  <2>3. CASE t \in abandoned
    BY <2>3 DEF Mourned
  <2>4. CASE Owns(t) /\ stops'[trades[t].pair] = NoStop
    BY <2>4 DEF Mourned
  <2>5. CASE Owns(t) /\ stops'[trades[t].pair] # NoStop
    BY <2>1, <2>5 DEF Owns, HasStop, Continued
  <2> QED
    BY <2>2, <2>3, <2>4, <2>5
<1>2. Known'
  <2> SUFFICES ASSUME NEW t \in Trade, NEW p \in Pair, HasStop(p)', stops'[p].for = t
               PROVE  trades'[t].st # "none"
    BY DEF Known
  <2>1. HasStop(p) /\ stops[p].for = t
    BY DEF Continued, HasStop
  <2> QED
    BY <2>1 DEF Guarded, Known, Carried
<1>3. Covered'
  <2> SUFFICES ASSUME NEW t \in Trade, Open(t)', Owns(t)'
               PROVE  /\ stops'[trades'[t].pair].entry = trades'[t].basis
                      /\ stops'[trades'[t].pair].at >= StopLoss(t)'
    BY DEF Covered
  <2>1. /\ Open(t) /\ trades'[t].pair = trades[t].pair /\ trades[t].pair \in Pair
        /\ trades'[t].basis = trades[t].basis
    BY TradeFields DEF Carried
  <2> DEFINE p == trades[t].pair
  <2>2. HasStop(p)' /\ stops'[p].for = t
    BY <2>1 DEF Owns, HasStop
  <2>3. /\ HasStop(p) /\ stops[p].for = t
        /\ stops'[p].entry = stops[p].entry
        /\ stops'[p].at >= stops[p].at \/ stops'[p].at = 100 * stops[p].entry
    BY <2>1, <2>2 DEF Continued, HasStop
  <2>4. stops[p].entry = trades[t].basis /\ stops[p].at >= StopLoss(t)
    BY <2>1, <2>3 DEF Guarded, Covered, Owns
  <2>5. StopLoss(t)' = StopLoss(t)
    BY <2>1 DEF StopLoss
  <2>6. /\ stops'[p].at \in Nat /\ stops[p].at \in Nat
        /\ StopLoss(t) \in Nat /\ StopLoss(t) <= 100 * trades[t].basis
    BY <2>1, <2>2, <2>3, StopFields, TradeFields DEF TypeOK, HasStop, Stop
  <2>7. stops'[p].at >= StopLoss(t)
    BY <2>3, <2>4, <2>6
  <2> QED
    BY <2>1, <2>3, <2>4, <2>5, <2>7
<1> QED
  BY <1>1, <1>2, <1>3 DEF Guarded

-----------------------------------------------------------------------------
(* Parts of steps *)

\* Steps that leave the trades alone carry every one of them.
LEMMA CarriedUnchanged ==
    ASSUME UNCHANGED trades
    PROVE  \A t \in Trade : Carried(t)
BY DEF Carried, Open

\* A stop that stays as it is, or goes, is continued.
LEMMA ContinuedUnchanged ==
    ASSUME TypeOK, NEW p \in Pair, stops'[p] \in {stops[p], NoStop}
    PROVE  Continued(p)
<1>1. CASE stops'[p] = NoStop
  BY <1>1 DEF Continued
<1>2. CASE stops'[p] # NoStop
  <2>1. stops'[p] = stops[p] /\ HasStop(p) /\ HasStop(p)'
    BY <1>2 DEF HasStop
  <2>2. stops[p].at >= stops[p].at
    BY <2>1, StopFields
  <2> QED
    BY <2>1, <2>2 DEF Continued
<1> QED
  BY <1>1, <1>2

\* With the stops as they were nobody is to be mourned.
LEMMA MournedUnchanged ==
    ASSUME UNCHANGED stops, abandoned \subseteq abandoned',
           \A t \in Trade : Carried(t)
    PROVE  \A t \in Trade : Mourned(t)
BY DEF Mourned, Carried, Owns, HasStop

\* What ClosePosition does to trades, balances and loss records.
LEMMA ClosePositionKeeps ==
    ASSUME TypeOK, NEW t \in Trade, trades[t].st = "filled",
           NEW sold \in BOOLEAN, NEW records \in Nat, ClosePosition(t, sold, records)
    PROVE  /\ trades' \in [Trade -> Position]
           /\ coins' \in [Pair -> Nat]
           /\ lossRecords' \in [Trade -> Nat]
           /\ \A u \in Trade : Carried(u)
           /\ Closes(t, sold) => ~Open(t)'
<1>1. trades[t] \in Position /\ trades[t].pair \in Pair /\ trades[t].held \in Nat
  BY TradeFields
<1> DEFINE p == trades[t].pair
           qty == Capped(p, trades[t].held)
<1>2. coins[p] \in Nat /\ qty \in Nat /\ coins[p] - qty \in Nat
  BY <1>1 DEF TypeOK, Capped
<1>3. CASE Closes(t, sold)
  <2>1. trades' = [trades EXCEPT ![t] = Over(trades[t], "closed")]
    BY <1>3 DEF ClosePosition
  <2>2. coins' = [coins EXCEPT ![p] = @ - qty]
    BY <1>3 DEF ClosePosition
  <2>3. \/ lossRecords' = [lossRecords EXCEPT ![t] = @ + records]
        \/ lossRecords' = lossRecords
    BY <1>3, Zenon DEF ClosePosition
  <2>4. Over(trades[t], "closed") \in Position /\ Over(trades[t], "closed").st = "closed"
    BY <1>1, OverType
  <2>5. trades' \in [Trade -> Position] /\ trades'[t].st = "closed"
    BY <2>1, <2>4 DEF TypeOK
  <2>6. coins' \in [Pair -> Nat]
    BY <1>1, <1>2, <2>2 DEF TypeOK
  <2>7. lossRecords' \in [Trade -> Nat]
    BY <2>3 DEF TypeOK
  <2>8. \A u \in Trade : Carried(u)
    BY <2>1, <2>5 DEF Carried, Open, TypeOK
  <2> QED
    BY <2>5, <2>6, <2>7, <2>8 DEF Open
<1>4. CASE ~Closes(t, sold)
  <2>1. UNCHANGED <<trades, coins, lossRecords>>
    BY <1>4 DEF ClosePosition
  <2> QED
    BY <1>4, <2>1, CarriedUnchanged DEF TypeOK
<1> QED
  BY <1>3, <1>4

\* What RemoveStop does to stops and mourning, when the trade that goes with
\* the stop is not open any more.
LEMMA RemoveStopKeeps ==
    ASSUME TypeOK, NEW p \in Pair, NEW closed \in Trade \cup {External},
           RemoveStop(p, closed),
           \A t \in Trade : Carried(t),
           closed \in Trade => ~Open(closed)'
    PROVE  /\ stops' \in [Pair -> Stop \cup {NoStop}]
           /\ abandoned' \subseteq Trade
           /\ \A q \in Pair : Continued(q)
           /\ \A t \in Trade : Mourned(t)
<1>1. stops' = [stops EXCEPT ![p] = NoStop]
  BY DEF RemoveStop
<1>2. abandoned' = abandoned \cup
        {t \in Trade \ {closed} : HasStop(p) /\ stops[p].for = t
                                 /\ trades[t].st \in {"pending", "filled"}}
  BY DEF RemoveStop, Bereave
<1>3. stops' \in [Pair -> Stop \cup {NoStop}] /\ abandoned' \subseteq Trade
  BY <1>1, <1>2 DEF TypeOK
<1>4. ASSUME NEW q \in Pair PROVE Continued(q)
  <2>1. stops'[q] \in {stops[q], NoStop}
    BY <1>1 DEF TypeOK
  <2> QED
    BY <2>1, ContinuedUnchanged
<1>5. ASSUME NEW t \in Trade PROVE Mourned(t)
  <2>1. SUFFICES ASSUME Open(t)', Owns(t), stops'[trades[t].pair] = NoStop
                 PROVE  t \in abandoned'
    BY <1>2 DEF Mourned
  <2>2. trades[t].pair = p
    BY <1>1, <2>1, TradeFields DEF TypeOK, Owns, HasStop
  <2>3. t # closed /\ Open(t)
    BY <2>1 DEF Carried
  <2> QED
    BY <1>2, <2>1, <2>2, <2>3 DEF Owns, Open
<1> QED
  BY <1>3, <1>4, <1>5

-----------------------------------------------------------------------------
(* One lemma per action *)

LEMMA SettleStep ==
    ASSUME IInv, NEW t \in Trade, Settle(t)
    PROVE  IInv'
<1>1. trades[t] \in Position /\ trades[t].pair \in Pair
  BY TradeFields DEF IInv
<1>2. trades' \in [Trade -> Position] /\ coins' \in [Pair -> Nat] /\ \A u \in Trade : Carried(u)
  <2>1. CASE /\ trades' = [trades EXCEPT ![t].st = "filled", ![t].held = Quantity]
             /\ coins' = [coins EXCEPT ![trades[t].pair] = @ + Quantity]
    <3>1. Quantity \in Nat
      BY ExitAssumption DEF ExitAssumption
    <3> DEFINE tr == [trades[t] EXCEPT !.st = "filled", !.held = Quantity]
    <3>2. /\ tr \in Position /\ tr.st = "filled"
          /\ tr.pair = trades[t].pair /\ tr.basis = trades[t].basis
      BY <1>1, <3>1 DEF Position
    <3>3. trades' = [trades EXCEPT ![t] = tr]
      BY <2>1 DEF IInv, TypeOK
    <3>4. coins' \in [Pair -> Nat]
      BY <1>1, <2>1, <3>1 DEF IInv, TypeOK
    <3> HIDE DEF tr
    <3> QED
      BY <3>2, <3>3, <3>4 DEF IInv, TypeOK, Carried, Open, Settle
  <2>2. CASE trades' = [trades EXCEPT ![t] = Over(@, "ended")] /\ UNCHANGED coins
    <3>1. Over(trades[t], "ended") \in Position /\ Over(trades[t], "ended").st = "ended"
      BY <1>1, OverType
    <3> QED
      BY <2>2, <3>1 DEF IInv, TypeOK, Carried, Open
  <2> QED
    BY <2>1, <2>2 DEF Settle
<1>3. TypeOK'
  BY <1>2 DEF IInv, TypeOK, Settle, loopVars, ghostVars
<1>4. \A u \in Trade : Mourned(u)
  BY <1>2, MournedUnchanged DEF Settle, ghostVars
<1>5. \A p \in Pair : Continued(p)
  BY ContinuedUnchanged DEF IInv, Settle
<1> QED
  BY <1>2, <1>3, <1>4, <1>5, GuardKept DEF IInv

LEMMA TightenStep ==
    ASSUME IInv, NEW p \in Pair, TightenToBreakeven(p)
    PROVE  IInv'
<1>1. stops[p] \in Stop /\ stops[p].entry \in Price /\ HasStop(p)
  BY StopFields DEF IInv, TightenToBreakeven
<1>2. stops' = [stops EXCEPT ![p].at = 100 * stops[p].entry]
  BY DEF TightenToBreakeven
<1> DEFINE s == [stops[p] EXCEPT !.at = 100 * stops[p].entry]
<1>3. /\ s \in Stop /\ s.for = stops[p].for /\ s.entry = stops[p].entry
      /\ s.at = 100 * stops[p].entry
  BY <1>1, Levels DEF Stop
<1>4. stops' = [stops EXCEPT ![p] = s]
  BY <1>2 DEF IInv, TypeOK
<1>5. TypeOK'
  <2>1. stops' \in [Pair -> Stop \cup {NoStop}]
    <3> HIDE DEF s
    <3> QED BY <1>3, <1>4 DEF IInv, TypeOK
  <2> QED
    BY <2>1 DEF IInv, TypeOK, TightenToBreakeven, loopVars, ghostVars
<1>6. ASSUME NEW q \in Pair PROVE Continued(q)
  <2>1. CASE q = p
    <3>1. stops'[p] = s
      BY <1>4 DEF IInv, TypeOK
    <3> HIDE DEF s
    <3> QED
      BY <1>1, <1>3, <2>1, <3>1, NoStopIsNone DEF Continued, HasStop
  <2>2. CASE q # p
    BY <1>4, <2>2, ContinuedUnchanged DEF IInv, TypeOK
  <2> QED
    BY <2>1, <2>2
<1>7. ASSUME NEW t \in Trade PROVE Mourned(t)
  <2>1. \A q \in Pair : HasStop(q) => stops'[q] # NoStop
    <3> HIDE DEF s
    <3> QED BY <1>3, <1>4, NoStopIsNone DEF IInv, TypeOK, HasStop
  <2> QED
    BY <2>1, TradeFields DEF Mourned, Owns, IInv, TightenToBreakeven, ghostVars
<1>8. \A t \in Trade : Carried(t)
  BY CarriedUnchanged DEF TightenToBreakeven
<1> QED
  BY <1>5, <1>6, <1>7, <1>8, GuardKept DEF IInv

LEMMA EndMinHoldStep ==
    ASSUME IInv, NEW p \in Pair, EndMinHold(p)
    PROVE  IInv'
<1>1. stops[p] \in Stop /\ stops[p].at \in Nat /\ HasStop(p)
  BY StopFields DEF IInv, EndMinHold
<1> DEFINE s == [stops[p] EXCEPT !.early = FALSE]
<1>2. /\ s \in Stop /\ s.for = stops[p].for /\ s.entry = stops[p].entry
      /\ s.at >= stops[p].at
  <2>1. s \in Stop /\ s.for = stops[p].for /\ s.entry = stops[p].entry /\ s.at = stops[p].at
    BY <1>1 DEF Stop
  <2> QED
    BY <1>1, <2>1
<1>3. stops' = [stops EXCEPT ![p] = s]
  BY DEF EndMinHold, IInv, TypeOK
<1> HIDE DEF s
<1>4. TypeOK'
  BY <1>2, <1>3 DEF IInv, TypeOK, EndMinHold, loopVars, ghostVars
<1>5. ASSUME NEW q \in Pair PROVE Continued(q)
  <2>1. CASE q = p
    BY <1>1, <1>2, <1>3, <2>1, NoStopIsNone DEF Continued, HasStop, IInv, TypeOK
  <2>2. CASE q # p
    BY <1>3, <2>2, ContinuedUnchanged DEF IInv, TypeOK
  <2> QED
    BY <2>1, <2>2
<1>6. ASSUME NEW t \in Trade PROVE Mourned(t)
  <2>1. \A q \in Pair : HasStop(q) => stops'[q] # NoStop
    BY <1>2, <1>3, NoStopIsNone DEF IInv, TypeOK, HasStop
  <2> QED
    BY <2>1, TradeFields DEF Mourned, Owns, IInv, EndMinHold, ghostVars
<1>7. \A t \in Trade : Carried(t)
  BY CarriedUnchanged DEF EndMinHold
<1> QED
  BY <1>4, <1>5, <1>6, <1>7, GuardKept DEF IInv

LEMMA MovePriceStep ==
    ASSUME IInv, NEW p \in Pair, NEW x \in Price, MovePrice(p, x)
    PROVE  IInv'
<1>1. TypeOK'
  BY DEF IInv, TypeOK, MovePrice, loopVars, ghostVars
<1>2. \A t \in Trade : Carried(t)
  BY CarriedUnchanged DEF MovePrice
<1>3. \A t \in Trade : Mourned(t)
  BY <1>2, MournedUnchanged DEF MovePrice, ghostVars
<1>4. \A q \in Pair : Continued(q)
  BY ContinuedUnchanged DEF IInv, MovePrice
<1> QED
  BY <1>1, <1>2, <1>3, <1>4, GuardKept DEF IInv

LEMMA LiquidateStep ==
    ASSUME IInv, NEW p \in Pair, NEW sold \in BOOLEAN, Liquidate(p, sold)
    PROVE  IInv'
<1>1. PICK t \in Trade :
        /\ trades[t].st = "filled"
        /\ ClosePosition(t, sold, 1)
        /\ RemoveStop(p, IF Closes(t, sold) THEN t ELSE External)
  BY DEF Liquidate, First, Filled
<1>2. /\ trades' \in [Trade -> Position] /\ coins' \in [Pair -> Nat]
      /\ lossRecords' \in [Trade -> Nat]
      /\ \A u \in Trade : Carried(u)
      /\ Closes(t, sold) => ~Open(t)'
  BY <1>1, ClosePositionKeeps DEF IInv
<1>3. PICK closed \in Trade \cup {External} :
        RemoveStop(p, closed) /\ (closed \in Trade => ~Open(closed)')
  <2>1. External \notin Trade
    BY ExitAssumption DEF External, Trade, ExitAssumption
  <2>2. CASE Closes(t, sold)
    BY <1>1, <1>2, <2>2
  <2>3. CASE ~Closes(t, sold)
    BY <1>1, <2>1, <2>3
  <2> QED
    BY <2>2, <2>3
<1>4. /\ stops' \in [Pair -> Stop \cup {NoStop}] /\ abandoned' \subseteq Trade
      /\ \A q \in Pair : Continued(q)
      /\ \A u \in Trade : Mourned(u)
  BY <1>2, <1>3, RemoveStopKeeps DEF IInv
<1>5. TypeOK'
  BY <1>2, <1>4 DEF IInv, TypeOK, Liquidate, loopVars
<1> QED
  BY <1>2, <1>4, <1>5, GuardKept DEF IInv

LEMMA UpdatePricesStep ==
    ASSUME IInv, UpdatePrices
    PROVE  IInv'
<1>1. stops' = [p \in Pair |-> IF HasStop(p) THEN Update(stops[p], price[p]) ELSE NoStop]
  BY DEF UpdatePrices
<1>2. ASSUME NEW p \in Pair
      PROVE  /\ stops'[p] \in Stop \cup {NoStop}
             /\ Continued(p)
             /\ HasStop(p) => stops'[p] # NoStop
  <2>1. CASE HasStop(p)
    <3>1. stops[p] \in Stop /\ price[p] \in Price /\ stops'[p] = Update(stops[p], price[p])
      BY <1>1, <2>1, StopFields DEF IInv, TypeOK
    <3>2. /\ stops'[p] \in Stop /\ stops'[p] # NoStop
          /\ stops'[p].for = stops[p].for /\ stops'[p].entry = stops[p].entry
          /\ stops'[p].at >= stops[p].at
      BY <3>1, UpdateKeeps, NoStopIsNone
    <3> QED
      BY <2>1, <3>2 DEF Continued, HasStop
  <2>2. CASE ~HasStop(p)
    BY <1>1, <2>2 DEF Continued
  <2> QED
    BY <2>1, <2>2
<1>3. TypeOK'
  <2>1. stops' \in [Pair -> Stop \cup {NoStop}]
    BY <1>1, <1>2
  <2>2. firing' \subseteq Pair /\ phase' \in Phase
    BY DEF UpdatePrices, Phase
  <2> QED
    BY <2>1, <2>2 DEF IInv, TypeOK, UpdatePrices, ghostVars
<1>4. \A t \in Trade : Carried(t)
  BY CarriedUnchanged DEF UpdatePrices
<1>5. \A t \in Trade : Mourned(t)
  BY <1>2, TradeFields DEF Mourned, Owns, IInv, UpdatePrices, ghostVars
<1> QED
  BY <1>2, <1>3, <1>4, <1>5, GuardKept DEF IInv

LEMMA SellFiredStep ==
    ASSUME IInv, NEW p \in Pair, NEW sold \in BOOLEAN, SellFired(p, sold)
    PROVE  IInv'
<1> DEFINE Rest == UNCHANGED <<discovered, price, phase, unchecked, failures, uneven>>
<1>1. Rest /\ firing' \subseteq Pair
  BY DEF SellFired, IInv, TypeOK
<1>2. CASE /\ RemoveStop(p, External)
           /\ UNCHANGED <<trades, coins, lossRecords>>
  <2>1. \A u \in Trade : Carried(u)
    BY <1>2, CarriedUnchanged
  <2>2. External \notin Trade
    BY ExitAssumption DEF External, Trade, ExitAssumption
  <2>3. /\ stops' \in [Pair -> Stop \cup {NoStop}] /\ abandoned' \subseteq Trade
        /\ \A q \in Pair : Continued(q)
        /\ \A u \in Trade : Mourned(u)
    BY <1>2, <2>1, <2>2, RemoveStopKeeps DEF IInv
  <2>4. TypeOK'
    BY <1>1, <1>2, <2>3 DEF IInv, TypeOK
  <2> QED
    BY <2>1, <2>3, <2>4, GuardKept DEF IInv
<1>3. ASSUME NEW t \in Trade, trades[t].st = "filled",
             ClosePosition(t, sold, 2),
             IF Done(t, sold) THEN RemoveStop(p, t) ELSE UNCHANGED <<stops, abandoned>>
      PROVE  IInv'
  <2>1. /\ trades' \in [Trade -> Position] /\ coins' \in [Pair -> Nat]
        /\ lossRecords' \in [Trade -> Nat]
        /\ \A u \in Trade : Carried(u)
        /\ Closes(t, sold) => ~Open(t)'
    BY <1>3, ClosePositionKeeps DEF IInv
  <2>2. /\ stops' \in [Pair -> Stop \cup {NoStop}] /\ abandoned' \subseteq Trade
        /\ \A q \in Pair : Continued(q)
        /\ \A u \in Trade : Mourned(u)
    <3>1. CASE Done(t, sold)
      BY <1>3, <2>1, <3>1, RemoveStopKeeps DEF IInv, Done
    <3>2. CASE ~Done(t, sold)
      <4>1. UNCHANGED <<stops, abandoned>>
        BY <1>3, <3>2
      <4> QED
        BY <2>1, <4>1, ContinuedUnchanged, MournedUnchanged DEF IInv, TypeOK
    <3> QED
      BY <3>1, <3>2
  <2>3. TypeOK'
    BY <1>1, <2>1, <2>2 DEF IInv, TypeOK
  <2> QED
    BY <2>1, <2>2, <2>3, GuardKept DEF IInv
<1> QED
  BY <1>2, <1>3 DEF SellFired, First, Filled

LEMMA SellTierStep ==
    ASSUME IInv, NEW p \in Pair, NEW k \in 1..Len(Tiers), NEW sold \in BOOLEAN,
           SellTier(p, k, sold)
    PROVE  IInv'
<1>1. stops[p] \in Stop /\ stops[p].at \in Nat /\ HasStop(p)
  BY StopFields DEF IInv, SellTier
<1> DEFINE s == [stops[p] EXCEPT !.exits = @ \ {k}]
<1>2. /\ s \in Stop /\ s.for = stops[p].for /\ s.entry = stops[p].entry
      /\ s.at >= stops[p].at
  <2>1. s \in Stop /\ s.for = stops[p].for /\ s.entry = stops[p].entry /\ s.at = stops[p].at
    BY <1>1 DEF Stop
  <2> QED
    BY <1>1, <2>1
<1>3. stops' = [stops EXCEPT ![p] = s]
  BY DEF SellTier, IInv, TypeOK
<1> HIDE DEF s
<1>4. /\ trades' \in [Trade -> Position] /\ coins' \in [Pair -> Nat] /\ uneven' \subseteq Trade
      /\ \A u \in Trade : Carried(u)
  <2>1. CASE \E t \in First(p) : PartialSell(t, k)
    <3>1. PICK t \in Trade : trades[t].st = "filled" /\ PartialSell(t, k)
      BY <2>1 DEF First, Filled
    <3>2. trades[t] \in Position /\ trades[t].pair \in Pair /\ trades[t].held \in Nat
      BY TradeFields DEF IInv
    <3>3. ExitQuantity(k) \in Int
      <4>1. Quantity \in Int /\ k \in 1..2
        BY ExitAssumption DEF ExitAssumption, Tiers
      <4>2. \A n \in Int : After(n, 1) \in Int /\ After(n, 2) \in Int
        BY DEF After, Tiers
      <4>3. Left(0) \in Int /\ Left(1) \in Int /\ Left(2) \in Int
        BY <4>1, <4>2 DEF Left
      <4>4. k = 1 \/ k = 2
        BY <4>1
      <4> QED
        BY <4>3, <4>4 DEF ExitQuantity
    <3> DEFINE pt == trades[t].pair
               qty == Capped(pt, ExitQuantity(k))
               rest == trades[t].held - qty
               tr == IF rest > 0 THEN [trades[t] EXCEPT !.held = rest]
                                 ELSE Over(trades[t], "closed")
    <3>4. qty \in Int /\ coins[pt] - qty \in Nat
      BY <3>2, <3>3 DEF Capped, IInv, TypeOK
    <3>5. rest \in Int
      BY <3>2, <3>4
    <3>6. /\ trades' = [trades EXCEPT ![t] = tr]
          /\ coins' = [coins EXCEPT ![pt] = @ - qty]
          /\ uneven' \subseteq uneven \cup {t} \cup ({stops[p].for} \cap Trade)
                                  \cup ({stops[pt].for} \cap Trade)
      BY <3>1 DEF PartialSell
    <3>7. coins' \in [Pair -> Nat]
      BY <3>2, <3>4, <3>6 DEF IInv, TypeOK
    <3>8. tr \in Position /\ (Open(t) => tr.st # "none")
          /\ (tr.st \in {"pending", "filled"} => tr.pair = trades[t].pair /\ tr.basis = trades[t].basis)
      <4>1. CASE rest > 0
        <5>1. tr = [trades[t] EXCEPT !.held = rest] /\ rest \in Nat
          BY <3>5, <4>1
        <5> QED
          <6> HIDE DEF tr, rest
          <6> QED BY <3>1, <3>2, <5>1 DEF Position
      <4>2. CASE ~(rest > 0)
        <5>1. tr = Over(trades[t], "closed")
          BY <4>2
        <5> QED
          <6> HIDE DEF tr, rest
          <6> QED BY <3>2, <5>1, OverType
      <4> QED
        BY <4>1, <4>2
    <3> HIDE DEF tr, rest, qty
    <3>9. trades' \in [Trade -> Position] /\ \A u \in Trade : Carried(u)
      BY <3>1, <3>6, <3>8 DEF IInv, TypeOK, Carried, Open
    <3> QED
      BY <3>6, <3>7, <3>9 DEF IInv, TypeOK
  <2>2. CASE /\ uneven' = uneven \cup ({stops[p].for} \cap Trade)
             /\ UNCHANGED <<trades, coins>>
    BY <2>2, CarriedUnchanged DEF IInv, TypeOK
  <2> QED
    BY <2>1, <2>2 DEF SellTier
<1>5. TypeOK'
  BY <1>2, <1>3, <1>4 DEF IInv, TypeOK, SellTier, loopVars
<1>6. ASSUME NEW q \in Pair PROVE Continued(q)
  <2>1. CASE q = p
    BY <1>1, <1>2, <1>3, <2>1, NoStopIsNone DEF Continued, HasStop, IInv, TypeOK
  <2>2. CASE q # p
    BY <1>3, <2>2, ContinuedUnchanged DEF IInv, TypeOK
  <2> QED
    BY <2>1, <2>2
<1>7. ASSUME NEW t \in Trade PROVE Mourned(t)
  <2>1. \A q \in Pair : HasStop(q) => stops'[q] # NoStop
    BY <1>2, <1>3, NoStopIsNone DEF IInv, TypeOK, HasStop
  <2> QED
    BY <2>1, TradeFields DEF Mourned, Owns, IInv, SellTier
<1> QED
  BY <1>4, <1>5, <1>6, <1>7, GuardKept DEF IInv

LEMMA CheckExitStep ==
    ASSUME IInv, NEW t \in Trade, NEW sold \in BOOLEAN, CheckExit(t, sold),
           trades[t].st = "filled"
    PROVE  IInv'
<1>1. /\ trades' \in [Trade -> Position] /\ coins' \in [Pair -> Nat]
      /\ lossRecords' \in [Trade -> Nat]
      /\ \A u \in Trade : Carried(u)
  <2>1. CASE ClosePosition(t, sold, 1)
    BY <2>1, ClosePositionKeeps DEF IInv
  <2>2. CASE UNCHANGED <<trades, coins, lossRecords>>
    BY <2>2, CarriedUnchanged DEF IInv, TypeOK
  <2> QED
    BY <2>1, <2>2 DEF CheckExit
<1>2. failures' \in [Trade -> 0..FailureLimit]
  <2>1. FailureLimit \in Nat /\ failures[t] \in 0..FailureLimit
    BY ExitAssumption DEF ExitAssumption, IInv, TypeOK
  <2>2. \/ failures' = failures
        \/ /\ ~Stuck(t)
           /\ failures' = [failures EXCEPT ![t] = IF Closes(t, sold) THEN 0 ELSE @ + 1]
    BY DEF CheckExit
  <2>3. CASE failures' = failures
    BY <2>3 DEF IInv, TypeOK
  <2>4. CASE /\ ~Stuck(t)
             /\ failures' = [failures EXCEPT ![t] = IF Closes(t, sold) THEN 0 ELSE @ + 1]
    <3>1. 0 \in 0..FailureLimit /\ failures[t] + 1 \in 0..FailureLimit
      BY <2>1, <2>4 DEF Stuck
    <3> QED
      BY <2>4, <3>1 DEF IInv, TypeOK
  <2> QED
    BY <2>2, <2>3, <2>4
<1>3. TypeOK'
  BY <1>1, <1>2 DEF IInv, TypeOK, CheckExit, ghostVars
<1>4. \A u \in Trade : Mourned(u)
  BY <1>1, MournedUnchanged DEF CheckExit, ghostVars
<1>5. \A q \in Pair : Continued(q)
  BY ContinuedUnchanged DEF IInv, CheckExit
<1> QED
  BY <1>1, <1>3, <1>4, <1>5, GuardKept DEF IInv

\* A new trade with its stop: what AddStop sets belongs to the new trade, and
\* nobody else loses a stop unnoticed.
LEMMA AddStopStep ==
    ASSUME IInv, NEW t \in Trade, NEW p \in Pair, NEW tr \in Position,
           trades[t].st = "none", tr.st \in {"pending", "filled"}, tr.pair = p,
           trades' = [trades EXCEPT ![t] = tr],
           AddStop(t, p, tr.basis)
    PROVE  /\ Guarded'
           /\ trades' \in [Trade -> Position]
           /\ stops' \in [Pair -> Stop \cup {NoStop}]
           /\ abandoned' \subseteq Trade
<1> DEFINE level == tr.basis * (100 - StopLossPct)
           new == NewStop(t, tr.basis, level)
<1>1. /\ new \in Stop /\ new # NoStop /\ new.for = t
      /\ new.entry = tr.basis /\ new.at = level /\ level \in Nat
  <2>1. tr.basis \in Price
    BY DEF Position
  <2> QED
    BY <2>1, Levels, NewStopType
<1>2. /\ trades' \in [Trade -> Position] /\ trades'[t] = tr
      /\ \A u \in Trade \ {t} : trades'[u] = trades[u]
  BY DEF IInv, TypeOK
<1>3. ~Open(t) /\ \A q \in Pair : ~(HasStop(q) /\ stops[q].for = t)
  BY DEF Open, IInv, Guarded, Known
<1> HIDE DEF new, level
<1>4. CASE /\ stops' = [stops EXCEPT ![p] = new]
           /\ Bereave(p, t)
  <2>1. /\ stops' \in [Pair -> Stop \cup {NoStop}] /\ stops'[p] = new
        /\ \A q \in Pair \ {p} : stops'[q] = stops[q]
    BY <1>1, <1>4 DEF IInv, TypeOK
  <2>2. abandoned' = abandoned \cup
          {u \in Trade \ {t} : HasStop(p) /\ stops[p].for = u
                               /\ trades[u].st \in {"pending", "filled"}}
    BY <1>4 DEF Bereave
  <2>3. Watched'
    <3> SUFFICES ASSUME NEW u \in Trade, Open(u)'
                 PROVE  Owns(u)' \/ u \in abandoned'
      BY DEF Watched
    <3>1. CASE u = t
      BY <1>1, <1>2, <2>1, <3>1 DEF Owns, HasStop
    <3>2. CASE u # t
      <4>1. trades'[u] = trades[u] /\ Open(u) /\ trades[u].pair \in Pair
        BY <1>2, <3>2, TradeFields DEF Open, IInv
      <4>2. Owns(u) \/ u \in abandoned
        BY <4>1 DEF IInv, Guarded, Watched
      <4>3. CASE Owns(u) /\ trades[u].pair = p
        BY <2>2, <3>2, <4>1, <4>3 DEF Owns, Open
      <4>4. CASE Owns(u) /\ trades[u].pair # p
        BY <2>1, <4>1, <4>4 DEF Owns, HasStop
      <4> QED
        BY <2>2, <4>2, <4>3, <4>4
    <3> QED
      BY <3>1, <3>2
  <2>4. Known'
    <3> SUFFICES ASSUME NEW u \in Trade, NEW q \in Pair, HasStop(q)', stops'[q].for = u
                 PROVE  trades'[u].st # "none"
      BY DEF Known
    <3>1. CASE u = t
      BY <1>2, <3>1
    <3>2. CASE u # t
      <4>1. q # p
        BY <1>1, <2>1, <3>2
      <4>2. HasStop(q) /\ stops[q].for = u
        BY <2>1, <4>1 DEF HasStop
      <4> QED
        BY <1>2, <3>2, <4>2 DEF IInv, Guarded, Known
    <3> QED
      BY <3>1, <3>2
  <2>5. Covered'
    <3> SUFFICES ASSUME NEW u \in Trade, Open(u)', Owns(u)'
                 PROVE  /\ stops'[trades'[u].pair].entry = trades'[u].basis
                        /\ stops'[trades'[u].pair].at >= StopLoss(u)'
      BY DEF Covered
    <3>1. CASE u = t
      <4>1. stops'[trades'[u].pair] = new /\ trades'[u] = tr /\ StopLoss(u)' = level
        BY <1>2, <2>1, <3>1 DEF StopLoss, level
      <4>2. new.at >= level
        BY <1>1
      <4> QED
        BY <1>1, <4>1, <4>2
    <3>2. CASE u # t
      <4>1. trades'[u] = trades[u] /\ Open(u) /\ trades[u].pair \in Pair
        BY <1>2, <3>2, TradeFields DEF Open, IInv
      <4>2. trades[u].pair # p
        BY <1>1, <2>1, <3>2, <4>1 DEF Owns
      <4>3. stops'[trades[u].pair] = stops[trades[u].pair] /\ Owns(u)
        BY <2>1, <4>1, <4>2 DEF Owns, HasStop
      <4>4. StopLoss(u)' = StopLoss(u)
        BY <4>1 DEF StopLoss
      <4> QED
        BY <4>1, <4>3, <4>4 DEF IInv, Guarded, Covered
    <3> QED
      BY <3>1, <3>2
  <2> QED
    BY <1>2, <2>1, <2>2, <2>3, <2>4, <2>5 DEF Guarded, IInv, TypeOK
<1>5. CASE abandoned' = abandoned \cup {t} /\ UNCHANGED stops
  <2>1. Watched'
    <3> SUFFICES ASSUME NEW u \in Trade, Open(u)', u # t
                 PROVE  Owns(u)' \/ u \in abandoned'
      BY <1>5 DEF Watched
    <3>1. trades'[u] = trades[u] /\ Open(u)
      BY <1>2 DEF Open
    <3> QED
      BY <1>5, <3>1 DEF IInv, Guarded, Watched, Owns, HasStop
  <2>2. Known'
    BY <1>2, <1>5 DEF IInv, Guarded, Known, HasStop
  <2>3. Covered'
    <3> SUFFICES ASSUME NEW u \in Trade, Open(u)', Owns(u)'
                 PROVE  /\ stops'[trades'[u].pair].entry = trades'[u].basis
                        /\ stops'[trades'[u].pair].at >= StopLoss(u)'
      BY DEF Covered
    <3>1. u # t
      BY <1>2, <1>3, <1>5 DEF Owns, HasStop
    <3>2. trades'[u] = trades[u] /\ Open(u) /\ Owns(u) /\ StopLoss(u)' = StopLoss(u)
      BY <1>2, <1>5, <3>1 DEF Open, Owns, HasStop, StopLoss
    <3> QED
      BY <1>5, <3>2 DEF IInv, Guarded, Covered
  <2> QED
    BY <1>2, <1>5, <2>1, <2>2, <2>3 DEF Guarded, IInv, TypeOK
<1> QED
  BY <1>4, <1>5 DEF AddStop, new, level

LEMMA BuyStep ==
    ASSUME IInv, NEW t \in Trade, NEW p \in Pair, Buy(t, p)
    PROVE  IInv'
<1>1. price[p] \in Price /\ Quantity \in Nat
  BY ExitAssumption DEF IInv, TypeOK, ExitAssumption
<1>2. PICK tr \in Position : tr = [st |-> "filled", pair |-> p,
                                   entry |-> price[p], basis |-> price[p],
                                   held |-> Quantity]
  BY <1>1 DEF Position
<1>3. /\ trades[t].st = "none" /\ tr.st = "filled" /\ tr.pair = p
      /\ trades' = [trades EXCEPT ![t] = tr]
      /\ AddStop(t, p, tr.basis)
  BY <1>2 DEF Buy, Fresh
<1>4. /\ Guarded'
      /\ trades' \in [Trade -> Position]
      /\ stops' \in [Pair -> Stop \cup {NoStop}]
      /\ abandoned' \subseteq Trade
  BY <1>3, AddStopStep
<1>5. coins' \in [Pair -> Nat]
  BY <1>1 DEF Buy, IInv, TypeOK
<1> QED
  BY <1>4, <1>5 DEF IInv, TypeOK, Buy, loopVars

LEMMA PlaceRestingStep ==
    ASSUME IInv, NEW t \in Trade, NEW p \in Pair, NEW limit \in Price,
           PlaceResting(t, p, limit)
    PROVE  IInv'
<1>1. PICK tr \in Position : tr = [st |-> "pending", pair |-> p,
                                   entry |-> limit, basis |-> price[p], held |-> 0]
  BY DEF Position, IInv, TypeOK
<1>2. /\ trades[t].st = "none" /\ tr.st = "pending" /\ tr.pair = p
      /\ trades' = [trades EXCEPT ![t] = tr]
      /\ AddStop(t, p, tr.basis)
  BY <1>1 DEF PlaceResting, Fresh
<1>3. /\ Guarded'
      /\ trades' \in [Trade -> Position]
      /\ stops' \in [Pair -> Stop \cup {NoStop}]
      /\ abandoned' \subseteq Trade
  BY <1>2, AddStopStep
<1> QED
  BY <1>3 DEF IInv, TypeOK, PlaceResting, loopVars

\* Discovery gives a stop to a pair on which no trade is open.
LEMMA DiscoverStep ==
    ASSUME IInv, NEW p \in Pair, Discover(p)
    PROVE  IInv'
<1>1. price[p] \in Price /\ Quantity \in Nat
  BY ExitAssumption DEF IInv, TypeOK, ExitAssumption
<1> DEFINE new == NewStop(External, price[p], price[p] * (100 - TrailPct))
<1>2. new \in Stop /\ new # NoStop /\ new.for = External
  BY <1>1, Levels, NewStopType
<1>3. stops' = [stops EXCEPT ![p] = new] /\ UNCHANGED <<trades, abandoned>>
  BY DEF Discover, ghostVars
<1> HIDE DEF new
<1>4. stops' \in [Pair -> Stop \cup {NoStop}] /\ coins' \in [Pair -> Nat]
  BY <1>1, <1>2, <1>3 DEF Discover, IInv, TypeOK
<1>5. TypeOK'
  BY <1>4 DEF IInv, TypeOK, Discover, loopVars, ghostVars
<1>6. External \notin Trade
  BY ExitAssumption DEF External, Trade, ExitAssumption
<1>7. \A q \in Pair \ {p} : stops'[q] = stops[q]
  BY <1>3 DEF IInv, TypeOK
<1>8. \A t \in Trade : Open(t) => trades[t].pair \in Pair \ {p}
  BY TradeFields DEF Discover, Open, IInv
<1>9. \A t \in Trade : /\ Open(t)' <=> Open(t)
                       /\ Open(t) => (Owns(t)' <=> Owns(t))
                       /\ StopLoss(t)' = StopLoss(t)
  BY <1>3, <1>7, <1>8 DEF Open, Owns, HasStop, StopLoss
<1>10. Watched'
  BY <1>3, <1>9 DEF Watched, IInv, Guarded
<1>11. Known'
  <2> SUFFICES ASSUME NEW t \in Trade, NEW q \in Pair, HasStop(q)', stops'[q].for = t
               PROVE  trades'[t].st # "none"
    BY DEF Known
  <2>1. stops'[p] = new
    BY <1>3 DEF IInv, TypeOK
  <2>2. q # p
    BY <1>2, <1>6, <2>1
  <2>3. HasStop(q) /\ stops[q].for = t
    BY <1>7, <2>2 DEF HasStop
  <2> QED
    BY <1>3, <2>3 DEF IInv, Guarded, Known
<1>12. Covered'
  BY <1>3, <1>7, <1>8, <1>9 DEF Covered, IInv, Guarded
<1> QED
  BY <1>5, <1>10, <1>11, <1>12 DEF IInv, Guarded

LEMMA AdvanceStep ==
    ASSUME IInv, Advance
    PROVE  IInv'
<1>1. TypeOK'
  BY DEF IInv, TypeOK, Advance, Phase, ghostVars
<1>2. \A u \in Trade : Carried(u)
  BY CarriedUnchanged DEF Advance
<1>3. \A u \in Trade : Mourned(u)
  BY <1>2, MournedUnchanged DEF Advance, ghostVars
<1>4. \A q \in Pair : Continued(q)
  BY ContinuedUnchanged DEF IInv, Advance
<1> QED
  BY <1>1, <1>2, <1>3, <1>4, GuardKept DEF IInv

-----------------------------------------------------------------------------
(* The trades check_stop_losses has still to look at are all still held: it *)
(* works on the list it took from the ledger at its start.                  *)

Listed ==
    /\ phase # "losses" => unchecked = {}
    /\ \A t \in unchecked : trades[t].st = "filled"

LEMMA ListedKept ==
    ASSUME IInv, Listed, [Next]_vars
    PROVE  Listed'
<1>1. CASE \E t \in Trade, sold \in BOOLEAN : CheckExit(t, sold)
  <2>1. PICK t \in Trade, sold \in BOOLEAN : CheckExit(t, sold)
    BY <1>1
  <2>2. unchecked' = unchecked \ {t} /\ UNCHANGED phase /\ phase = "losses"
    BY <2>1 DEF CheckExit
  <2>3. \A u \in Trade \ {t} : trades'[u] = trades[u]
    <3>1. \/ UNCHANGED trades
          \/ trades' = [trades EXCEPT ![t] = Over(@, "closed")]
      BY <2>1 DEF CheckExit, ClosePosition
    <3> QED
      BY <3>1 DEF IInv, TypeOK
  <2> QED
    BY <2>2, <2>3 DEF Listed, IInv, TypeOK
<1>2. CASE Advance
  BY <1>2 DEF Advance, Listed
<1>3. CASE UpdatePrices
  BY <1>3 DEF UpdatePrices, Listed
<1>4. CASE UNCHANGED vars
  BY <1>4 DEF Listed, vars, loopVars
<1>5. CASE \E p \in Pair, x \in Price : MovePrice(p, x)
  BY <1>5 DEF MovePrice, Listed, loopVars
<1>6. CASE phase # "losses" /\ UNCHANGED <<phase, unchecked>>
  BY <1>6 DEF Listed
<1>7. CASE \E t \in Trade : \/ \E p \in Pair : Buy(t, p)
                            \/ \E p \in Pair, x \in Price : PlaceResting(t, p, x)
                            \/ Settle(t)
  BY <1>6, <1>7 DEF Buy, PlaceResting, Settle, loopVars
<1>8. CASE \E p \in Pair : Discover(p) \/ TightenToBreakeven(p) \/ EndMinHold(p)
  BY <1>6, <1>8 DEF Discover, TightenToBreakeven, EndMinHold, loopVars
<1>9. CASE \E p \in Pair : \E sold \in BOOLEAN : Liquidate(p, sold) \/ SellFired(p, sold)
  BY <1>6, <1>9 DEF Liquidate, SellFired, loopVars
<1>10. CASE \E p \in Pair : \E k \in 1..Len(Tiers), sold \in BOOLEAN : SellTier(p, k, sold)
  BY <1>6, <1>10 DEF SellTier, loopVars
<1> QED
  BY <1>1, <1>2, <1>3, <1>4, <1>5, <1>7, <1>8, <1>9, <1>10 DEF Next

-----------------------------------------------------------------------------
(* The invariant *)

LEMMA InitInv == Init => IInv /\ Listed
<1> SUFFICES ASSUME Init PROVE IInv /\ Listed
  OBVIOUS
<1>1. Unused \in Position /\ Unused.st = "none"
  BY ExitAssumption DEF Unused, Position, ExitAssumption
<1>2. 0 \in 0..FailureLimit
  BY ExitAssumption DEF ExitAssumption
<1>3. TypeOK
  BY <1>1, <1>2 DEF Init, TypeOK, Phase
<1>4. Guarded
  BY <1>1 DEF Init, Guarded, Watched, Known, Covered, Open, HasStop
<1>5. Listed
  BY DEF Init, Listed
<1> QED
  BY <1>3, <1>4, <1>5 DEF IInv

LEMMA StepInv == IInv /\ Listed /\ [Next]_vars => IInv' /\ Listed'
<1> SUFFICES ASSUME IInv, Listed, [Next]_vars PROVE IInv'
  BY ListedKept
<1>1. CASE UNCHANGED vars
  BY <1>1 DEF vars, loopVars, ghostVars, IInv, TypeOK, Guarded, Watched, Known, Covered,
              Open, Owns, HasStop, StopLoss
<1>2. ASSUME NEW t \in Trade, NEW p \in Pair, Buy(t, p) PROVE IInv'
  BY <1>2, BuyStep
<1>3. ASSUME NEW t \in Trade, NEW p \in Pair, NEW x \in Price, PlaceResting(t, p, x)
      PROVE  IInv'
  BY <1>3, PlaceRestingStep
<1>4. ASSUME NEW t \in Trade, Settle(t) PROVE IInv'
  BY <1>4, SettleStep
<1>5. ASSUME NEW t \in Trade, NEW sold \in BOOLEAN, CheckExit(t, sold) PROVE IInv'
  BY <1>5, CheckExitStep DEF Listed, CheckExit
<1>6. ASSUME NEW p \in Pair, Discover(p) PROVE IInv'
  BY <1>6, DiscoverStep
<1>7. ASSUME NEW p \in Pair, TightenToBreakeven(p) PROVE IInv'
  BY <1>7, TightenStep
<1>8. ASSUME NEW p \in Pair, EndMinHold(p) PROVE IInv'
  BY <1>8, EndMinHoldStep
<1>9. ASSUME NEW p \in Pair, NEW x \in Price, MovePrice(p, x) PROVE IInv'
  BY <1>9, MovePriceStep
<1>10. ASSUME NEW p \in Pair, NEW sold \in BOOLEAN, Liquidate(p, sold) PROVE IInv'
  BY <1>10, LiquidateStep
<1>11. ASSUME NEW p \in Pair, NEW sold \in BOOLEAN, SellFired(p, sold) PROVE IInv'
  BY <1>11, SellFiredStep
<1>12. ASSUME NEW p \in Pair, NEW k \in 1..Len(Tiers), NEW sold \in BOOLEAN,
              SellTier(p, k, sold)
       PROVE  IInv'
  BY <1>12, SellTierStep
<1>13. CASE UpdatePrices
  BY <1>13, UpdatePricesStep
<1>14. CASE Advance
  BY <1>14, AdvanceStep
<1> QED
  BY <1>1, <1>2, <1>3, <1>4, <1>5, <1>6, <1>7, <1>8, <1>9, <1>10, <1>11, <1>12, <1>13,
     <1>14 DEF Next

LEMMA Invariance == Spec => [](IInv /\ Listed)
BY InitInv, StepInv, PTL DEF Spec

\* Stops, trades, balances and the bookkeeping of the pass keep their types:
\* no sell takes more coins than there are, and no trade is tried more often
\* than _close_failure_limit allows.
THEOREM TypeCorrect == Spec => []TypeOK
<1>1. IInv /\ Listed => TypeOK
  BY DEF IInv
<1> QED
  BY <1>1, Invariance, PTL

\* A bought position has the trailing stop that was set for it unless a named
\* cause took it: a second buy on its pair, a command, a buy that add_stop was
\* not called for, or a stop that fired before its order was filled.
THEOREM Watching == Spec => []PositionsAreWatched
<1>1. IInv /\ Listed => PositionsAreWatched
  BY DEF IInv, Guarded, Watched, Open, PositionsAreWatched
<1> QED
  BY <1>1, Invariance, PTL

\* The trailing stop of a position never lies below the position's stop-loss:
\* add_stop starts there, prices only raise it, and tighten_to_breakeven,
\* which may lower it, stops at the entry.
THEOREM StopsCoverStopLosses == Spec => []StopCoversStopLoss
<1>1. IInv /\ Listed => StopCoversStopLoss
  BY DEF IInv, Guarded, Covered, Open, StopCoversStopLoss
<1> QED
  BY <1>1, Invariance, PTL

-----------------------------------------------------------------------------
(* Sums.  SumFunctionOnSet folds a set in an order CHOOSE picks; these     *)
(* lemmas say that the sum exists and does not depend on the order.  They  *)
(* stand in Ledger_proofs too, which is about other variables.             *)

Smaller(T) == (SUBSET T) \ {T}

\* What holds of a set once it holds of its smaller subsets holds of all.
LEMMA SubsetInduction ==
    ASSUME NEW S, IsFiniteSet(S), NEW G,
           \A T \in SUBSET S : Smaller(T) \subseteq G => T \in G
    PROVE  SUBSET S \subseteq G
<1> DEFINE Bad == (SUBSET S) \ G
           R == StrictSubsetOrdering(S)
<1> SUFFICES ASSUME Bad # {} PROVE FALSE
  OBVIOUS
<1>1. IsWellFoundedOn(R, SUBSET S)
  BY FS_StrictSubsetOrderingWellFounded, FS_FiniteSubsetsOfFinite
<1>2. Bad \subseteq SUBSET S
  OBVIOUS
<1>3. \E T \in Bad : \A U \in Bad : <<U, T>> \notin R
  <2> HIDE DEF Bad, R
  <2> QED
    BY <1>1, <1>2, WFMin
<1>4. PICK T \in Bad : \A U \in Bad : <<U, T>> \notin R
  BY <1>3
<1>5. \A U \in Smaller(T) : <<U, T>> \in R
  BY DEF Smaller, StrictSubsetOrdering
<1>6. Smaller(T) \subseteq G
  BY <1>4, <1>5 DEF Smaller
<1> QED
  BY <1>6

Picked(s) == CHOOSE x \in s : TRUE

\* g is the recursive function by which the fold of module Folds sums f.
Adds(f, S, g) ==
    g = [s \in SUBSET S |-> IF s = {} THEN 0 ELSE f[Picked(s)] + g[s \ {Picked(s)}]]

Adder(f, S) == CHOOSE g : Adds(f, S, g)

\* The sum is the value of that function.
LEMMA SumAdder == ASSUME NEW f, NEW S PROVE SumFunctionOnSet(f, S) = Adder(f, S)[S]
BY DEF SumFunctionOnSet, FoldFunctionOnSet, MapThenFoldSet, Adder, Adds, Picked

\* CHOOSE picks a member.
LEMMA PickedIn == ASSUME NEW s, s # {} PROVE Picked(s) \in s
BY DEF Picked

\* Two such functions agree where both are defined.
LEMMA AddsAgree ==
    ASSUME NEW f, NEW S, IsFiniteSet(S), NEW T \in SUBSET S, NEW g, NEW h,
           Adds(f, S, g), Adds(f, T, h)
    PROVE  \A U \in SUBSET T : g[U] = h[U]
<1> DEFINE G == {U \in SUBSET T : g[U] = h[U]}
<1>1. IsFiniteSet(T)
  BY FS_Subset
<1>2. ASSUME NEW U \in SUBSET T, Smaller(U) \subseteq G
      PROVE  U \in G
  <2>1. U \in SUBSET S
    OBVIOUS
  <2>2. g[U] = IF U = {} THEN 0 ELSE f[Picked(U)] + g[U \ {Picked(U)}]
    BY <2>1 DEF Adds
  <2>3. h[U] = IF U = {} THEN 0 ELSE f[Picked(U)] + h[U \ {Picked(U)}]
    BY DEF Adds
  <2>4. U # {} => U \ {Picked(U)} \in Smaller(U)
    BY PickedIn DEF Smaller
  <2> QED
    BY <1>2, <2>2, <2>3, <2>4
<1>3. SUBSET T \subseteq G
  <2> HIDE DEF G
  <2> QED
    BY <1>1, <1>2, SubsetInduction
<1> QED
  BY <1>3

\* Such a function exists for every finite set.
LEMMA AdderAdds ==
    ASSUME NEW f, NEW S, IsFiniteSet(S)
    PROVE  Adds(f, S, Adder(f, S))
<1> DEFINE G == {T \in SUBSET S : Adds(f, T, Adder(f, T))}
<1>1. ASSUME NEW T \in SUBSET S, Smaller(T) \subseteq G
      PROVE  T \in G
  <2> DEFINE I(u) == Adder(f, u)[u]
             h == [s \in SUBSET T |-> IF s = {} THEN 0 ELSE f[Picked(s)] + I(s \ {Picked(s)})]
  <2>1. ASSUME NEW u \in Smaller(T)
        PROVE  h[u] = I(u)
    <3>1. Adds(f, u, Adder(f, u)) /\ u \in SUBSET T /\ IsFiniteSet(u)
      BY <1>1, FS_Subset DEF Smaller
    <3>2. I(u) = IF u = {} THEN 0 ELSE f[Picked(u)] + Adder(f, u)[u \ {Picked(u)}]
      BY <3>1 DEF Adds
    <3>3. ASSUME u # {}
          PROVE  Adder(f, u)[u \ {Picked(u)}] = I(u \ {Picked(u)})
      <4> DEFINE v == u \ {Picked(u)}
      <4>1. v \in Smaller(T) /\ v \in SUBSET u
        BY PickedIn, <3>3 DEF Smaller
      <4>2. Adds(f, v, Adder(f, v))
        BY <1>1, <4>1
      <4> HIDE DEF v
      <4>3. \A U \in SUBSET v : Adder(f, u)[U] = Adder(f, v)[U]
        BY <3>1, <4>1, <4>2, AddsAgree
      <4> QED
        BY <4>3 DEF v
    <3>4. h[u] = IF u = {} THEN 0 ELSE f[Picked(u)] + I(u \ {Picked(u)})
      BY <3>1
    <3> HIDE DEF h, I
    <3> QED
      BY <3>2, <3>3, <3>4
  <2>2. \A s \in SUBSET T : s # {} => s \ {Picked(s)} \in Smaller(T)
    BY PickedIn DEF Smaller
  <2>3. \A s \in SUBSET T : s # {} => I(s \ {Picked(s)}) = h[s \ {Picked(s)}]
    <3> HIDE DEF h, I
    <3> QED
      BY <2>1, <2>2
  <2>4. Adds(f, T, h)
    <3> DEFINE e(g) == [s \in SUBSET T |->
                          IF s = {} THEN 0 ELSE f[Picked(s)] + g[s \ {Picked(s)}]]
    <3>1. h = e(h)
      BY <2>3
    <3> HIDE DEF h
    <3> QED
      BY <3>1 DEF Adds
  <2>5. Adds(f, T, Adder(f, T))
    <3> HIDE DEF h
    <3> QED
      BY <2>4 DEF Adder
  <2> QED
    BY <2>5
<1>2. SUBSET S \subseteq G
  <2> HIDE DEF G
  <2> QED
    BY <1>1, SubsetInduction
<1> QED
  BY <1>2

\* The recursion of the sum
LEMMA SumUnfold ==
    ASSUME NEW f, NEW S, IsFiniteSet(S)
    PROVE  SumFunctionOnSet(f, S) =
             IF S = {} THEN 0 ELSE f[Picked(S)] + SumFunctionOnSet(f, S \ {Picked(S)})
<1> DEFINE T == S \ {Picked(S)}
<1>1. Adds(f, S, Adder(f, S)) /\ Adds(f, T, Adder(f, T))
  BY AdderAdds, FS_Subset
<1>2. Adder(f, S)[S] = IF S = {} THEN 0 ELSE f[Picked(S)] + Adder(f, S)[T]
  BY <1>1 DEF Adds
<1>3. Adder(f, S)[T] = Adder(f, T)[T]
  BY <1>1, AddsAgree
<1> QED
  BY <1>2, <1>3, SumAdder

\* Nothing sums to nothing.
LEMMA SumEmpty == ASSUME NEW f PROVE SumFunctionOnSet(f, {}) = 0
BY SumUnfold, FS_EmptySet

\* A finite sum of integers is an integer.
LEMMA SumInt ==
    ASSUME NEW f, NEW S, IsFiniteSet(S), \A x \in S : f[x] \in Int
    PROVE  SumFunctionOnSet(f, S) \in Int
<1> DEFINE G == {T \in SUBSET S : SumFunctionOnSet(f, T) \in Int}
<1>1. ASSUME NEW T \in SUBSET S, Smaller(T) \subseteq G
      PROVE  T \in G
  <2>1. IsFiniteSet(T)
    BY FS_Subset
  <2>2. SumFunctionOnSet(f, T) =
          IF T = {} THEN 0 ELSE f[Picked(T)] + SumFunctionOnSet(f, T \ {Picked(T)})
    BY <2>1, SumUnfold
  <2>3. CASE T = {}
    BY <2>2, <2>3
  <2>4. CASE T # {}
    <3>1. f[Picked(T)] \in Int /\ SumFunctionOnSet(f, T \ {Picked(T)}) \in Int
      BY <1>1, <2>4, PickedIn DEF Smaller
    <3> QED
      BY <2>2, <2>4, <3>1
  <2> QED
    BY <2>3, <2>4
<1>2. SUBSET S \subseteq G
  <2> HIDE DEF G
  <2> QED
    BY <1>1, SubsetInduction
<1> QED
  BY <1>2

\* Equal terms have equal sums.
LEMMA SumSame ==
    ASSUME NEW f, NEW g, NEW S, IsFiniteSet(S), \A x \in S : f[x] = g[x]
    PROVE  SumFunctionOnSet(f, S) = SumFunctionOnSet(g, S)
<1> DEFINE G == {T \in SUBSET S : SumFunctionOnSet(f, T) = SumFunctionOnSet(g, T)}
<1>1. ASSUME NEW T \in SUBSET S, Smaller(T) \subseteq G
      PROVE  T \in G
  <2>1. IsFiniteSet(T)
    BY FS_Subset
  <2>2. T # {} => /\ Picked(T) \in T
                  /\ SumFunctionOnSet(f, T \ {Picked(T)}) = SumFunctionOnSet(g, T \ {Picked(T)})
    BY <1>1, PickedIn DEF Smaller
  <2> QED
    BY <2>1, <2>2, SumUnfold
<1>2. SUBSET S \subseteq G
  <2> HIDE DEF G
  <2> QED
    BY <1>1, SubsetInduction
<1> QED
  BY <1>2

\* Any member may be taken out of a sum first.
LEMMA SumRemove ==
    ASSUME NEW f, NEW S, IsFiniteSet(S), \A x \in S : f[x] \in Int, NEW x \in S
    PROVE  SumFunctionOnSet(f, S) = f[x] + SumFunctionOnSet(f, S \ {x})
<1> DEFINE Sum(T) == SumFunctionOnSet(f, T)
           G == {T \in SUBSET S : \A y \in T : Sum(T) = f[y] + Sum(T \ {y})}
<1>1. ASSUME NEW T \in SUBSET S, Smaller(T) \subseteq G
      PROVE  T \in G
  <2> SUFFICES ASSUME NEW y \in T PROVE Sum(T) = f[y] + Sum(T \ {y})
    OBVIOUS
  <2> DEFINE c == Picked(T)
             U == (T \ {c}) \ {y}
  <2>1. IsFiniteSet(T) /\ c \in T
    BY FS_Subset, PickedIn
  <2>2. Sum(T) = f[c] + Sum(T \ {c})
    BY <2>1, SumUnfold
  <2>3. CASE y = c
    BY <2>2, <2>3
  <2>4. CASE y # c
    <3>1. T \ {c} \in G /\ T \ {y} \in G
      BY <1>1, <2>1 DEF Smaller
    <3>2. Sum(T \ {c}) = f[y] + Sum(U)
      BY <2>4, <3>1
    <3>3. Sum(T \ {y}) = f[c] + Sum((T \ {y}) \ {c})
      BY <2>1, <2>4, <3>1
    <3>4. (T \ {y}) \ {c} = U
      OBVIOUS
    <3>5. Sum(U) \in Int
      <4>1. IsFiniteSet(U) /\ \A z \in U : f[z] \in Int
        BY <2>1, FS_Subset
      <4> QED
        BY <4>1, SumInt
    <3>6. f[c] \in Int /\ f[y] \in Int
      BY <2>1
    <3>7. f[c] + (f[y] + Sum(U)) = f[y] + (f[c] + Sum(U))
      BY <3>5, <3>6
    <3> QED
      BY <2>2, <3>2, <3>3, <3>4, <3>7
  <2> QED
    BY <2>3, <2>4
<1>2. SUBSET S \subseteq G
  <2> HIDE DEF G
  <2> QED
    BY <1>1, SubsetInduction
<1> QED
  BY <1>2

\* What x adds to the sum of f over S
Term(f, S, x) == IF x \in S THEN f[x] ELSE 0

\* A sum is one term and the sum of the others.
LEMMA SumSplit ==
    ASSUME NEW f, NEW S, IsFiniteSet(S), \A y \in S : f[y] \in Int, NEW x
    PROVE  /\ SumFunctionOnSet(f, S) = Term(f, S, x) + SumFunctionOnSet(f, S \ {x})
           /\ SumFunctionOnSet(f, S) \in Int /\ SumFunctionOnSet(f, S \ {x}) \in Int
           /\ Term(f, S, x) \in Int
<1>1. SumFunctionOnSet(f, S) \in Int
  BY SumInt
<1>2. IsFiniteSet(S \ {x}) /\ \A y \in S \ {x} : f[y] \in Int
  BY FS_Subset
<1>3. SumFunctionOnSet(f, S \ {x}) \in Int
  BY <1>2, SumInt
<1>4. CASE x \in S
  BY <1>1, <1>3, <1>4, SumRemove DEF Term
<1>5. CASE x \notin S
  <2>1. S \ {x} = S /\ Term(f, S, x) = 0
    BY <1>5 DEF Term
  <2>2. SumFunctionOnSet(f, S) = SumFunctionOnSet(f, S \ {x})
    BY <2>1
  <2> QED
    BY <1>1, <1>3, <2>1, <2>2
<1> QED
  BY <1>4, <1>5

-----------------------------------------------------------------------------
(* Tiers.  The exit quantities telescope, so what a stop has still to sell *)
(* changes only when a tier is sold.                                       *)

\* The tiers of a stop are reached from the lowest on, and only a reached
\* tier waits for its exit.
Shaped(s) == s.reached \in {{}, {1}, {1, 2}} /\ s.exits \subseteq s.reached

\* What the position of an untroubled stop holds.
Unsold(s) == Left(Cardinality(s.reached)) + SumFunctionOnSet(ExitQuantities, s.exits)

\* What a trade holds, or will hold once its order is filled.
Due(t) == IF trades[t].st = "pending" THEN Quantity ELSE trades[t].held

Tiered ==
    /\ \A p \in Pair : HasStop(p) => Shaped(stops[p])
    /\ \A t \in Trade : Open(t) /\ Owns(t) /\ t \notin uneven =>
          Due(t) = Unsold(stops[trades[t].pair])

\* There are two tiers.
LEMMA TwoTiers == 1..Len(Tiers) = {1, 2}
BY DEF Tiers

\* The parts of a position are natural numbers that sum to the whole.
LEMMA Parts ==
    /\ Left(0) = Quantity
    /\ Left(0) \in Nat /\ Left(1) \in Nat /\ Left(2) \in Nat
    /\ ExitQuantity(1) \in Nat /\ ExitQuantity(2) \in Nat
    /\ Left(0) = ExitQuantity(1) + Left(1)
    /\ Left(1) = ExitQuantity(2) + Left(2)
<1>1. Quantity \in Nat
  BY ExitAssumption DEF ExitAssumption
<1>2. ASSUME NEW n \in Nat, NEW k \in {1, 2}
      PROVE  After(n, k) \in Nat /\ n - After(n, k) \in Nat
  <2>1. CASE k = 1
    <3>1. After(n, 1) = n - (n * 33) \div 100
      BY DEF After, Tiers
    <3>2. (n * 33) \div 100 \in Nat /\ (n * 33) \div 100 <= n
      OBVIOUS
    <3> QED
      BY <2>1, <3>1, <3>2
  <2>2. CASE k = 2
    <3>1. After(n, 2) = n - (n * 50) \div 100
      BY DEF After, Tiers
    <3>2. (n * 50) \div 100 \in Nat /\ (n * 50) \div 100 <= n
      OBVIOUS
    <3> QED
      BY <2>2, <3>1, <3>2
  <2> QED
    BY <2>1, <2>2
<1>3. /\ Left(0) = Quantity /\ Left(1) = After(Quantity, 1)
      /\ Left(2) = After(After(Quantity, 1), 2)
  BY DEF Left
<1>4. ExitQuantity(1) = Left(0) - Left(1) /\ ExitQuantity(2) = Left(1) - Left(2)
  BY DEF ExitQuantity
<1>5. Left(1) \in Nat /\ Left(0) - Left(1) \in Nat
  BY <1>1, <1>2, <1>3
<1>6. Left(2) \in Nat /\ Left(1) - Left(2) \in Nat
  BY <1>2, <1>3, <1>5
<1> QED
  BY <1>1, <1>3, <1>4, <1>5, <1>6

\* The sizes of the sets of reached tiers
LEMMA TierCounts ==
    Cardinality({}) = 0 /\ Cardinality({1}) = 1 /\ Cardinality({1, 2}) = 2
<1>1. Cardinality({}) = 0 /\ IsFiniteSet({})
  BY FS_EmptySet
<1>2. Cardinality({1}) = 1 /\ IsFiniteSet({1})
  BY FS_Singleton
<1>3. Cardinality({1} \cup {2}) = 2
  BY <1>2, FS_AddElement
<1>4. {1} \cup {2} = {1, 2}
  OBVIOUS
<1> QED
  BY <1>1, <1>2, <1>3, <1>4

\* What tier k adds to the exits that wait
Waiting(s, k) == IF k \in s.exits THEN ExitQuantity(k) ELSE 0

\* The sum over the exits that wait, written out
LEMMA UnsoldParts ==
    ASSUME NEW s, Shaped(s)
    PROVE  /\ Unsold(s) = Left(Cardinality(s.reached)) + Waiting(s, 1) + Waiting(s, 2)
           /\ Left(Cardinality(s.reached)) \in Nat
           /\ Waiting(s, 1) \in Nat /\ Waiting(s, 2) \in Nat
<1> DEFINE f == ExitQuantities
           S == s.exits
<1>1. /\ S \subseteq {1, 2} /\ IsFiniteSet(S)
  <2>1. IsFiniteSet({1, 2})
    <3>1. IsFiniteSet({1}) /\ {1} \cup {2} = {1, 2}
      BY FS_Singleton
    <3> QED
      BY <3>1, FS_AddElement
  <2> QED
    BY <2>1, FS_Subset DEF Shaped
<1>2. /\ f[1] = ExitQuantity(1) /\ f[2] = ExitQuantity(2)
      /\ ExitQuantity(1) \in Nat /\ ExitQuantity(2) \in Nat
  BY TwoTiers, Parts DEF ExitQuantities
<1>3. \A x \in S : f[x] \in Int
  BY <1>1, <1>2
<1>4. SumFunctionOnSet(f, S) = Term(f, S, 1) + SumFunctionOnSet(f, S \ {1})
  <2>1. IsFiniteSet(S) /\ \A y \in S : f[y] \in Int
    BY <1>1, <1>3
  <2> HIDE DEF f, S
  <2> QED
    BY <2>1, SumSplit
<1>5. SumFunctionOnSet(f, S \ {1}) = Term(f, S \ {1}, 2) + SumFunctionOnSet(f, (S \ {1}) \ {2})
  <2>1. IsFiniteSet(S \ {1}) /\ \A x \in S \ {1} : f[x] \in Int
    BY <1>1, <1>3, FS_Subset
  <2> DEFINE T == S \ {1}
  <2> HIDE DEF f, T
  <2> QED
    BY <2>1, SumSplit DEF T
<1>6. SumFunctionOnSet(f, (S \ {1}) \ {2}) = 0
  <2>1. (S \ {1}) \ {2} = {}
    BY <1>1
  <2> QED
    BY <2>1, SumEmpty
<1>7. /\ Term(f, S, 1) = Waiting(s, 1) /\ Term(f, S \ {1}, 2) = Waiting(s, 2)
      /\ Waiting(s, 1) \in Nat /\ Waiting(s, 2) \in Nat
  BY <1>2 DEF Term, Waiting
<1>8. Left(Cardinality(s.reached)) \in Nat
  BY Parts, TierCounts DEF Shaped
<1>9. SumFunctionOnSet(f, S) = Waiting(s, 1) + Waiting(s, 2)
  BY <1>4, <1>5, <1>6, <1>7
<1> QED
  BY <1>7, <1>8, <1>9 DEF Unsold

\* A stop nothing has reached has the whole position to sell.
LEMMA UnsoldNew ==
    ASSUME NEW s, s.reached = {}, s.exits = {}
    PROVE  Shaped(s) /\ Unsold(s) = Quantity
<1>1. Shaped(s)
  BY DEF Shaped
<1>2. Left(Cardinality(s.reached)) = Quantity /\ Quantity \in Nat
  BY Parts, TierCounts
<1>3. Waiting(s, 1) = 0 /\ Waiting(s, 2) = 0
  BY DEF Waiting
<1>4. Unsold(s) = Left(Cardinality(s.reached)) + Waiting(s, 1) + Waiting(s, 2)
  BY <1>1, UnsoldParts
<1> QED
  BY <1>1, <1>2, <1>3, <1>4

\* Stops that agree on their tiers have the same to sell.
LEMMA UnsoldSame ==
    ASSUME NEW s, NEW r, r.reached = s.reached, r.exits = s.exits
    PROVE  Unsold(r) = Unsold(s) /\ (Shaped(s) => Shaped(r))
BY DEF Unsold, Shaped

\* A price that reaches the second tier reaches the first.
LEMMA TiersAtShape ==
    ASSUME NEW s \in Stop, NEW x \in Price
    PROVE  TiersAt(s, x) \in {{}, {1}, {1, 2}}
<1>1. s.entry \in Nat /\ x \in Nat
  BY Levels DEF Stop
<1>2. TiersAt(s, x) = {k \in {1, 2} : 100 * x >= s.entry * (100 + Tiers[k].trigger)}
  BY TwoTiers DEF TiersAt
<1>3. /\ 1 \in TiersAt(s, x) <=> 100 * x >= s.entry * 103
      /\ 2 \in TiersAt(s, x) <=> 100 * x >= s.entry * 106
  BY <1>1, <1>2 DEF Tiers
<1>4. 2 \in TiersAt(s, x) => 1 \in TiersAt(s, x)
  BY <1>1, <1>3
<1>5. TiersAt(s, x) \subseteq {1, 2}
  BY <1>2
<1> QED
  BY <1>4, <1>5

\* Reaching a tier moves its quantity from what is left to what waits.
LEMMA CheckTiersSells ==
    ASSUME NEW s \in Stop, NEW x \in Price, Shaped(s)
    PROVE  LET c == CheckTiers(s, x) IN Shaped(c) /\ Unsold(c) = Unsold(s)
<1> DEFINE c == CheckTiers(s, x)
           T == TiersAt(s, x)
<1>1. T \in {{}, {1}, {1, 2}}
  BY TiersAtShape
<1>2. c.reached = s.reached \cup T /\ c.exits = s.exits \cup (T \ s.reached)
  BY DEF CheckTiers, Stop
<1> SUFFICES Shaped(c) /\ Unsold(c) = Unsold(s)
  OBVIOUS
<1> HIDE DEF c, T
<1>3. c.reached \in {{}, {1}, {1, 2}} /\ c.exits \subseteq c.reached
  BY <1>1, <1>2 DEF Shaped
<1>4. Shaped(c)
  BY <1>3 DEF Shaped
<1>5. /\ Unsold(c) = Left(Cardinality(c.reached)) + Waiting(c, 1) + Waiting(c, 2)
      /\ Unsold(s) = Left(Cardinality(s.reached)) + Waiting(s, 1) + Waiting(s, 2)
      /\ Waiting(s, 1) \in Nat /\ Waiting(s, 2) \in Nat
  BY <1>4, UnsoldParts
<1>6. CASE s.reached = {} /\ c.reached = {}
  BY <1>2, <1>3, <1>5, <1>6, UnsoldSame DEF Shaped
<1>7. CASE s.reached = {} /\ c.reached = {1}
  <2>1. s.exits = {} /\ c.exits = {1}
    BY <1>2, <1>7 DEF Shaped
  <2>2. Waiting(s, 1) = 0 /\ Waiting(s, 2) = 0
        /\ Waiting(c, 1) = ExitQuantity(1) /\ Waiting(c, 2) = 0
    BY <2>1 DEF Waiting
  <2>3. Cardinality(s.reached) = 0 /\ Cardinality(c.reached) = 1
    BY <1>7, TierCounts
  <2> QED
    BY <1>4, <1>5, <2>2, <2>3, Parts
<1>8. CASE s.reached = {} /\ c.reached = {1, 2}
  <2>1. s.exits = {} /\ c.exits = {1, 2}
    BY <1>2, <1>8 DEF Shaped
  <2>2. Waiting(s, 1) = 0 /\ Waiting(s, 2) = 0
        /\ Waiting(c, 1) = ExitQuantity(1) /\ Waiting(c, 2) = ExitQuantity(2)
    BY <2>1 DEF Waiting
  <2>3. Cardinality(s.reached) = 0 /\ Cardinality(c.reached) = 2
    BY <1>8, TierCounts
  <2> QED
    BY <1>4, <1>5, <2>2, <2>3, Parts
<1>9. CASE s.reached = {1} /\ c.reached = {1, 2}
  <2>1. 2 \notin s.exits /\ c.exits = s.exits \cup {2}
    BY <1>1, <1>2, <1>9 DEF Shaped
  <2>2. Waiting(s, 2) = 0 /\ Waiting(c, 1) = Waiting(s, 1) /\ Waiting(c, 2) = ExitQuantity(2)
    BY <2>1 DEF Waiting
  <2>3. Cardinality(s.reached) = 1 /\ Cardinality(c.reached) = 2
    BY <1>9, TierCounts
  <2> QED
    BY <1>4, <1>5, <2>2, <2>3, Parts
<1>10. CASE c.reached = s.reached
  <2>1. c.exits = s.exits
    BY <1>2, <1>10
  <2> QED
    BY <1>4, <1>10, <2>1, UnsoldSame DEF c
<1>11. \/ s.reached = {} /\ c.reached = {1}
       \/ s.reached = {} /\ c.reached = {1, 2}
       \/ s.reached = {1} /\ c.reached = {1, 2}
       \/ c.reached = s.reached
  BY <1>1, <1>2 DEF Shaped
<1> QED
  BY <1>4, <1>7, <1>8, <1>9, <1>10, <1>11 DEF c

\* ... and so does a price update, which checks the tiers and trails.
LEMMA UpdateSells ==
    ASSUME NEW s \in Stop, NEW x \in Price, Shaped(s)
    PROVE  Shaped(Update(s, x)) /\ Unsold(Update(s, x)) = Unsold(s)
<1> DEFINE c == CheckTiers(s, x)
           new == x * (100 - TrailPct)
           raised == IF x > c.high
                     THEN [c EXCEPT !.high = x, !.at = IF new > @ THEN new ELSE @]
                     ELSE c
<1>1. Shaped(c) /\ Unsold(c) = Unsold(s)
  BY CheckTiersSells
<1>2. c \in Stop
  BY DEF CheckTiers, TiersAt, Stop
<1>3. raised.reached = c.reached /\ raised.exits = c.exits
      /\ DOMAIN raised = DOMAIN c
  <2> DEFINE at == IF new > c.at THEN new ELSE c.at
  <2>1. CASE x > c.high
    <3>1. raised = [c EXCEPT !.high = x, !.at = at]
      BY <2>1, Zenon
    <3> HIDE DEF raised, at, c
    <3> QED
      BY <1>2, <3>1 DEF Stop
  <2>2. CASE ~(x > c.high)
    <3>1. raised = c
      BY <2>2, Zenon
    <3> QED
      BY <3>1
  <2> QED
    BY <2>1, <2>2
<1>4. Trail(c, x) = [raised EXCEPT !.fired = ~c.early /\ 100 * x <= raised.at]
  BY Zenon DEF Trail
<1>5. Trail(c, x).reached = c.reached /\ Trail(c, x).exits = c.exits
  <2> DEFINE r == Trail(c, x)
             hit == ~c.early /\ 100 * x <= raised.at
  <2>1. r = [raised EXCEPT !.fired = hit]
    BY <1>4
  <2>2. DOMAIN c = {"for", "entry", "high", "at", "fired", "reached", "exits", "early"}
    <3> HIDE DEF c
    <3> QED BY <1>2 DEF Stop
  <2> HIDE DEF r, hit, raised, c
  <2>3. r.reached = raised.reached /\ r.exits = raised.exits
    BY <1>3, <2>1, <2>2
  <2> QED
    BY <1>3, <2>3 DEF r
<1>6. CASE s.fired
  BY <1>6 DEF Update
<1>7. CASE ~s.fired
  <2>1. Update(s, x) = Trail(c, x)
    BY <1>7 DEF Update
  <2>2. Unsold(Trail(c, x)) = Unsold(c) /\ Shaped(Trail(c, x))
    <3> HIDE DEF c
    <3> QED BY <1>1, <1>5, UnsoldSame
  <2> QED
    BY <1>1, <2>1, <2>2
<1> QED
  BY <1>6, <1>7

\* A stop goes, or stays with its owner and with what it has to sell.
StopStays(p) ==
    HasStop(p)' =>
        /\ HasStop(p) /\ stops'[p].for = stops[p].for
        /\ Shaped(stops[p]) =>
              Shaped(stops'[p]) /\ Unsold(stops'[p]) = Unsold(stops[p])

\* A stop is new, and so is the position of its owner.
StopNew(p) ==
    /\ HasStop(p)' /\ stops'[p].reached = {} /\ stops'[p].exits = {}
    /\ \A t \in Trade : stops'[p].for = t => Due(t)' = Quantity

\* A trade that is open was open before, or is new.
TradeStays(t) ==
    Open(t)' /\ trades[t].st # "none" =>
        Open(t) /\ trades'[t].pair = trades[t].pair /\ Due(t)' = Due(t)

\* Steps of this kind leave every position and its tiers in balance.
LEMMA TieredKept ==
    ASSUME TypeOK', IInv, Tiered, uneven \subseteq uneven',
           \A p \in Pair : StopStays(p) \/ StopNew(p),
           \A t \in Trade : TradeStays(t)
    PROVE  Tiered'
<1>1. ASSUME NEW p \in Pair, HasStop(p)'
      PROVE  Shaped(stops'[p])
  <2>1. CASE StopStays(p)
    BY <1>1, <2>1 DEF StopStays, Tiered
  <2>2. CASE StopNew(p)
    BY <2>2, UnsoldNew DEF StopNew
  <2> QED
    BY <2>1, <2>2
<1>2. ASSUME NEW t \in Trade, Open(t)', Owns(t)', t \notin uneven'
      PROVE  Due(t)' = Unsold(stops'[trades'[t].pair])
  <2>0. trades'[t].pair \in Pair
    <3>1. trades'[t] \in Position
      BY DEF TypeOK
    <3> QED
      BY <3>1 DEF Position
  <2> PICK p \in Pair : p = trades'[t].pair
    BY <2>0
  <2>1. stops'[p] # NoStop /\ stops'[p].for = t
    BY <1>2 DEF Owns, HasStop
  <2>2. CASE StopNew(p)
    <3>1. Due(t)' = Quantity
      BY <2>1, <2>2 DEF StopNew
    <3>2. Unsold(stops'[p]) = Quantity
      BY <2>2, UnsoldNew DEF StopNew
    <3> QED
      BY <3>1, <3>2
  <2>3. CASE StopStays(p)
    <3>1. HasStop(p) /\ stops[p].for = t
      BY <2>1, <2>3 DEF StopStays, HasStop
    <3>2. trades[t].st # "none"
      BY <2>1, <3>1 DEF IInv, Guarded, Known
    <3>3. Open(t) /\ p = trades[t].pair /\ Due(t)' = Due(t)
      BY <1>2, <3>2 DEF TradeStays
    <3>4. Due(t) = Unsold(stops[p]) /\ Shaped(stops[p])
      BY <1>2, <2>1, <3>1, <3>3 DEF Tiered, Owns
    <3>5. Unsold(stops'[p]) = Unsold(stops[p])
      BY <2>1, <2>3, <3>4 DEF StopStays, HasStop
    <3> QED
      BY <3>3, <3>4, <3>5
  <2> QED
    BY <2>1, <2>2, <2>3
<1>3. \A p \in Pair : HasStop(p)' => Shaped(stops[p])'
  BY <1>1
<1>4. \A t \in Trade : Open(t)' /\ Owns(t)' /\ t \notin uneven' =>
         Due(t)' = Unsold(stops[trades[t].pair])'
  BY <1>2
<1> QED
  BY <1>3, <1>4 DEF Tiered

LEMMA StopStaysUnchanged ==
    ASSUME NEW p, stops'[p] \in {stops[p], NoStop}
    PROVE  StopStays(p)
BY DEF StopStays, HasStop

LEMMA TradeStaysUnchanged ==
    ASSUME UNCHANGED trades
    PROVE  \A t \in Trade : TradeStays(t)
BY DEF TradeStays, Open, Due

\* A close leaves the other trades and their holdings alone.
LEMMA CloseStays ==
    ASSUME TypeOK, NEW t \in Trade, trades[t].st = "filled",
           NEW sold, NEW records, ClosePosition(t, sold, records)
    PROVE  \A u \in Trade : TradeStays(u)
<1>1. CASE UNCHANGED trades
  BY <1>1, TradeStaysUnchanged
<1>2. CASE trades' = [trades EXCEPT ![t] = Over(@, "closed")]
  <2>1. Over(trades[t], "closed").st = "closed"
    BY TradeFields, OverType
  <2> QED
    BY <1>2, <2>1 DEF TypeOK, TradeStays, Open, Due
<1> QED
  BY <1>1, <1>2 DEF ClosePosition

LEMMA RemoveStopStays ==
    ASSUME TypeOK, NEW p \in Pair, NEW closed, RemoveStop(p, closed)
    PROVE  \A q \in Pair : StopStays(q)
<1>1. stops' = [stops EXCEPT ![p] = NoStop]
  BY DEF RemoveStop
<1>2. \A q \in Pair : stops'[q] \in {stops[q], NoStop}
  BY <1>1 DEF TypeOK
<1> QED
  BY <1>2, StopStaysUnchanged

\* A new trade with the stop AddStop gives it, if it gives one
LEMMA AddStopTiered ==
    ASSUME IInv, TypeOK', Tiered, NEW t \in Trade, NEW p \in Pair, NEW tr,
           NEW entry \in Price,
           trades[t].st = "none",
           trades' = [trades EXCEPT ![t] = tr],
           tr.st = "pending" \/ tr.held = Quantity,
           AddStop(t, p, entry), uneven' = uneven
    PROVE  Tiered'
<1> DEFINE level == entry * (100 - StopLossPct)
           new == NewStop(t, entry, level)
<1>1. new \in Stop /\ new # NoStop /\ new.for = t /\ new.reached = {} /\ new.exits = {}
  <2>1. level \in Nat
    BY Levels
  <2> HIDE DEF level
  <2>2. new \in Stop /\ new # NoStop /\ new.for = t
    BY <2>1, NewStopType
  <2> QED
    BY <2>2 DEF NewStop
<1>2. trades'[t] = tr /\ \A u \in Trade \ {t} : trades'[u] = trades[u]
  BY DEF IInv, TypeOK
<1>3. Due(t)' = Quantity
  BY <1>2 DEF Due
<1>4. stops' = [stops EXCEPT ![p] = new] \/ stops' = stops
  BY DEF AddStop
<1> HIDE DEF new
<1>5. ASSUME NEW q \in Pair
      PROVE  StopStays(q) \/ StopNew(q)
  <2>1. CASE stops'[q] = stops[q]
    BY <2>1, StopStaysUnchanged
  <2>2. CASE stops'[q] = new
    BY <1>1, <1>3, <2>2 DEF StopNew, HasStop
  <2> QED
    BY <1>4, <2>1, <2>2 DEF IInv, TypeOK
<1>6. \A u \in Trade : TradeStays(u)
  BY <1>2 DEF TradeStays, Open, Due
<1> QED
  BY <1>5, <1>6, TieredKept

\* The sale of a tier takes its quantity from the trade and from what its stop
\* has still to sell, or the trade is marked.
LEMMA SellTierTiered ==
    ASSUME IInv, TypeOK', Tiered, NEW p \in Pair, NEW k \in 1..Len(Tiers),
           NEW sold \in BOOLEAN, SellTier(p, k, sold)
    PROVE  Tiered'
<1>1. HasStop(p) /\ stops[p] \in Stop /\ k \in stops[p].exits
  BY StopFields DEF SellTier, IInv
<1> DEFINE s == [stops[p] EXCEPT !.exits = @ \ {k}]
<1>2. /\ s.for = stops[p].for /\ s.reached = stops[p].reached
      /\ s.exits = stops[p].exits \ {k} /\ s \in Stop
  BY <1>1 DEF Stop
<1>3. stops' = [stops EXCEPT ![p] = s]
  BY DEF SellTier
<1> HIDE DEF s
<1>4. stops'[p] = s /\ \A q \in Pair \ {p} : stops'[q] = stops[q]
  BY <1>3 DEF IInv, TypeOK
<1>5. Shaped(stops[p]) /\ Shaped(s)
  BY <1>1, <1>2 DEF Tiered, Shaped
<1>6. Unsold(s) = Unsold(stops[p]) - ExitQuantity(k)
  <2> DEFINE r == stops[p]
  <2>1. k \in {1, 2} /\ k \in r.exits
    BY <1>1, TwoTiers
  <2>2. /\ Unsold(r) = Left(Cardinality(r.reached)) + Waiting(r, 1) + Waiting(r, 2)
        /\ Left(Cardinality(r.reached)) \in Nat
        /\ Waiting(r, 1) \in Nat /\ Waiting(r, 2) \in Nat
    BY <1>5, UnsoldParts
  <2>3. Unsold(s) = Left(Cardinality(r.reached)) + Waiting(s, 1) + Waiting(s, 2)
    BY <1>2, <1>5, UnsoldParts
  <2>4. CASE k = 1
    <3>1. /\ Waiting(r, 1) = ExitQuantity(1) /\ Waiting(s, 1) = 0
          /\ Waiting(s, 2) = Waiting(r, 2)
      BY <1>2, <2>1, <2>4 DEF Waiting
    <3> QED
      BY <2>2, <2>3, <2>4, <3>1
  <2>5. CASE k = 2
    <3>1. /\ Waiting(r, 2) = ExitQuantity(2) /\ Waiting(s, 2) = 0
          /\ Waiting(s, 1) = Waiting(r, 1)
      BY <1>2, <2>1, <2>5 DEF Waiting
    <3> QED
      BY <2>2, <2>3, <2>5, <3>1
  <2> QED
    BY <2>1, <2>4, <2>5
<1>7. ASSUME NEW q \in Pair, HasStop(q)'
      PROVE  Shaped(stops'[q])
  BY <1>4, <1>5, <1>7 DEF Tiered, HasStop
<1>8. ASSUME NEW u \in Trade, Open(u)', Owns(u)', u \notin uneven',
             \/ uneven' = uneven \cup ({stops[p].for} \cap Trade) /\ trades' = trades
             \/ \E t \in First(p) : PartialSell(t, k)
      PROVE  Due(u)' = Unsold(stops'[trades'[u].pair])
  <2>1. CASE uneven' = uneven \cup ({stops[p].for} \cap Trade) /\ trades' = trades
    <3>1. trades[u].pair \in Pair /\ stops'[trades[u].pair].for = u /\ HasStop(trades[u].pair)'
      BY <1>8, <2>1 DEF Owns, HasStop, IInv, TypeOK, Position
    <3>2. trades[u].pair # p
      BY <1>2, <1>4, <1>8, <2>1, <3>1
    <3>3. stops'[trades[u].pair] = stops[trades[u].pair]
      BY <1>4, <3>1, <3>2
    <3>4. Open(u) /\ Owns(u) /\ u \notin uneven /\ Due(u)' = Due(u)
      BY <1>8, <2>1, <3>1, <3>3 DEF Open, Owns, HasStop, Due
    <3> QED
      BY <2>1, <3>3, <3>4 DEF Tiered
  <2>2. ASSUME NEW t \in First(p), PartialSell(t, k)
        PROVE  Due(u)' = Unsold(stops'[trades'[u].pair])
    <3>1. t \in Trade /\ trades[t].pair = p /\ trades[t].st = "filled"
      BY DEF First, Filled
    <3>2. trades[t] \in Position /\ trades[t].held \in Nat
      BY <3>1, TradeFields DEF IInv
    <3> DEFINE qty == Capped(p, ExitQuantity(k))
               rest == trades[t].held - qty
               tr == IF rest > 0 THEN [trades[t] EXCEPT !.held = rest]
                                 ELSE Over(trades[t], "closed")
    <3>3. /\ trades' = [trades EXCEPT ![t] = tr]
          /\ uneven' = IF t = stops[p].for /\ qty = ExitQuantity(k)
                       THEN uneven ELSE uneven \cup {t} \cup ({stops[p].for} \cap Trade)
      BY <2>2, <3>1 DEF PartialSell
    <3>4. tr.st \in {"pending", "filled"} =>
             tr.st = "filled" /\ tr.pair = p /\ tr.held = rest
      <4>1. CASE rest > 0
        <5>1. tr = [trades[t] EXCEPT !.held = rest]
          BY <4>1
        <5> HIDE DEF tr, rest
        <5> QED
          BY <3>1, <3>2, <5>1 DEF Position
      <4>2. CASE ~(rest > 0)
        <5>1. tr = Over(trades[t], "closed")
          BY <4>2
        <5> HIDE DEF tr, rest
        <5> QED
          BY <3>2, <5>1, OverType
      <4> QED
        BY <4>1, <4>2
    <3> HIDE DEF tr
    <3>5. trades'[t] = tr /\ \A v \in Trade \ {t} : trades'[v] = trades[v]
      BY <3>1, <3>3 DEF IInv, TypeOK
    <3>6. CASE u = t
      <4>1. tr.st = "filled" /\ tr.pair = p /\ tr.held = rest /\ trades'[u] = tr
        BY <1>8, <3>4, <3>5, <3>6 DEF Open
      <4>2. stops[p].for = t
        BY <1>2, <1>4, <1>8, <3>6, <4>1 DEF Owns
      <4>3. qty = ExitQuantity(k) /\ u \notin uneven
        BY <1>8, <3>3, <3>6
      <4>4. Owns(t) /\ Open(t) /\ t \notin uneven
        BY <1>1, <3>1, <3>6, <4>2, <4>3 DEF Owns, Open
      <4>5. trades[t].held = Unsold(stops[p])
        BY <3>1, <4>4 DEF Tiered, Due
      <4>6. Due(u)' = rest
        BY <4>1 DEF Due
      <4>7. Due(u)' = Unsold(stops[p]) - ExitQuantity(k)
        BY <4>3, <4>5, <4>6
      <4> QED
        BY <1>4, <1>6, <4>1, <4>7
    <3>7. CASE u # t
      <4>1. trades'[u] = trades[u] /\ trades[u].pair \in Pair
        BY <3>5, <3>7 DEF IInv, TypeOK, Position
      <4>2. trades[u].pair # p
        <5>1. SUFFICES ASSUME trades[u].pair = p PROVE FALSE
          OBVIOUS
        <5>2. stops[p].for = u
          BY <1>2, <1>4, <1>8, <4>1, <5>1 DEF Owns
        <5>3. u \in uneven'
          BY <3>3, <3>7, <5>2
        <5> QED
          BY <1>8, <5>3
      <4>3. stops'[trades[u].pair] = stops[trades[u].pair]
        BY <1>4, <4>1, <4>2
      <4>4. Open(u) /\ Owns(u) /\ u \notin uneven /\ Due(u)' = Due(u)
        BY <1>8, <3>3, <4>1, <4>3 DEF Open, Owns, HasStop, Due
      <4> QED
        BY <4>1, <4>3, <4>4 DEF Tiered
    <3> QED
      BY <3>6, <3>7
  <2> QED
    BY <1>8, <2>1, <2>2
<1>9. \/ /\ uneven' = uneven \cup ({stops[p].for} \cap Trade) /\ trades' = trades
      \/ \E t \in First(p) : PartialSell(t, k)
  BY DEF SellTier
<1>10. \A q \in Pair : HasStop(q)' => Shaped(stops[q])'
  BY <1>7
<1>11. \A u \in Trade : Open(u)' /\ Owns(u)' /\ u \notin uneven' =>
          Due(u)' = Unsold(stops[trades[u].pair])'
  BY <1>8, <1>9
<1> QED
  BY <1>10, <1>11 DEF Tiered

LEMMA InitTiered == Init => Tiered
<1> SUFFICES ASSUME Init PROVE Tiered
  OBVIOUS
<1>1. Unused.st = "none"
  BY DEF Unused
<1>2. \A p \in Pair : ~HasStop(p)
  BY DEF Init, HasStop
<1>3. \A t \in Trade : ~Open(t)
  BY <1>1 DEF Init, Open
<1> QED
  BY <1>2, <1>3 DEF Tiered

LEMMA StepTiered ==
    ASSUME IInv, Listed, Tiered, TypeOK', [Next]_vars
    PROVE  Tiered'
<1>1. ASSUME UNCHANGED trades, uneven \subseteq uneven', \A p \in Pair : StopStays(p)
      PROVE  Tiered'
  BY <1>1, TradeStaysUnchanged, TieredKept
<1>2. ASSUME UNCHANGED <<stops, uneven>>, \A t \in Trade : TradeStays(t)
      PROVE  Tiered'
  BY <1>2, StopStaysUnchanged, TieredKept
<1>3. CASE UNCHANGED vars
  <2>1. UNCHANGED <<trades, stops, uneven>>
    BY <1>3 DEF vars, ghostVars
  <2> QED
    BY <1>2, <2>1, TradeStaysUnchanged
<1>4. ASSUME NEW t \in Trade, NEW p \in Pair, Buy(t, p) PROVE Tiered'
  <2> DEFINE tr == [st |-> "filled", pair |-> p, entry |-> price[p], basis |-> price[p],
                     held |-> Quantity]
  <2>1. /\ price[p] \in Price /\ tr.held = Quantity
        /\ trades' = [trades EXCEPT ![t] = tr] /\ trades[t].st = "none"
        /\ AddStop(t, p, price[p]) /\ uneven' = uneven
    BY <1>4 DEF Buy, Fresh, IInv, TypeOK
  <2> HIDE DEF tr
  <2> QED
    BY <2>1, AddStopTiered
<1>5. ASSUME NEW t \in Trade, NEW p \in Pair, NEW x \in Price, PlaceResting(t, p, x)
      PROVE  Tiered'
  <2> DEFINE tr == [st |-> "pending", pair |-> p, entry |-> x, basis |-> price[p], held |-> 0]
  <2>1. /\ price[p] \in Price /\ tr.st = "pending"
        /\ trades' = [trades EXCEPT ![t] = tr] /\ trades[t].st = "none"
        /\ AddStop(t, p, price[p]) /\ uneven' = uneven
    BY <1>5 DEF PlaceResting, Fresh, IInv, TypeOK
  <2> HIDE DEF tr
  <2> QED
    BY <2>1, AddStopTiered
<1>6. ASSUME NEW t \in Trade, Settle(t) PROVE Tiered'
  <2>1. trades[t] \in Position /\ trades[t].st = "pending"
    BY <1>6, TradeFields DEF IInv, Settle
  <2>2. \A u \in Trade : TradeStays(u)
    <3>1. CASE trades' = [trades EXCEPT ![t].st = "filled", ![t].held = Quantity]
      <4> DEFINE tr == [trades[t] EXCEPT !.st = "filled", !.held = Quantity]
      <4>1. trades' = [trades EXCEPT ![t] = tr]
        BY <3>1 DEF IInv, TypeOK
      <4>2. tr.st = "filled" /\ tr.held = Quantity /\ tr.pair = trades[t].pair
        BY <2>1 DEF Position
      <4> HIDE DEF tr
      <4> QED
        BY <2>1, <4>1, <4>2 DEF IInv, TypeOK, TradeStays, Open, Due
    <3>2. CASE trades' = [trades EXCEPT ![t] = Over(@, "ended")]
      <4>1. Over(trades[t], "ended").st = "ended"
        BY <2>1, OverType
      <4> QED
        BY <3>2, <4>1 DEF IInv, TypeOK, TradeStays, Open, Due
    <3> QED
      BY <1>6, <3>1, <3>2 DEF Settle
  <2> QED
    BY <1>2, <1>6, <2>2 DEF Settle, ghostVars
<1>7. ASSUME NEW t \in Trade, NEW sold \in BOOLEAN, CheckExit(t, sold) PROVE Tiered'
  <2>1. trades[t].st = "filled"
    BY <1>7 DEF Listed, CheckExit
  <2>2. \A u \in Trade : TradeStays(u)
    <3>1. CASE ClosePosition(t, sold, 1)
      BY <2>1, <3>1, CloseStays DEF IInv
    <3>2. CASE UNCHANGED trades
      BY <3>2, TradeStaysUnchanged
    <3> QED
      BY <1>7, <3>1, <3>2 DEF CheckExit
  <2> QED
    BY <1>2, <1>7, <2>2 DEF CheckExit, ghostVars
<1>8. ASSUME NEW p \in Pair, Discover(p) PROVE Tiered'
  <2> DEFINE new == NewStop(External, price[p], price[p] * (100 - TrailPct))
  <2>1. new # NoStop /\ new.for = External /\ new.reached = {} /\ new.exits = {}
    <3>1. price[p] \in Price
      BY DEF IInv, TypeOK
    <3>2. price[p] * (100 - TrailPct) \in Nat
      BY <3>1, Levels
    <3> DEFINE level == price[p] * (100 - TrailPct)
    <3>3. new = NewStop(External, price[p], level) /\ level \in Nat
      BY <3>2
    <3>4. External \in Trade \cup {External}
      OBVIOUS
    <3> HIDE DEF new, level
    <3>5. new \in Stop
      BY <3>1, <3>3, <3>4, NewStopType
    <3>6. new # NoStop
      BY <3>5, NoStopIsNone
    <3> QED
      BY <3>3, <3>6 DEF NewStop
  <2>2. stops' = [stops EXCEPT ![p] = new] /\ UNCHANGED <<trades, uneven>>
    BY <1>8 DEF Discover, ghostVars
  <2> HIDE DEF new
  <2>3. External \notin Trade
    BY ExitAssumption DEF External, Trade, ExitAssumption
  <2>4. StopNew(p)
    BY <2>1, <2>2, <2>3 DEF StopNew, HasStop, IInv, TypeOK
  <2>5. \A q \in Pair \ {p} : StopStays(q)
    BY <2>2, StopStaysUnchanged DEF IInv, TypeOK
  <2> QED
    BY <2>2, <2>4, <2>5, TradeStaysUnchanged, TieredKept
<1>9. ASSUME NEW p \in Pair, TightenToBreakeven(p) \/ EndMinHold(p) PROVE Tiered'
  <2>1. PICK s : /\ stops' = [stops EXCEPT ![p] = s]
                 /\ s.for = stops[p].for /\ s.reached = stops[p].reached
                 /\ s.exits = stops[p].exits
    <3>1. stops[p] \in Stop
      BY <1>9, StopFields DEF IInv, TightenToBreakeven, EndMinHold
    <3>2. CASE TightenToBreakeven(p)
      <4> DEFINE s == [stops[p] EXCEPT !.at = 100 * stops[p].entry]
      <4>1. stops' = [stops EXCEPT ![p] = s]
        BY <3>2 DEF TightenToBreakeven
      <4>2. s.for = stops[p].for /\ s.reached = stops[p].reached /\ s.exits = stops[p].exits
        BY <3>1 DEF Stop
      <4> HIDE DEF s
      <4> QED
        BY <4>1, <4>2
    <3>3. CASE EndMinHold(p)
      <4> DEFINE s == [stops[p] EXCEPT !.early = FALSE]
      <4>1. stops' = [stops EXCEPT ![p] = s]
        BY <3>3 DEF EndMinHold
      <4>2. s.for = stops[p].for /\ s.reached = stops[p].reached /\ s.exits = stops[p].exits
        BY <3>1 DEF Stop
      <4> HIDE DEF s
      <4> QED
        BY <4>1, <4>2
    <3> QED
      BY <1>9, <3>2, <3>3
  <2>2. HasStop(p) /\ stops'[p] = s
    BY <1>9, <2>1 DEF TightenToBreakeven, EndMinHold, IInv, TypeOK
  <2>3. StopStays(p)
    BY <2>1, <2>2, UnsoldSame DEF StopStays
  <2>4. \A q \in Pair \ {p} : StopStays(q)
    BY <2>1, StopStaysUnchanged DEF IInv, TypeOK
  <2>5. UNCHANGED <<trades, uneven>>
    BY <1>9 DEF TightenToBreakeven, EndMinHold, ghostVars
  <2> QED
    BY <1>1, <2>3, <2>4, <2>5
<1>10. ASSUME NEW p \in Pair, NEW x \in Price, MovePrice(p, x) PROVE Tiered'
  BY <1>2, <1>10, TradeStaysUnchanged DEF MovePrice, ghostVars
<1>11. ASSUME NEW p \in Pair, NEW sold \in BOOLEAN, Liquidate(p, sold) \/ SellFired(p, sold)
       PROVE  Tiered'
  <2>1. \A t \in Trade : TradeStays(t)
    <3>1. \/ UNCHANGED trades
          \/ \E t \in Trade : /\ trades[t].st = "filled"
                              /\ ClosePosition(t, sold, 1) \/ ClosePosition(t, sold, 2)
      BY <1>11 DEF Liquidate, SellFired, First, Filled
    <3> QED
      BY <3>1, TradeStaysUnchanged, CloseStays DEF IInv
  <2>2. \A q \in Pair : StopStays(q)
    <3>1. stops' = stops \/ \E closed : RemoveStop(p, closed)
      BY <1>11 DEF Liquidate, SellFired
    <3> QED
      BY <3>1, RemoveStopStays, StopStaysUnchanged DEF IInv
  <2>3. uneven' = uneven
    BY <1>11 DEF Liquidate, SellFired
  <2> QED
    BY <2>1, <2>2, <2>3, TieredKept
<1>12. ASSUME NEW p \in Pair, NEW k \in 1..Len(Tiers), NEW sold \in BOOLEAN,
              SellTier(p, k, sold)
       PROVE  Tiered'
  BY <1>12, SellTierTiered
<1>13. CASE UpdatePrices
  <2>1. ASSUME NEW p \in Pair PROVE StopStays(p)
    <3>1. CASE HasStop(p)
      <4>1. stops[p] \in Stop /\ price[p] \in Price /\ stops'[p] = Update(stops[p], price[p])
        BY <1>13, <3>1, StopFields DEF IInv, TypeOK, UpdatePrices
      <4>2. stops'[p].for = stops[p].for
        BY <4>1, UpdateKeeps
      <4> QED
        BY <3>1, <4>1, <4>2, UpdateSells DEF StopStays
    <3>2. CASE ~HasStop(p)
      <4>1. stops'[p] = NoStop
        BY <1>13, <3>2 DEF UpdatePrices
      <4> QED
        BY <4>1, StopStaysUnchanged
    <3> QED
      BY <3>1, <3>2
  <2>2. UNCHANGED <<trades, uneven>>
    BY <1>13 DEF UpdatePrices, ghostVars
  <2> QED
    BY <1>1, <2>1, <2>2
<1>14. CASE Advance
  BY <1>2, <1>14, TradeStaysUnchanged DEF Advance, ghostVars
<1> QED
  BY <1>3, <1>4, <1>5, <1>6, <1>7, <1>8, <1>9, <1>10, <1>11, <1>12, <1>13, <1>14 DEF Next

LEMMA TieredInvariance == Spec => [](IInv /\ Listed /\ Tiered)
<1>1. Init => IInv /\ Listed /\ Tiered
  BY InitInv, InitTiered
<1>2. IInv /\ Listed /\ Tiered /\ [Next]_vars => (IInv /\ Listed /\ Tiered)'
  <2> SUFFICES ASSUME IInv, Listed, Tiered, [Next]_vars PROVE (IInv /\ Listed /\ Tiered)'
    OBVIOUS
  <2>1. IInv' /\ Listed'
    BY StepInv
  <2>2. TypeOK'
    BY <2>1 DEF IInv
  <2> QED
    BY <2>1, <2>2, StepTiered
<1> QED
  BY <1>1, <1>2, PTL DEF Spec

\* A trade holds what the tiers of its stop have left it and those reached and
\* not yet sold: stop and trade keep a quantity each, and agree until a tier's
\* sale fails, is cut or goes to another trade.
THEOREM TiersSum == Spec => []TiersSumToHolding
<1>1. IInv /\ Listed /\ Tiered => TiersSumToHolding
  BY DEF Tiered, TiersSumToHolding, Open, Due, Unsold
<1> QED
  BY <1>1, TieredInvariance, PTL

-----------------------------------------------------------------------------
(* Coins.  A step moves the trade of one position; the sum of the holdings *)
(* moves by what that trade held and holds, and so must the balance.       *)

\* The sum over the filled trades of p
Total(p) == SumFunctionOnSet(Holdings, Filled(p))

\* What trade t adds to it
Share(t, p) == Term(Holdings, Filled(p), t)

Found(p) == IF p \in discovered THEN Quantity ELSE 0

\* A finite sum of natural numbers is one.
LEMMA SumNat ==
    ASSUME NEW f, NEW S, IsFiniteSet(S), \A x \in S : f[x] \in Nat
    PROVE  SumFunctionOnSet(f, S) \in Nat
<1> DEFINE G == {T \in SUBSET S : SumFunctionOnSet(f, T) \in Nat}
<1>1. ASSUME NEW T \in SUBSET S, Smaller(T) \subseteq G
      PROVE  T \in G
  <2>1. IsFiniteSet(T)
    BY FS_Subset
  <2>2. SumFunctionOnSet(f, T) =
          IF T = {} THEN 0 ELSE f[Picked(T)] + SumFunctionOnSet(f, T \ {Picked(T)})
    BY <2>1, SumUnfold
  <2>3. T # {} => f[Picked(T)] \in Nat /\ SumFunctionOnSet(f, T \ {Picked(T)}) \in Nat
    BY <1>1, PickedIn DEF Smaller
  <2> QED
    BY <2>2, <2>3
<1>2. SUBSET S \subseteq G
  <2> HIDE DEF G
  <2> QED
    BY <1>1, SubsetInduction
<1> QED
  BY <1>2

\* Holdings are natural numbers, and there are finitely many.
LEMMA HoldingsSum ==
    ASSUME TypeOK, NEW p, NEW S \in SUBSET Filled(p)
    PROVE  IsFiniteSet(S) /\ \A t \in S : Holdings[t] \in Nat /\ Holdings[t] \in Int
<1>1. IsFiniteSet(Trade)
  BY ExitAssumption, FS_Interval DEF Trade, ExitAssumption
<1>2. S \subseteq Trade
  BY DEF Filled
<1>3. IsFiniteSet(S)
  BY <1>1, <1>2, FS_Subset
<1>4. \A t \in Trade : Holdings[t] \in Nat
  BY TradeFields DEF Holdings
<1> QED
  BY <1>2, <1>3, <1>4

\* A trade's part of the sum
Splits(p, t) ==
    /\ Total(p) = Share(t, p) + SumFunctionOnSet(Holdings, Filled(p) \ {t})
    /\ Share(t, p) \in Nat
    /\ SumFunctionOnSet(Holdings, Filled(p) \ {t}) \in Nat
    /\ Share(t, p) = IF trades[t].pair = p /\ trades[t].st = "filled"
                     THEN trades[t].held ELSE 0

LEMMA ShareSplits ==
    ASSUME TypeOK, NEW p, NEW t \in Trade
    PROVE  Splits(p, t)
<1>1. IsFiniteSet(Filled(p)) /\ \A u \in Filled(p) : Holdings[u] \in Int
  BY HoldingsSum
<1>2. Total(p) = Share(t, p) + SumFunctionOnSet(Holdings, Filled(p) \ {t})
  BY <1>1, SumSplit DEF Total, Share
<1>3. SumFunctionOnSet(Holdings, Filled(p) \ {t}) \in Nat
  <2> DEFINE S == Filled(p) \ {t}
  <2>1. S \in SUBSET Filled(p)
    OBVIOUS
  <2>2. IsFiniteSet(S) /\ \A u \in S : Holdings[u] \in Nat
    <3> HIDE DEF S
    <3> QED BY <2>1, HoldingsSum
  <2> QED
    BY <2>2, SumNat
<1>4. Share(t, p) = IF trades[t].pair = p /\ trades[t].st = "filled"
                    THEN trades[t].held ELSE 0
  BY DEF Share, Term, Filled, Holdings
<1>5. Share(t, p) \in Nat
  BY <1>4, TradeFields
<1> QED
  BY <1>2, <1>3, <1>4, <1>5 DEF Splits

AllSharesSplit ==
    \A p \in Pair, t \in Trade : Splits(p, t)

LEMMA SharesSplit == TypeOK => AllSharesSplit
BY ShareSplits DEF AllSharesSplit, Splits

\* ... after a step
LEMMA SharesSplitNext == TypeOK' => AllSharesSplit'
BY SharesSplit, PTL

\* The sum moves with one trade.
LEMMA TotalMoves ==
    ASSUME TypeOK, TypeOK', NEW p \in Pair, NEW t \in Trade,
           \A u \in Trade \ {t} : trades'[u] = trades[u]
    PROVE  Total(p)' + Share(t, p) = Total(p) + Share(t, p)'
           /\ Total(p) \in Nat /\ Total(p)' \in Nat
           /\ Share(t, p) \in Nat /\ Share(t, p)' \in Nat
<1> DEFINE f == Holdings
           S == Filled(p) \ {t}
<1>1. Filled(p)' \ {t} = S
  BY DEF Filled
<1>2. SumFunctionOnSet(Holdings', Filled(p)' \ {t}) = SumFunctionOnSet(f, S)
  <2>1. IsFiniteSet(S) /\ \A u \in S : Holdings'[u] = f[u]
    <3>1. S \in SUBSET Filled(p) /\ S \subseteq Trade \ {t}
      BY DEF Filled
    <3>2. \A u \in Trade \ {t} : Holdings'[u] = f[u]
      BY DEF Holdings
    <3> HIDE DEF S, f
    <3> QED
      BY <3>1, <3>2, HoldingsSum
  <2> HIDE DEF f, S
  <2>2. SumFunctionOnSet(Holdings', S) = SumFunctionOnSet(f, S)
    BY <2>1, SumSame
  <2> QED
    BY <1>1, <2>2
<1>3. /\ Total(p) = Share(t, p) + SumFunctionOnSet(f, S)
      /\ Share(t, p) \in Nat /\ SumFunctionOnSet(f, S) \in Nat
  BY ShareSplits DEF Splits
<1>4. /\ Total(p)' = Share(t, p)' + SumFunctionOnSet(Holdings', Filled(p)' \ {t})
      /\ Share(t, p)' \in Nat
  BY SharesSplitNext DEF AllSharesSplit, Splits
<1> HIDE DEF f, S
<1> QED
  BY <1>2, <1>3, <1>4

\* What a trade adds to the sums before and after a step
LEMMA Shares ==
    ASSUME TypeOK, TypeOK', NEW p \in Pair, NEW t \in Trade
    PROVE  /\ Share(t, p) = IF trades[t].pair = p /\ trades[t].st = "filled"
                            THEN trades[t].held ELSE 0
           /\ Share(t, p)' = IF trades'[t].pair = p /\ trades'[t].st = "filled"
                             THEN trades'[t].held ELSE 0
<1>1. Splits(p, t)
  BY ShareSplits
<1>2. Splits(p, t)'
  BY SharesSplitNext DEF AllSharesSplit
<1> QED
  BY <1>1, <1>2 DEF Splits

LEMMA BooksOfCoins ==
    CoinsBelongToTrades <=> (uneven = {} => \A p \in Pair : coins[p] = Total(p) + Found(p))
BY DEF CoinsBelongToTrades, Total, Found

LEMMA BooksOfCoinsNext ==
    CoinsBelongToTrades' <=>
        (uneven' = {} => \A p \in Pair : coins'[p] = Total(p)' + Found(p)')
BY DEF CoinsBelongToTrades, Total, Found

\* Balance, sum and find, when each balance moves as the trade and the find do
LEMMA Balancing ==
    ASSUME NEW old \in Int, NEW new \in Int, NEW total \in Int, NEW sum \in Int,
           NEW held \in Int, NEW holds \in Int, NEW find \in Int, NEW finds \in Int,
           old = total + find, sum + held = total + holds,
           new + held + find = old + holds + finds
    PROVE  new = sum + finds
OBVIOUS

\* A step on one trade keeps the books when it moves each balance by what it
\* moves of the trade and of the discovered coins.
LEMMA CoinsKept ==
    ASSUME TypeOK, TypeOK', CoinsBelongToTrades, NEW t \in Trade,
           \A u \in Trade \ {t} : trades'[u] = trades[u],
           uneven' = {} =>
               /\ uneven = {}
               /\ \A p \in Pair :
                     coins'[p] + Share(t, p) + Found(p) = coins[p] + Share(t, p)' + Found(p)'
    PROVE  CoinsBelongToTrades'
<1> SUFFICES ASSUME uneven' = {}, NEW p \in Pair
             PROVE  coins'[p] = Total(p)' + Found(p)'
  BY BooksOfCoinsNext
<1>1. coins[p] = Total(p) + Found(p)
  BY BooksOfCoins
<1>2. coins'[p] + Share(t, p) + Found(p) = coins[p] + Share(t, p)' + Found(p)'
  OBVIOUS
<1>3. /\ Total(p)' + Share(t, p) = Total(p) + Share(t, p)'
      /\ Total(p) \in Nat /\ Total(p)' \in Nat
      /\ Share(t, p) \in Nat /\ Share(t, p)' \in Nat
  BY TotalMoves
<1>4. coins[p] \in Nat /\ coins'[p] \in Nat
  BY DEF TypeOK
<1>5. Found(p) \in Nat /\ Found(p)' \in Nat
  BY ExitAssumption DEF Found, ExitAssumption
<1>6. Found(p) \in Int /\ Found(p)' \in Int /\ coins[p] \in Int /\ coins'[p] \in Int
  BY <1>4, <1>5
<1>7. /\ Total(p) \in Int /\ Total(p)' \in Int
      /\ Share(t, p) \in Int /\ Share(t, p)' \in Int
      /\ Total(p)' + Share(t, p) = Total(p) + Share(t, p)'
  BY <1>3
<1> QED
  BY <1>1, <1>2, <1>6, <1>7, Balancing

\* A step that leaves the trades alone keeps them when it leaves the balances
\* alone.
LEMMA CoinsUnchanged ==
    ASSUME CoinsBelongToTrades, UNCHANGED <<trades, coins, discovered>>,
           uneven \subseteq uneven'
    PROVE  CoinsBelongToTrades'
<1>1. uneven' = {} => uneven = {}
  OBVIOUS
<1>2. \A p : Total(p)' = Total(p) /\ Found(p)' = Found(p)
  BY DEF Total, Found, Holdings, Filled
<1> QED
  BY <1>1, <1>2, BooksOfCoins, BooksOfCoinsNext

\* The balance covers every position.
LEMMA CoinsCover ==
    ASSUME TypeOK, CoinsBelongToTrades, uneven = {}, NEW t \in Trade, trades[t].st = "filled"
    PROVE  trades[t].held <= coins[trades[t].pair]
<1> DEFINE p == trades[t].pair
<1>1. p \in Pair /\ trades[t].held \in Nat
  BY TradeFields
<1>2. coins[p] = Total(p) + Found(p)
  BY <1>1, BooksOfCoins
<1>3. /\ Total(p) = trades[t].held + SumFunctionOnSet(Holdings, Filled(p) \ {t})
      /\ SumFunctionOnSet(Holdings, Filled(p) \ {t}) \in Nat
  <2>1. Splits(p, t)
    BY ShareSplits
  <2> QED
    BY <2>1 DEF Splits
<1>4. Found(p) \in Nat
  BY ExitAssumption DEF Found, ExitAssumption
<1> HIDE DEF p
<1> QED
  BY <1>1, <1>2, <1>3, <1>4 DEF p

\* A close sells all the trade holds: the cap to the balance never bites.
LEMMA CloseCoins ==
    ASSUME TypeOK, TypeOK', CoinsBelongToTrades, NEW t \in Trade, trades[t].st = "filled",
           NEW sold, NEW records, ClosePosition(t, sold, records),
           UNCHANGED <<discovered, uneven>>
    PROVE  CoinsBelongToTrades'
<1> DEFINE P == trades[t].pair
           qty == Capped(P, trades[t].held)
<1>1. P \in Pair /\ trades[t].held \in Nat /\ trades[t] \in Position /\ coins[P] \in Nat
  BY TradeFields DEF TypeOK
<1>2. CASE UNCHANGED <<trades, coins>>
  BY <1>2, CoinsUnchanged
<1>3. CASE /\ trades' = [trades EXCEPT ![t] = Over(@, "closed")]
           /\ coins' = [coins EXCEPT ![P] = @ - qty]
  <2>1. trades'[t].st = "closed" /\ \A u \in Trade \ {t} : trades'[u] = trades[u]
    BY <1>1, <1>3, OverType DEF TypeOK
  <2>2. coins'[P] = coins[P] - qty /\ \A p \in Pair \ {P} : coins'[p] = coins[p]
    BY <1>1, <1>3 DEF TypeOK
  <2>3. ASSUME uneven' = {}, NEW p \in Pair
        PROVE  coins'[p] + Share(t, p) + Found(p) = coins[p] + Share(t, p)' + Found(p)'
    <3>1. Share(t, p)' = 0
      BY <2>1, Shares
    <3>2. Share(t, p) = IF P = p THEN trades[t].held ELSE 0
      BY Shares
    <3>3. Found(p)' = Found(p) /\ Found(p) \in Nat
      BY ExitAssumption DEF Found, ExitAssumption
    <3>4. qty = trades[t].held
      <4>1. trades[t].held <= coins[P]
        BY <2>3, CoinsCover
      <4> QED
        BY <1>1, <4>1 DEF Capped
    <3>5. CASE p = P
      <4> HIDE DEF P, qty
      <4> QED
        BY <1>1, <2>2, <3>1, <3>2, <3>3, <3>4, <3>5
    <3>6. CASE p # P
      <4>1. coins[p] \in Nat
        BY DEF TypeOK
      <4>2. coins'[p] = coins[p]
        BY <2>2, <3>6
      <4>3. Share(t, p) = 0
        BY <3>2, <3>6
      <4> QED
        BY <3>1, <3>3, <4>1, <4>2, <4>3
    <3> QED
      BY <3>5, <3>6
  <2> QED
    BY <2>1, <2>3, CoinsKept
<1> QED
  BY <1>2, <1>3 DEF ClosePosition

\* A tier takes no more than its trade holds, so a trade it closes had nothing
\* left: what waits to be sold is part of the holding.
LEMMA SellTierCoins ==
    ASSUME IInv, TypeOK', Tiered, CoinsBelongToTrades,
           NEW p \in Pair, NEW k \in 1..Len(Tiers), NEW sold \in BOOLEAN, SellTier(p, k, sold)
    PROVE  CoinsBelongToTrades'
<1>1. UNCHANGED discovered /\ TypeOK
  BY DEF SellTier, IInv
<1>2. CASE uneven' = uneven \cup ({stops[p].for} \cap Trade) /\ UNCHANGED <<trades, coins>>
  BY <1>1, <1>2, CoinsUnchanged
<1>3. ASSUME NEW t \in First(p), PartialSell(t, k)
      PROVE  CoinsBelongToTrades'
  <2>1. t \in Trade /\ trades[t].pair = p /\ trades[t].st = "filled"
    BY DEF First, Filled
  <2>2. trades[t] \in Position /\ trades[t].held \in Nat /\ coins[p] \in Nat
    BY <2>1, <1>1, TradeFields DEF TypeOK
  <2> DEFINE qty == Capped(p, ExitQuantity(k))
             rest == trades[t].held - qty
             tr == IF rest > 0 THEN [trades[t] EXCEPT !.held = rest]
                               ELSE Over(trades[t], "closed")
  <2>3. /\ trades' = [trades EXCEPT ![t] = tr]
        /\ coins' = [coins EXCEPT ![p] = @ - qty]
        /\ uneven' = IF t = stops[p].for /\ qty = ExitQuantity(k)
                     THEN uneven ELSE uneven \cup {t} \cup ({stops[p].for} \cap Trade)
    BY <1>3, <2>1 DEF PartialSell
  <2>4. IF rest > 0 THEN tr.st = "filled" /\ tr.pair = p /\ tr.held = rest
                    ELSE tr.st = "closed"
    <3>1. CASE rest > 0
      <4>1. tr = [trades[t] EXCEPT !.held = rest]
        BY <3>1
      <4> HIDE DEF tr, rest
      <4> QED
        BY <2>1, <2>2, <3>1, <4>1 DEF Position
    <3>2. CASE ~(rest > 0)
      <4>1. tr = Over(trades[t], "closed")
        BY <3>2
      <4> HIDE DEF tr, rest
      <4> QED
        BY <2>2, <3>2, <4>1, OverType
    <3> QED
      BY <3>1, <3>2
  <2> HIDE DEF tr
  <2>5. trades'[t] = tr /\ \A u \in Trade \ {t} : trades'[u] = trades[u]
    BY <1>1, <2>1, <2>3 DEF TypeOK
  <2>6. coins'[p] = coins[p] - qty /\ \A q \in Pair \ {p} : coins'[q] = coins[q]
    BY <1>1, <2>3 DEF TypeOK
  <2>7. ASSUME uneven' = {}
        PROVE  uneven = {} /\ qty = ExitQuantity(k) /\ qty \in Nat /\ qty <= trades[t].held
    <3>1. uneven = {} /\ t = stops[p].for /\ qty = ExitQuantity(k)
      BY <2>3, <2>7
    <3>2. HasStop(p) /\ k \in stops[p].exits /\ k \in {1, 2}
      BY TwoTiers DEF SellTier
    <3>3. Open(t) /\ Owns(t) /\ t \notin uneven
      BY <2>1, <3>1, <3>2 DEF Open, Owns
    <3>4. trades[t].held = Unsold(stops[p]) /\ Shaped(stops[p])
      BY <2>1, <3>2, <3>3 DEF Tiered, Due
    <3> DEFINE s == stops[p]
    <3>5. /\ Unsold(s) = Left(Cardinality(s.reached)) + Waiting(s, 1) + Waiting(s, 2)
          /\ Left(Cardinality(s.reached)) \in Nat
          /\ Waiting(s, 1) \in Nat /\ Waiting(s, 2) \in Nat
      BY <3>4, UnsoldParts
    <3>6. Waiting(s, k) = ExitQuantity(k)
      BY <3>2 DEF Waiting
    <3>7. ExitQuantity(k) \in Nat
      BY <3>2, Parts
    <3>8. Unsold(s) >= ExitQuantity(k)
      <4> HIDE DEF s
      <4>1. CASE k = 1
        BY <3>5, <3>6, <4>1
      <4>2. CASE k = 2
        BY <3>5, <3>6, <4>2
      <4> QED
        BY <3>2, <4>1, <4>2
    <3> QED
      BY <2>2, <3>1, <3>4, <3>7, <3>8
  <2>8. ASSUME uneven' = {}, NEW q \in Pair
        PROVE  coins'[q] + Share(t, q) + Found(q) = coins[q] + Share(t, q)' + Found(q)'
    <3>1. Found(q)' = Found(q) /\ Found(q) \in Nat
      BY <1>1, ExitAssumption DEF Found, ExitAssumption
    <3>2. qty \in Nat /\ rest \in Nat /\ rest = trades[t].held - qty
      <4>1. qty \in Nat /\ qty <= trades[t].held
        BY <2>7, <2>8
      <4> HIDE DEF qty
      <4> QED
        BY <2>2, <4>1
    <3> HIDE DEF rest, qty
    <3>3. CASE q = p
      <4>1. Share(t, q) = trades[t].held
        BY <1>1, <2>1, <3>3, Shares
      <4>2. Share(t, q)' = rest
        <5>1. CASE rest > 0
          <6>1. trades'[t].pair = q /\ trades'[t].st = "filled" /\ trades'[t].held = rest
            BY <2>4, <2>5, <3>3, <5>1
          <6> QED
            BY <1>1, <2>1, <6>1, Shares
        <5>2. CASE ~(rest > 0)
          <6>1. trades'[t].st = "closed" /\ rest = 0
            BY <2>4, <2>5, <3>2, <5>2
          <6> QED
            BY <1>1, <2>1, <6>1, Shares
        <5> QED
          BY <5>1, <5>2
      <4>3. coins'[q] = coins[q] - qty /\ coins[q] \in Nat
        BY <2>2, <2>6, <3>3
      <4>4. coins'[q] + Share(t, q) = coins[q] + Share(t, q)'
        <5>1. (coins[q] - qty) + trades[t].held = coins[q] + (trades[t].held - qty)
          BY <2>2, <3>2, <4>3
        <5> QED
          BY <3>2, <4>1, <4>2, <4>3, <5>1
      <4> QED
        BY <3>1, <4>4
    <3>4. CASE q # p
      <4>1. Share(t, q) = 0
        BY <1>1, <2>1, <3>4, Shares
      <4>2. Share(t, q)' = 0
        <5>1. ~(trades'[t].pair = q /\ trades'[t].st = "filled")
          BY <2>4, <2>5, <3>4
        <5> QED
          BY <1>1, <2>1, <5>1, Shares
      <4>3. coins'[q] = coins[q] /\ coins[q] \in Nat
        BY <1>1, <2>6, <3>4 DEF TypeOK
      <4> QED
        BY <3>1, <4>1, <4>2, <4>3
    <3> QED
      BY <3>3, <3>4
  <2> QED
    BY <1>1, <2>1, <2>5, <2>7, <2>8, CoinsKept
<1> QED
  BY <1>2, <1>3 DEF SellTier

\* A buy adds what it holds, a discovery what it finds.
LEMMA NewCoins ==
    ASSUME TypeOK, TypeOK', CoinsBelongToTrades, NEW t \in Trade, NEW p \in Pair,
           trades[t].st # "filled", trades'[t].st = "filled",
           trades'[t].pair = p, trades'[t].held = Quantity,
           \A u \in Trade \ {t} : trades'[u] = trades[u],
           coins' = [coins EXCEPT ![p] = @ + Quantity],
           UNCHANGED <<discovered, uneven>>
    PROVE  CoinsBelongToTrades'
<1>1. ASSUME NEW q \in Pair
      PROVE  coins'[q] + Share(t, q) + Found(q) = coins[q] + Share(t, q)' + Found(q)'
  <2>1. Found(q)' = Found(q) /\ Found(q) \in Nat /\ Quantity \in Nat
    BY ExitAssumption DEF Found, ExitAssumption
  <2>2. Share(t, q) = 0 /\ Share(t, q)' = IF q = p THEN Quantity ELSE 0
    BY Shares
  <2>3. coins[q] \in Nat /\ coins'[q] = IF q = p THEN coins[q] + Quantity ELSE coins[q]
    BY DEF TypeOK
  <2>4. CASE q = p
    BY <2>1, <2>2, <2>3, <2>4
  <2>5. CASE q # p
    BY <2>1, <2>2, <2>3, <2>5
  <2> QED
    BY <2>4, <2>5
<1> QED
  BY <1>1, CoinsKept

LEMMA InitCoins == Init => CoinsBelongToTrades
<1> SUFFICES ASSUME Init, NEW p \in Pair PROVE coins[p] = Total(p) + Found(p)
  BY BooksOfCoins
<1>1. Unused.st = "none"
  BY DEF Unused
<1>2. Filled(p) = {}
  BY <1>1 DEF Init, Filled
<1>3. Total(p) = 0
  BY <1>2, SumEmpty DEF Total
<1>4. coins[p] = 0 /\ Found(p) = 0
  BY DEF Init, Found
<1> QED
  BY <1>3, <1>4

LEMMA StepCoins ==
    ASSUME IInv, Listed, Tiered, CoinsBelongToTrades, TypeOK', [Next]_vars
    PROVE  CoinsBelongToTrades'
<1>0. TypeOK
  BY DEF IInv
<1>1. CASE UNCHANGED <<trades, coins, discovered, uneven>>
  BY <1>1, CoinsUnchanged
<1>2. CASE UNCHANGED vars
  BY <1>1, <1>2 DEF vars, ghostVars
<1>3. ASSUME NEW t \in Trade, NEW p \in Pair, Buy(t, p) PROVE CoinsBelongToTrades'
  <2>1. trades[t].st # "filled" /\ UNCHANGED <<discovered, uneven>>
        /\ coins' = [coins EXCEPT ![p] = @ + Quantity]
    BY <1>3 DEF Buy, Fresh
  <2>2. /\ trades'[t].st = "filled" /\ trades'[t].pair = p /\ trades'[t].held = Quantity
        /\ \A u \in Trade \ {t} : trades'[u] = trades[u]
    BY <1>0, <1>3 DEF Buy, TypeOK
  <2> QED
    BY <1>0, <2>1, <2>2, NewCoins
<1>4. ASSUME NEW t \in Trade, NEW p \in Pair, NEW x \in Price, PlaceResting(t, p, x)
      PROVE  CoinsBelongToTrades'
  <2>1. trades[t].st # "filled" /\ UNCHANGED <<coins, discovered, uneven>>
    BY <1>4 DEF PlaceResting, Fresh
  <2>2. trades'[t].st = "pending" /\ \A u \in Trade \ {t} : trades'[u] = trades[u]
    BY <1>0, <1>4 DEF PlaceResting, TypeOK
  <2>3. \A q \in Pair : Share(t, q) = 0 /\ Share(t, q)' = 0 /\ Found(q)' = Found(q)
    BY <1>0, <2>1, <2>2, Shares DEF Found
  <2> QED
    BY <1>0, <2>1, <2>2, <2>3, CoinsKept
<1>5. ASSUME NEW t \in Trade, Settle(t) PROVE CoinsBelongToTrades'
  <2>1. /\ trades[t] \in Position /\ trades[t].pair \in Pair
        /\ trades[t].st = "pending" /\ UNCHANGED <<discovered, uneven>>
    BY <1>0, <1>5, TradeFields DEF Settle, ghostVars
  <2>2. CASE /\ trades' = [trades EXCEPT ![t].st = "filled", ![t].held = Quantity]
             /\ coins' = [coins EXCEPT ![trades[t].pair] = @ + Quantity]
    <3> DEFINE tr == [trades[t] EXCEPT !.st = "filled", !.held = Quantity]
    <3>1. trades' = [trades EXCEPT ![t] = tr]
      BY <1>0, <2>2 DEF TypeOK
    <3>2. tr.st = "filled" /\ tr.held = Quantity /\ tr.pair = trades[t].pair
      BY <2>1 DEF Position
    <3> HIDE DEF tr
    <3>3. trades'[t] = tr /\ \A u \in Trade \ {t} : trades'[u] = trades[u]
      BY <1>0, <3>1 DEF TypeOK
    <3> QED
      BY <1>0, <2>1, <2>2, <3>2, <3>3, NewCoins
  <2>3. CASE trades' = [trades EXCEPT ![t] = Over(@, "ended")] /\ UNCHANGED coins
    <3>1. trades'[t].st = "ended" /\ \A u \in Trade \ {t} : trades'[u] = trades[u]
      BY <1>0, <2>1, <2>3, OverType DEF TypeOK
    <3>2. \A q \in Pair : Share(t, q) = 0 /\ Share(t, q)' = 0 /\ Found(q)' = Found(q)
      BY <1>0, <2>1, <3>1, Shares DEF Found
    <3> QED
      BY <1>0, <2>1, <2>3, <3>1, <3>2, CoinsKept
  <2> QED
    BY <1>5, <2>2, <2>3 DEF Settle
<1>6. ASSUME NEW t \in Trade, NEW sold \in BOOLEAN, CheckExit(t, sold)
      PROVE  CoinsBelongToTrades'
  <2>1. trades[t].st = "filled" /\ UNCHANGED <<discovered, uneven>>
    BY <1>6 DEF Listed, CheckExit, ghostVars
  <2>2. ClosePosition(t, sold, 1) \/ UNCHANGED <<trades, coins>>
    BY <1>6 DEF CheckExit
  <2> QED
    BY <1>0, <1>1, <2>1, <2>2, CloseCoins
<1>7. ASSUME NEW p \in Pair, Discover(p) PROVE CoinsBelongToTrades'
  <2>1. /\ p \notin discovered /\ discovered' = discovered \cup {p}
        /\ coins' = [coins EXCEPT ![p] = @ + Quantity] /\ UNCHANGED <<trades, uneven>>
    BY <1>7 DEF Discover, ghostVars
  <2>2. 1 \in Trade
    BY ExitAssumption DEF Trade, ExitAssumption
  <2>3. ASSUME NEW q \in Pair
        PROVE  coins'[q] + Share(1, q) + Found(q) = coins[q] + Share(1, q)' + Found(q)'
    <3>1. Share(1, q)' = Share(1, q) /\ Share(1, q) \in Nat
      <4>1. Splits(q, 1)
        BY <1>0, <2>2, ShareSplits
      <4> QED
        BY <1>0, <2>1, <2>2, <4>1, Shares DEF Splits
    <3>2. /\ coins[q] \in Nat /\ Quantity \in Nat
          /\ coins'[q] = IF q = p THEN coins[q] + Quantity ELSE coins[q]
      BY <1>0, <2>1, ExitAssumption DEF TypeOK, ExitAssumption
    <3>3. CASE q = p
      <4>1. Found(q) = 0 /\ Found(q)' = Quantity
        BY <2>1, <3>3 DEF Found
      <4>2. (coins[q] + Quantity) + Share(1, q) + 0 = coins[q] + Share(1, q) + Quantity
        BY <3>1, <3>2
      <4> QED
        BY <3>1, <3>2, <3>3, <4>1, <4>2
    <3>4. CASE q # p
      <4>1. Found(q)' = Found(q)
        BY <2>1, <3>4 DEF Found
      <4> QED
        BY <3>1, <3>2, <3>4, <4>1
    <3> QED
      BY <3>3, <3>4
  <2> QED
    BY <1>0, <2>1, <2>2, <2>3, CoinsKept
<1>8. ASSUME NEW p \in Pair, TightenToBreakeven(p) \/ EndMinHold(p) PROVE CoinsBelongToTrades'
  BY <1>1, <1>8 DEF TightenToBreakeven, EndMinHold, ghostVars
<1>9. ASSUME NEW p \in Pair, NEW x \in Price, MovePrice(p, x) PROVE CoinsBelongToTrades'
  BY <1>1, <1>9 DEF MovePrice, ghostVars
<1>10. ASSUME NEW p \in Pair, NEW sold \in BOOLEAN, Liquidate(p, sold) \/ SellFired(p, sold)
       PROVE  CoinsBelongToTrades'
  <2>1. UNCHANGED <<discovered, uneven>>
    BY <1>10 DEF Liquidate, SellFired
  <2>2. \/ UNCHANGED <<trades, coins>>
        \/ \E t \in Trade : /\ trades[t].st = "filled"
                            /\ ClosePosition(t, sold, 1) \/ ClosePosition(t, sold, 2)
    BY <1>10 DEF Liquidate, SellFired, First, Filled
  <2> QED
    BY <1>0, <1>1, <2>1, <2>2, CloseCoins
<1>11. ASSUME NEW p \in Pair, NEW k \in 1..Len(Tiers), NEW sold \in BOOLEAN,
              SellTier(p, k, sold)
       PROVE  CoinsBelongToTrades'
  BY <1>11, SellTierCoins
<1>12. CASE UpdatePrices
  BY <1>1, <1>12 DEF UpdatePrices, ghostVars
<1>13. CASE Advance
  BY <1>1, <1>13 DEF Advance, ghostVars
<1> QED
  BY <1>2, <1>3, <1>4, <1>5, <1>6, <1>7, <1>8, <1>9, <1>10, <1>11, <1>12, <1>13 DEF Next

\* Every coin bought is held by a filled trade or was sold for one, until a
\* tier's sale leaves a trade uneven: stop, command, tier and stop-loss check
\* never close a trade whose coins are still on the account.
THEOREM CoinsAccounted == Spec => []CoinsBelongToTrades
<1> DEFINE CInv == IInv /\ Listed /\ Tiered /\ CoinsBelongToTrades
<1>1. Init => CInv
  BY InitInv, InitTiered, InitCoins
<1>2. CInv /\ [Next]_vars => CInv'
  <2> SUFFICES ASSUME CInv, [Next]_vars PROVE CInv'
    OBVIOUS
  <2>1. IInv' /\ Listed'
    BY StepInv
  <2>2. TypeOK'
    BY <2>1 DEF IInv
  <2>3. Tiered' /\ CoinsBelongToTrades'
    BY <2>2, StepTiered, StepCoins
  <2> QED
    BY <2>1, <2>3
<1>3. CInv => CoinsBelongToTrades
  OBVIOUS
<1> QED
  <2> HIDE DEF CInv
  <2> QED
    BY <1>1, <1>2, <1>3, PTL DEF Spec

=============================================================================
