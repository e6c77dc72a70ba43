-------------------------- MODULE Rotation_proofs --------------------------
(***************************************************************************)
(* What a rotation reports and what it may lose, for any coins, holdings   *)
(* and number of evaluations.  Both properties speak of the end of a swap; *)
(* the invariants say for every stage what has been spent of each coin     *)
(* since the swap began: at most, whatever went wrong, and how the coins   *)
(* balance, as long as every reply was heard.  That needs the three        *)
(* currencies of a swap to differ, which the proposals guarantee.          *)
(***************************************************************************)
EXTENDS Rotation, TLAPS

\* A proposal buys a coin that is not held, and goes over a third one.
Sound(p) ==
    /\ p.sell # p.buy
    /\ p.route = "bridged" => Bridge \notin {p.sell, p.buy}

Distinct ==
    /\ \A p \in plan : Sound(p)
    /\ swap # None => Sound(swap)

Holder == Coin \cup {Fiat}

\* None is not a proposal, and a proposal's fields are what they should be.
LEMMA ProposalFields ==
    /\ None \notin Proposal
    /\ \A p \in Proposal :
          /\ p.sell \in Coin /\ p.buy \in Coin /\ p.route \in Route /\ p.odd \in BOOLEAN
          /\ p.amount \in Nat /\ p.amount > 0 /\ p.amount <= Start
<1>1. None.route \notin Route
  BY DEF None, Route
<1>2. \A p \in Proposal : p.route \in Route /\ p.odd \in BOOLEAN
  BY DEF Proposal
<1>3. Start \in Nat
  BY RotationAssumption DEF RotationAssumption
<1> QED
  BY <1>1, <1>2, <1>3 DEF Proposal

\* The three currencies of a swap differ.
LEMMA Currencies ==
    ASSUME swap \in Proposal, Sound(swap)
    PROVE  /\ swap.sell \in Holder /\ swap.buy \in Holder /\ Middle \in Holder
           /\ swap.sell # swap.buy /\ swap.sell # Middle /\ swap.buy # Middle
           /\ swap.amount \in Nat /\ swap.amount > 0
<1>1. swap.sell \in Coin /\ swap.buy \in Coin /\ swap.amount \in Nat /\ swap.amount > 0
  BY ProposalFields
<1>2. Bridge \in Coin \cup {Fiat} /\ Fiat \notin Coin
  BY RotationAssumption DEF RotationAssumption
<1> QED
  BY <1>1, <1>2 DEF Sound, Middle, Holder

\* What execute_swap has spent of a coin after a step.
After(x) == before[x] - account'[x]

\* m units went from x to y and nowhere else.
Effect(x, y, m) ==
    /\ After(x) = Spent(x) + m
    /\ After(y) = Spent(y) - m
    /\ \A z \in Holder \ {x, y} : After(z) = Spent(z)

-----------------------------------------------------------------------------
(* Type correctness and distinct currencies *)

Sane == TypeOK /\ Distinct

\* What every step of a swap may rely on.
LEMMA UnderWay ==
    ASSUME Sane, swap # None
    PROVE  /\ swap \in Proposal /\ Sound(swap)
           /\ swap.sell \in Holder /\ swap.buy \in Holder /\ Middle \in Holder
           /\ swap.sell # swap.buy /\ swap.sell # Middle /\ swap.buy # Middle
           /\ swap.amount \in Nat /\ swap.amount > 0 /\ swap.odd \in BOOLEAN
           /\ account \in [Holder -> Nat] /\ before \in [Holder -> Nat]
           /\ \A x \in Holder : Spent(x) \in Int
           /\ result \in Result /\ misheard \in BOOLEAN /\ uneven \in BOOLEAN
           /\ caught \in BOOLEAN /\ carried \in Nat
<1>1. swap \in Proposal /\ Sound(swap)
  BY DEF Sane, TypeOK, Distinct
<1>2. account \in [Holder -> Nat] /\ before \in [Holder -> Nat]
  BY DEF Sane, TypeOK, Holder
<1>3. \A x \in Holder : Spent(x) \in Int
  BY <1>2 DEF Spent
<1>4. carried \in Nat
  BY RotationAssumption DEF RotationAssumption, Sane, TypeOK
<1> QED
  BY <1>1, <1>2, <1>3, <1>4, Currencies, ProposalFields DEF Sane, TypeOK

\* A step of a swap finds one under way.
LEMMA Busy == Sane /\ stage # "idle" => swap # None
  BY DEF Sane, TypeOK

\* What an order may move is there, and not more than it was for, if its size is
\* in the right currency.
LEMMA FillFacts ==
    ASSUME Sane, swap # None, NEW x \in Holder, NEW n \in Nat,
           NEW m \in Fill(x, n) \cup {0}
    PROVE  m \in Nat /\ m <= account[x] /\ (~Missized => m <= n)
<1>1. account[x] \in Nat
  BY UnderWay
<1> QED
  BY <1>1 DEF Fill

\* An order moves units from one currency to another and nothing else.
LEMMA MovesEffect ==
    ASSUME Sane, swap # None, NEW x \in Holder, NEW y \in Holder, x # y, NEW n \in Nat,
           NEW m \in Fill(x, n) \cup {0}, Moves(x, y, m)
    PROVE  /\ account' \in [Holder -> Nat]
           /\ m \in Nat /\ (~Missized => m <= n) /\ Effect(x, y, m)
<1>1. /\ account \in [Holder -> Nat] /\ before \in [Holder -> Nat]
      /\ m \in Nat /\ m <= account[x] /\ (~Missized => m <= n)
  BY UnderWay, FillFacts
<1> DEFINE paid == [account EXCEPT ![x] = @ - m]
<1>2. paid \in [Holder -> Nat] /\ paid[y] = account[y]
  BY <1>1
<1>3. account' = [paid EXCEPT ![y] = @ + m]
  BY DEF Moves
<1>4. paid[x] = account[x] - m /\ \A z \in Holder \ {x} : paid[z] = account[z]
  BY <1>1
<1> HIDE DEF paid
<1>5. /\ account' \in [Holder -> Nat]
      /\ account'[x] = account[x] - m
      /\ account'[y] = account[y] + m
      /\ \A z \in Holder \ {x, y} : account'[z] = account[z]
  BY <1>1, <1>2, <1>3, <1>4
<1> QED
  BY <1>1, <1>5 DEF Effect, After, Spent

\* What an accepted order does.
LEMMA AcceptedEffect ==
    ASSUME Sane, swap # None, NEW x \in Holder, NEW y \in Holder, x # y, NEW n \in Nat,
           Accepted(x, y, n)
    PROVE  /\ account' \in [Holder -> Nat] /\ misheard' = misheard
           /\ \E m \in Nat :
                 /\ Effect(x, y, m) /\ (~Missized => m <= n)
                 /\ uneven' = (uneven \/ m # swap.amount)
<1>1. PICK m \in Fill(x, n) : Moves(x, y, m) /\ uneven' = (uneven \/ m # swap.amount)
  BY DEF Accepted
<1>2. account' \in [Holder -> Nat] /\ m \in Nat /\ (~Missized => m <= n) /\ Effect(x, y, m)
  BY <1>1, MovesEffect
<1> QED
  BY <1>1, <1>2 DEF Accepted

\* What an order does that failed for its sender.
LEMMA FailsEffect ==
    ASSUME Sane, swap # None, NEW x \in Holder, NEW y \in Holder, x # y, NEW n \in Nat,
           Fails(x, y, n)
    PROVE  /\ account' \in [Holder -> Nat] /\ uneven' = uneven
           /\ \E m \in Nat :
                 /\ Effect(x, y, m) /\ (~Missized => m <= n)
                 /\ misheard' = TRUE \/ (m = 0 /\ misheard' = misheard)
<1>0. account \in [Holder -> Nat] /\ \A z \in Holder : Spent(z) \in Int
  BY UnderWay
<1>1. CASE Refused
  <2>1. Effect(x, y, 0)
    BY <1>0, <1>1 DEF Refused, Effect, After, Spent
  <2> QED
    BY <1>0, <1>1, <2>1 DEF Refused
<1>2. CASE Lost(x, y, n)
  <2>1. PICK m \in Fill(x, n) \ {0} : Moves(x, y, m)
    BY <1>2 DEF Lost
  <2>2. account' \in [Holder -> Nat] /\ m \in Nat /\ (~Missized => m <= n) /\ Effect(x, y, m)
    BY <2>1, MovesEffect
  <2> QED
    BY <1>2, <2>2 DEF Lost
<1> QED
  BY <1>1, <1>2 DEF Fails

\* Either way the types are kept.
LEMMA OrderTyped ==
    ASSUME Sane, swap # None, NEW x \in Holder, NEW y \in Holder, x # y, NEW n \in Nat,
           Accepted(x, y, n) \/ Fails(x, y, n)
    PROVE  account' \in [Holder -> Nat] /\ misheard' \in BOOLEAN /\ uneven' \in BOOLEAN
  BY UnderWay, AcceptedEffect, FailsEffect

\* At the start nothing is proposed and the account is as it was.
LEMMA InitSane == Init => Sane
<1> SUFFICES ASSUME Init PROVE Sane
  OBVIOUS
<1>1. Start \in Nat /\ Rounds \in Nat
  BY RotationAssumption DEF RotationAssumption
<1>2. account \in [Holder -> Nat] /\ ledger \in [Coin -> Nat]
  BY <1>1 DEF Init, Holder
<1>3. round \in 0..Rounds /\ carried \in 0..Start
  BY <1>1 DEF Init
<1>4. result \in Result
  BY DEF Init, Result, Blank
<1> QED
  BY <1>2, <1>3, <1>4 DEF Init, Sane, TypeOK, Distinct, Stage, Holder

\* An evaluation makes only sound proposals.
LEMMA EvaluateSane == Sane /\ Evaluate => Sane'
<1> SUFFICES ASSUME Sane, Evaluate PROVE Sane'
  OBVIOUS
<1>1. PICK sold \in SUBSET MaySell \ {{}} :
        \E choice \in [sold -> Proposal] :
           /\ \A c \in sold : choice[c] \in Proposed(c)
           /\ plan' = {choice[c] : c \in sold}
  BY DEF Evaluate
<1>2. PICK choice \in [sold -> Proposal] :
        /\ \A c \in sold : choice[c] \in Proposed(c)
        /\ plan' = {choice[c] : c \in sold}
  BY <1>1
<1>3. \A c \in sold : c \in Known
  BY <1>1 DEF MaySell
<1>4. plan' \subseteq Proposal /\ \A p \in plan' : Sound(p)
  <2> SUFFICES ASSUME NEW c \in sold
               PROVE  choice[c] \in Proposal /\ Sound(choice[c])
    BY <1>2
  <2> QED
    BY <1>2, <1>3 DEF Proposed, Sound
<1>5. round' \in 0..Rounds
  BY RotationAssumption DEF RotationAssumption, Evaluate, Sane, TypeOK
<1>6. /\ swap' = None /\ result' \in Result /\ before' = account
      /\ misheard' \in BOOLEAN /\ uneven' \in BOOLEAN
  BY DEF Evaluate, Forgets, Blank, Result
<1>7. /\ account' = account /\ ledger' = ledger /\ stage' = stage /\ recent' = recent
      /\ carried' = carried /\ caught' = caught /\ stage = "idle"
  BY DEF Evaluate, books
<1> QED
  BY <1>4, <1>5, <1>6, <1>7 DEF Sane, TypeOK, Distinct

\* A swap that begins is one of the proposals.
LEMMA BeginSane == ASSUME NEW p \in Proposal, Sane, Begin(p) PROVE Sane'
<1>1. p \in plan /\ Sound(p) /\ p # None
  BY ProposalFields DEF Begin, Sane, Distinct
<1>2. result' \in Result
  BY DEF Begin, Result, Blank
<1>3. stage' \in Stage
  BY DEF Begin, Stage
<1>4. /\ plan' \subseteq plan /\ swap' = p /\ before' = account
      /\ misheard' = FALSE /\ uneven' = FALSE
  BY DEF Begin
<1>5. carried' \in 0..Start /\ caught' \in BOOLEAN
  BY RotationAssumption DEF RotationAssumption, Begin
<1> QED
  BY <1>1, <1>2, <1>3, <1>4, <1>5 DEF Begin, Sane, TypeOK, Distinct, books

\* A step of a swap keeps the types when the account and the result keep theirs.
LEMMA LegSane ==
    ASSUME Sane, swap' = swap, stage' \in Stage, swap # None,
           account' \in [Holder -> Nat], result' \in Result,
           misheard' \in BOOLEAN, uneven' \in BOOLEAN, caught' \in BOOLEAN,
           carried' \in 0..Start,
           recent' = recent \/ Cools,
           UNCHANGED <<ledger, plan, before, round>>
    PROVE  Sane'
<1>1. swap.sell \in Coin /\ swap.buy \in Coin
  BY ProposalFields DEF Sane, TypeOK
<1>2. recent' \subseteq Coin
  BY <1>1 DEF Cools, Sane, TypeOK
<1> QED
  BY <1>2 DEF Sane, TypeOK, Distinct, Holder

\* Where a raise leads.
LEMMA RaisesTyped ==
    ASSUME Raises
    PROVE  /\ swap' = swap /\ carried' = carried /\ caught' = FALSE
           /\ stage' \in Stage
           /\ ~caught => stage' = "idle"
           /\ caught /\ swap.route = "bridged" => stage' = "back"
           /\ caught /\ swap.route # "bridged" => stage' = "first"
  BY DEF Raises, Stage

\* Where a success leads.
LEMMA SucceedsTyped ==
    ASSUME Sane, Succeeds, misheard \in BOOLEAN
    PROVE  /\ swap' = swap /\ carried' = carried /\ caught' = FALSE /\ Cools
           /\ stage' \in Stage /\ result' \in Result /\ misheard' \in BOOLEAN
           /\ \/ stage' = "idle" /\ misheard' = misheard
              \/ Raises /\ misheard' = TRUE
<1>1. result' \in Result
  BY DEF Succeeds, Result, Sane, TypeOK
<1> QED
  BY <1>1, RaisesTyped DEF Succeeds, Stage

\* What the steps of a swap do to its variables.
LEMMA CarriedTyped == ASSUME Sane, carried' = carried PROVE carried' \in 0..Start
  BY DEF Sane, TypeOK

\* The direct order and what becomes of it keep the types.
LEMMA DirectSane == Sane /\ Direct => Sane'
<1> SUFFICES ASSUME Sane, Direct PROVE Sane'
  OBVIOUS
<1>0. swap # None
  BY Busy DEF Direct
<1>u. /\ swap.sell \in Holder /\ swap.buy \in Holder /\ swap.sell # swap.buy
      /\ swap.amount \in Nat /\ misheard \in BOOLEAN /\ uneven \in BOOLEAN /\ caught \in BOOLEAN
      /\ account \in [Holder -> Nat] /\ result \in Result
  BY <1>0, UnderWay
<1>1. CASE Accepted(swap.sell, swap.buy, swap.amount) /\ Succeeds
  BY <1>0, <1>1, <1>u, OrderTyped, SucceedsTyped, LegSane, CarriedTyped DEF Direct
<1>2. CASE /\ Fails(swap.sell, swap.buy, swap.amount)
           /\ Goes("first") /\ UNCHANGED <<carried, caught, recent>>
  <2>1. account' \in [Holder -> Nat] /\ misheard' \in BOOLEAN /\ uneven' \in BOOLEAN
    BY <1>0, <1>2, <1>u, OrderTyped
  <2>2. stage' \in Stage /\ swap' = swap /\ result' = result
    BY <1>2 DEF Goes, Stage
  <2> QED
    BY <1>0, <1>2, <1>u, <2>1, <2>2, LegSane, CarriedTyped DEF Direct
<1>3. CASE Refused /\ (Ends \/ (Raises /\ UNCHANGED result)) /\ UNCHANGED recent
  <2>1. stage' \in Stage /\ swap' = swap /\ carried' = carried /\ caught' = FALSE /\ result' = result
    BY <1>3, RaisesTyped DEF Ends, Stage
  <2> QED
    BY <1>0, <1>3, <1>u, <2>1, LegSane, CarriedTyped DEF Direct, Refused
<1> QED
  BY <1>1, <1>2, <1>3 DEF Direct

\* What an accepted first leg does.
FirstAccepted(m) ==
    /\ m \in Fill(swap.sell, swap.amount)
    /\ Moves(swap.sell, Middle, m)
    /\ uneven' = (uneven \/ m # swap.amount)
    /\ carried' \in {swap.amount} \cup ({m} \cap (0..swap.amount))

\* The first leg keeps the types.
LEMMA FirstSane == Sane /\ First => Sane'
<1> SUFFICES ASSUME Sane, First PROVE Sane'
  OBVIOUS
<1>0. swap # None
  BY Busy DEF First
<1>u. /\ swap.sell \in Holder /\ Middle \in Holder /\ swap.sell # Middle
      /\ swap.amount \in Nat /\ misheard \in BOOLEAN /\ uneven \in BOOLEAN /\ caught \in BOOLEAN
      /\ account \in [Holder -> Nat] /\ result \in Result
  BY <1>0, UnderWay
<1>1. CASE /\ Fails(swap.sell, Middle, swap.amount)
           /\ Ends \/ (swap.route # "bridged" /\ Raises /\ UNCHANGED result)
  <2>1. account' \in [Holder -> Nat] /\ misheard' \in BOOLEAN /\ uneven' \in BOOLEAN
    BY <1>0, <1>1, <1>u, OrderTyped
  <2>2. stage' \in Stage /\ swap' = swap /\ carried' = carried /\ caught' = FALSE /\ result' = result
    BY <1>1, RaisesTyped DEF Ends, Stage
  <2> QED
    BY <1>0, <1>u, <2>1, <2>2, LegSane, CarriedTyped DEF First
<1>2. CASE /\ \E m \in Fill(swap.sell, swap.amount) : FirstAccepted(m)
           /\ caught' = (caught \/ swap.route = "bridged")
           /\ Goes("second") /\ UNCHANGED misheard
  <2>1. PICK m \in Fill(swap.sell, swap.amount) : FirstAccepted(m)
    BY <1>2
  <2>2. account' \in [Holder -> Nat] /\ m \in Nat
    BY <1>0, <1>u, <2>1, MovesEffect DEF FirstAccepted
  <2>3. carried' \in 0..Start
    <3>1. swap.amount \in 0..Start /\ Start \in Nat
      BY <1>0, UnderWay, ProposalFields, RotationAssumption DEF RotationAssumption
    <3>2. carried' = swap.amount \/ (carried' = m /\ m \in 0..swap.amount)
      BY <2>1 DEF FirstAccepted
    <3> QED
      BY <3>1, <3>2, <1>u
  <2>4. stage' \in Stage /\ swap' = swap /\ result' = result /\ misheard' = misheard
    BY <1>2 DEF Goes, Stage
  <2>5. uneven' \in BOOLEAN /\ caught' \in BOOLEAN
    BY <1>2, <1>u, <2>1 DEF FirstAccepted
  <2> QED
    BY <1>0, <1>u, <2>2, <2>3, <2>4, <2>5, LegSane DEF First
<1> QED
  BY <1>1, <1>2 DEF First, FirstAccepted

\* The second leg keeps the types.
LEMMA SecondSane == Sane /\ Second => Sane'
<1> SUFFICES ASSUME Sane, Second PROVE Sane'
  OBVIOUS
<1>0. swap # None
  BY Busy DEF Second
<1>u. /\ Middle \in Holder /\ swap.buy \in Holder /\ Middle # swap.buy
      /\ carried \in Nat /\ misheard \in BOOLEAN /\ uneven \in BOOLEAN /\ caught \in BOOLEAN
      /\ account \in [Holder -> Nat] /\ result \in Result
  BY <1>0, UnderWay
<1>1. CASE Accepted(Middle, swap.buy, carried) /\ Succeeds
  BY <1>0, <1>1, <1>u, OrderTyped, SucceedsTyped, LegSane, CarriedTyped DEF Second
<1>2. CASE /\ Fails(Middle, swap.buy, carried)
           /\ stage' = "back" /\ result' = [result EXCEPT !.partial = TRUE]
           /\ UNCHANGED <<swap, carried, caught, recent>>
  <2>1. account' \in [Holder -> Nat] /\ misheard' \in BOOLEAN /\ uneven' \in BOOLEAN
    BY <1>0, <1>2, <1>u, OrderTyped
  <2>2. stage' \in Stage /\ result' \in Result
    BY <1>2, <1>u DEF Stage, Result
  <2> QED
    BY <1>0, <1>2, <1>u, <2>1, <2>2, LegSane, CarriedTyped DEF Second
<1> QED
  BY <1>1, <1>2 DEF Second

\* The reversal keeps the types.
LEMMA BackSane == Sane /\ Back => Sane'
<1> SUFFICES ASSUME Sane, Back PROVE Sane'
  OBVIOUS
<1>0. swap # None
  BY Busy DEF Back
<1>u. /\ Middle \in Holder /\ swap.sell \in Holder /\ Middle # swap.sell
      /\ carried \in Nat /\ misheard \in BOOLEAN /\ uneven \in BOOLEAN /\ caught \in BOOLEAN
      /\ account \in [Holder -> Nat] /\ result \in Result
  BY <1>0, UnderWay
<1>1. CASE Accepted(Middle, swap.sell, carried) \/ Fails(Middle, swap.sell, carried)
  <2>1. account' \in [Holder -> Nat] /\ misheard' \in BOOLEAN /\ uneven' \in BOOLEAN
    BY <1>0, <1>1, <1>u, OrderTyped
  <2>2. \/ stage' = "idle" /\ caught' = FALSE /\ swap' = swap /\ carried' = carried
           /\ (result' = result \/ result' = [result EXCEPT !.reversed = TRUE])
        \/ Raises /\ result' = result
    BY DEF Back, Ends
  <2>3. /\ stage' \in Stage /\ swap' = swap /\ carried' = carried /\ caught' = FALSE
        /\ result' \in Result
    BY <2>2, <1>u, RaisesTyped DEF Stage, Result
  <2> QED
    BY <1>0, <2>1, <2>3, LegSane, CarriedTyped DEF Back
<1>2. CASE /\ \E m \in Fill(Middle, carried) \cup {0} : Moves(Middle, swap.sell, m)
           /\ Raises /\ misheard' = TRUE /\ UNCHANGED <<uneven, result>>
  <2>1. account' \in [Holder -> Nat]
    BY <1>0, <1>2, <1>u, MovesEffect
  <2> QED
    BY <1>0, <1>2, <1>u, <2>1, RaisesTyped, LegSane, CarriedTyped DEF Back
<1> QED
  BY <1>1, <1>2 DEF Back

\* What happens around the swaps keeps the types.
LEMMA AroundSane ==
    Sane /\ (Refresh \/ Restart \/ (\E c \in Coin : CooldownEnds(c)) \/ UNCHANGED vars) => Sane'
<1> SUFFICES ASSUME Sane, Refresh \/ Restart \/ (\E c \in Coin : CooldownEnds(c)) \/ UNCHANGED vars
             PROVE  Sane'
  OBVIOUS
<1>1. CASE Refresh
  <2>1. ledger' \in [Coin -> Nat] /\ result' \in Result
    BY <1>1 DEF Refresh, Forgets, Sane, TypeOK, Result, Blank
  <2> QED
    BY <1>1, <2>1 DEF Refresh, Forgets, Sane, TypeOK, Distinct
<1>2. CASE Restart
  <2>1. ledger' \in [Coin -> Nat] /\ misheard' \in BOOLEAN
    BY <1>2 DEF Restart, Sane, TypeOK
  <2> QED
    BY <1>2, <2>1 DEF Restart, Sane, TypeOK, Distinct, Stage
<1>3. CASE (\E c \in Coin : CooldownEnds(c)) \/ UNCHANGED vars
  BY <1>3 DEF CooldownEnds, vars, books, run, Sane, TypeOK, Distinct
<1> QED
  BY <1>1, <1>2, <1>3

\* Every step keeps the types and the currencies apart.
LEMMA SaneStep == Sane /\ [Next]_vars => Sane'
  BY EvaluateSane, BeginSane, DirectSane, FirstSane, SecondSane, BackSane, AroundSane DEF Next

-----------------------------------------------------------------------------
(* What a swap may lose *)

\* Of its coin, stage by stage: a swap that was misheard may have sold twice more
\* than it knows, once while its handler was still to come.
SoldAtMost ==
    (IF stage \in {"direct", "first"} THEN 0 ELSE swap.amount)
    + (IF ~misheard THEN 0 ELSE IF caught THEN swap.amount ELSE 2 * swap.amount)

\* Of the middle currency, before the fiat route is walked a second time.
LostBefore ==
    IF misheard /\ ~caught
    THEN IF uneven THEN 2 * swap.amount ELSE swap.amount
    ELSE 0

\* What the first leg is sure to have brought
Brought == IF uneven THEN 0 ELSE swap.amount

MiddleAtMost ==
    CASE stage = "direct" -> 0
      [] stage = "first" -> LostBefore
      [] stage = "second" -> LostBefore - Brought
      [] stage = "back" -> IF misheard THEN LostBefore - Brought + swap.amount
                           ELSE 0 - Brought
      [] OTHER -> MiddleTimes * swap.amount

OddBridge == swap.odd /\ swap.route = "bridged"

\* What is so at every stage besides the amounts
Staged ==
    /\ carried <= swap.amount
    /\ stage = "direct" =>
          /\ ~misheard /\ caught /\ swap.route # "bridged"
          /\ \A x \in Holder : Spent(x) = 0
    /\ stage = "first" /\ swap.route = "bridged" => ~misheard
    /\ stage = "second" /\ swap.route = "bridged" => ~misheard /\ caught
    /\ stage = "idle" => ~caught

Bounded ==
    swap # None =>
        /\ Staged
        /\ ~swap.odd => Spent(swap.sell) <= SoldAtMost
        /\ ~OddBridge => Spent(Middle) <= MiddleAtMost
        /\ \A x \in Holder \ {swap.sell, Middle} : Spent(x) <= 0

\* The same after a step of a swap, by what has been spent then
Afterwards ==
    /\ stage' = "idle" => ~caught'
    /\ stage' = "first" /\ swap.route = "bridged" => ~misheard'
    /\ stage' = "second" /\ swap.route = "bridged" => ~misheard' /\ caught'
    /\ carried' <= swap.amount
    /\ ~swap.odd => After(swap.sell) <= SoldAtMost'
    /\ ~OddBridge => After(Middle) <= MiddleAtMost'
    /\ \A x \in Holder \ {swap.sell, Middle} : After(x) <= 0

\* A step of a swap keeps the bounds if the account keeps them.
LEMMA KeepsBounds ==
    ASSUME Sane, swap # None, swap' = swap, before' = before, stage' # "direct", Afterwards
    PROVE  Bounded'
<1>1. Middle' = Middle /\ \A x \in Holder : Spent(x)' = After(x)
  BY DEF Middle, Spent, After
<1>2. swap.sell \in Holder /\ Middle \in Holder
  BY UnderWay
<1> QED
  BY <1>1, <1>2 DEF Bounded, Staged, Afterwards, OddBridge

\* The direct order sells the amount at most, and nobody has misheard before it.
LEMMA DirectBounded == Sane /\ Bounded /\ Direct => Bounded'
<1> SUFFICES ASSUME Sane, Bounded, Direct PROVE Bounded'
  OBVIOUS
<1>0. swap # None /\ stage = "direct" /\ before' = before
  BY Busy DEF Direct
<1>u. /\ swap.sell \in Holder /\ swap.buy \in Holder /\ Middle \in Holder
      /\ swap.sell # swap.buy /\ swap.sell # Middle /\ swap.buy # Middle
      /\ swap.amount \in Nat /\ misheard = FALSE /\ uneven \in BOOLEAN /\ caught = TRUE
      /\ \A x \in Holder : Spent(x) = 0
      /\ swap.route # "bridged" /\ carried \in Nat /\ carried <= swap.amount
      /\ account \in [Holder -> Nat] /\ before \in [Holder -> Nat]
  BY <1>0, UnderWay DEF Bounded, Staged
<1>m. ~swap.odd => ~Missized
  BY DEF Missized
<1>1. CASE Accepted(swap.sell, swap.buy, swap.amount) /\ Succeeds
  <2>1. PICK m \in Nat : Effect(swap.sell, swap.buy, m) /\ (~Missized => m <= swap.amount)
    BY <1>0, <1>u, <1>1, AcceptedEffect
  <2>2. /\ swap' = swap /\ carried' = carried /\ caught' = FALSE
        /\ \/ stage' = "idle" /\ misheard' = FALSE
           \/ stage' = "first" /\ misheard' = TRUE
    BY <1>1, <1>u, SucceedsTyped, RaisesTyped
  <2>3. uneven' \in BOOLEAN
    BY <1>0, <1>u, <1>1, OrderTyped
  <2>4. /\ After(swap.sell) = m /\ After(Middle) = 0
        /\ \A x \in Holder \ {swap.sell, Middle} : After(x) <= 0
    BY <1>u, <2>1 DEF Effect
  <2> QED
    BY <1>0, <1>u, <1>m, <2>1, <2>2, <2>3, <2>4, KeepsBounds
    DEF Afterwards, SoldAtMost, MiddleAtMost, MiddleTimes, LostBefore, Brought
<1>2. CASE /\ Fails(swap.sell, swap.buy, swap.amount)
           /\ Goes("first") /\ UNCHANGED <<carried, caught, recent>>
  <2>1. PICK m \in Nat :
           /\ Effect(swap.sell, swap.buy, m) /\ (~Missized => m <= swap.amount)
           /\ misheard' = TRUE \/ m = 0
    BY <1>0, <1>2, <1>u, FailsEffect
  <2>2. swap' = swap /\ stage' = "first" /\ carried' = carried /\ caught' = TRUE
    BY <1>2, <1>u DEF Goes
  <2>3. uneven' \in BOOLEAN /\ misheard' \in BOOLEAN
    BY <1>0, <1>2, <1>u, OrderTyped
  <2>4. /\ After(swap.sell) = m /\ After(Middle) = 0
        /\ \A x \in Holder \ {swap.sell, Middle} : After(x) <= 0
    BY <1>u, <2>1 DEF Effect
  <2> QED
    BY <1>0, <1>u, <1>m, <2>1, <2>2, <2>3, <2>4, KeepsBounds
    DEF Afterwards, SoldAtMost, MiddleAtMost, LostBefore
<1>3. CASE Refused /\ (Ends \/ (Raises /\ UNCHANGED result)) /\ UNCHANGED recent
  <2>1. /\ swap' = swap /\ carried' = carried /\ caught' = FALSE /\ stage' \in {"idle", "first"}
        /\ misheard' = FALSE /\ uneven' = uneven /\ account' = account
    BY <1>3, <1>u, RaisesTyped DEF Ends, Refused
  <2>2. \A x \in Holder : After(x) = 0
    BY <1>u, <2>1 DEF After, Spent
  <2> QED
    BY <1>0, <1>u, <2>1, <2>2, KeepsBounds
    DEF Afterwards, SoldAtMost, MiddleAtMost, MiddleTimes, LostBefore, Brought
<1> QED
  BY <1>1, <1>2, <1>3 DEF Direct

\* The first leg sells the amount at most and brings what it sold.
LEMMA FirstBounded == Sane /\ Bounded /\ First => Bounded'
<1> SUFFICES ASSUME Sane, Bounded, First PROVE Bounded'
  OBVIOUS
<1>0. swap # None /\ stage = "first" /\ before' = before
  BY Busy DEF First
<1>u. /\ swap.sell \in Holder /\ swap.buy \in Holder /\ Middle \in Holder
      /\ swap.sell # swap.buy /\ swap.sell # Middle /\ swap.buy # Middle
      /\ swap.amount \in Nat /\ misheard \in BOOLEAN /\ uneven \in BOOLEAN /\ caught \in BOOLEAN
      /\ \A x \in Holder : Spent(x) \in Int
      /\ carried \in Nat
  BY <1>0, UnderWay
<1>b. /\ carried <= swap.amount
      /\ swap.route = "bridged" => ~misheard
      /\ ~swap.odd => Spent(swap.sell) <=
             (IF ~misheard THEN 0 ELSE IF caught THEN swap.amount ELSE 2 * swap.amount)
      /\ ~OddBridge => Spent(Middle) <= LostBefore
      /\ \A x \in Holder \ {swap.sell, Middle} : Spent(x) <= 0
  BY <1>0, <1>u DEF Bounded, Staged, SoldAtMost, MiddleAtMost
<1>m. /\ ~swap.odd => ~Missized
      /\ ~OddBridge => ~Missized
  BY <1>0 DEF Missized, OddBridge
<1>1. CASE /\ Fails(swap.sell, Middle, swap.amount)
           /\ Ends \/ (swap.route # "bridged" /\ Raises /\ UNCHANGED result)
  <2>1. PICK m \in Nat :
           /\ Effect(swap.sell, Middle, m) /\ (~Missized => m <= swap.amount)
           /\ misheard' = TRUE \/ (m = 0 /\ misheard' = misheard)
           /\ uneven' = uneven
    BY <1>0, <1>1, <1>u, FailsEffect
  <2>2. /\ swap' = swap /\ carried' = carried /\ caught' = FALSE
        /\ \/ stage' = "idle"
           \/ stage' = "first" /\ caught /\ swap.route # "bridged"
    BY <1>1, <1>u, RaisesTyped DEF Ends
  <2>3. misheard' \in BOOLEAN
    BY <2>1, <1>u
  <2>4. /\ After(swap.sell) = Spent(swap.sell) + m /\ After(Middle) = Spent(Middle) - m
        /\ \A x \in Holder \ {swap.sell, Middle} : After(x) <= 0
    BY <1>u, <1>b, <2>1 DEF Effect
  <2>5. ~swap.odd => After(swap.sell) <= SoldAtMost'
    BY <1>u, <1>b, <1>m, <2>1, <2>2, <2>3, <2>4 DEF SoldAtMost
  <2>6. ~OddBridge => After(Middle) <= MiddleAtMost'
    <3>1. Spent(Middle) - m <= Spent(Middle)
      BY <1>u
    <3>2. LostBefore <= MiddleAtMost' /\ LostBefore \in Int /\ MiddleAtMost' \in Int
      BY <1>u, <2>1, <2>2, <2>3 DEF MiddleAtMost, MiddleTimes, LostBefore, Brought
    <3> QED
      BY <1>u, <1>b, <2>4, <3>1, <3>2
  <2> QED
    BY <1>0, <1>u, <1>b, <2>2, <2>4, <2>5, <2>6, KeepsBounds DEF Afterwards
<1>2. CASE /\ \E m \in Fill(swap.sell, swap.amount) : FirstAccepted(m)
           /\ caught' = (caught \/ swap.route = "bridged")
           /\ Goes("second") /\ UNCHANGED misheard
  <2>1. PICK m \in Fill(swap.sell, swap.amount) : FirstAccepted(m)
    BY <1>2
  <2>2. m \in Nat /\ (~Missized => m <= swap.amount) /\ Effect(swap.sell, Middle, m)
    BY <1>0, <1>u, <2>1, MovesEffect DEF FirstAccepted
  <2>3. /\ swap' = swap /\ stage' = "second" /\ misheard' = misheard
        /\ caught' = (caught \/ swap.route = "bridged")
        /\ carried' \in Nat /\ carried' <= swap.amount
        /\ uneven' = (uneven \/ m # swap.amount)
    BY <1>2, <1>u, <2>1, <2>2 DEF Goes, FirstAccepted
  <2>4. /\ After(swap.sell) = Spent(swap.sell) + m /\ After(Middle) = Spent(Middle) - m
        /\ \A x \in Holder \ {swap.sell, Middle} : After(x) <= 0
    BY <1>u, <1>b, <2>2 DEF Effect
  <2>5. ~swap.odd => After(swap.sell) <= SoldAtMost'
    BY <1>u, <1>b, <1>m, <2>2, <2>3, <2>4 DEF SoldAtMost
  <2>6. ~OddBridge => After(Middle) <= MiddleAtMost'
    <3>1. SUFFICES ASSUME ~OddBridge PROVE Spent(Middle) - m <= (LostBefore - Brought)'
      BY <2>3, <2>4 DEF MiddleAtMost
    <3>2. m <= swap.amount /\ Spent(Middle) <= LostBefore
      BY <1>b, <1>m, <2>2, <3>1
    <3>3. LostBefore' >= LostBefore /\ LostBefore \in Int /\ LostBefore' \in Int
      <4>1. CASE swap.route = "bridged"
        BY <1>u, <1>b, <2>3, <4>1 DEF LostBefore
      <4>2. CASE swap.route # "bridged"
        <5>1. caught' = caught /\ uneven' \in BOOLEAN /\ (uneven => uneven')
          BY <1>u, <2>3, <4>2
        <5> QED
          BY <1>u, <2>3, <5>1 DEF LostBefore
      <4> QED
        BY <4>1, <4>2
    <3>4. Brought' \in Int /\ Brought' <= m
      <4>1. CASE uneven'
        BY <1>u, <2>2, <2>3, <4>1 DEF Brought
      <4>2. CASE ~uneven'
        <5>1. m = swap.amount
          BY <2>3, <4>2
        <5> QED
          BY <1>u, <2>3, <4>2, <5>1 DEF Brought
      <4> QED
        BY <4>1, <4>2
    <3> QED
      BY <1>u, <2>2, <3>2, <3>3, <3>4
  <2> QED
    BY <1>0, <1>b, <2>3, <2>4, <2>5, <2>6, KeepsBounds DEF Afterwards
<1> QED
  BY <1>1, <1>2 DEF First, FirstAccepted

\* The second leg spends what the first is taken to have brought, at most.
LEMMA SecondBounded == Sane /\ Bounded /\ Second => Bounded'
<1> SUFFICES ASSUME Sane, Bounded, Second PROVE Bounded'
  OBVIOUS
<1>0. swap # None /\ stage = "second" /\ before' = before
  BY Busy DEF Second
<1>u. /\ swap.sell \in Holder /\ swap.buy \in Holder /\ Middle \in Holder
      /\ swap.sell # swap.buy /\ swap.sell # Middle /\ swap.buy # Middle
      /\ swap.amount \in Nat /\ misheard \in BOOLEAN /\ uneven \in BOOLEAN /\ caught \in BOOLEAN
      /\ \A x \in Holder : Spent(x) \in Int
      /\ carried \in Nat
  BY <1>0, UnderWay
<1>b. /\ carried <= swap.amount
      /\ swap.route = "bridged" => ~misheard /\ caught
      /\ ~swap.odd => Spent(swap.sell) <= SoldAtMost
      /\ ~OddBridge => Spent(Middle) <= LostBefore - Brought
      /\ \A x \in Holder \ {swap.sell, Middle} : Spent(x) <= 0
  BY <1>0, <1>u DEF Bounded, Staged, MiddleAtMost
<1>m. ~OddBridge => ~Missized
  BY <1>0 DEF Missized, OddBridge
<1>1. CASE Accepted(Middle, swap.buy, carried) /\ Succeeds
  <2>0. PICK m \in Nat :
           /\ Effect(Middle, swap.buy, m) /\ (~Missized => m <= carried)
           /\ uneven' = (uneven \/ m # swap.amount)
    BY <1>0, <1>u, <1>1, AcceptedEffect
  <2>1. /\ swap' = swap /\ carried' = carried /\ caught' = FALSE
        /\ \/ stage' = "idle" /\ misheard' = misheard
           \/ Raises /\ misheard' = TRUE
    BY <1>1, <1>u, SucceedsTyped
  <2>2. \/ stage' = "idle" /\ (misheard' = misheard \/ (misheard' = TRUE /\ swap.route # "bridged"))
        \/ stage' = "first" /\ caught /\ swap.route # "bridged" /\ misheard' = TRUE
        \/ stage' = "back" /\ swap.route = "bridged" /\ misheard' = TRUE
    BY <1>b, <2>1, RaisesTyped DEF Raises
  <2>3. /\ After(swap.sell) = Spent(swap.sell) /\ After(Middle) = Spent(Middle) + m
        /\ \A x \in Holder \ {swap.sell, Middle} : After(x) <= 0
    BY <1>u, <1>b, <2>0 DEF Effect
  <2>4. ~swap.odd => After(swap.sell) <= SoldAtMost'
    BY <1>0, <1>u, <1>b, <2>1, <2>2, <2>3 DEF SoldAtMost
  <2>5. ~OddBridge => After(Middle) <= MiddleAtMost'
    <3>1. SUFFICES ASSUME ~OddBridge PROVE After(Middle) <= MiddleAtMost'
      OBVIOUS
    <3>2. m <= swap.amount /\ Spent(Middle) <= LostBefore - Brought
      BY <1>u, <1>b, <1>m, <2>0, <3>1
    <3>3. uneven' \in BOOLEAN /\ misheard' \in BOOLEAN /\ (uneven => uneven')
      BY <1>u, <2>0, <2>1
    <3>4. Spent(Middle) + m <= LostBefore - Brought + swap.amount
      BY <1>u, <3>2 DEF LostBefore, Brought
    <3>5. LostBefore - Brought + swap.amount <= MiddleAtMost'
      BY <1>u, <2>1, <2>2, <3>3 DEF MiddleAtMost, MiddleTimes, LostBefore, Brought
    <3>6. LostBefore - Brought + swap.amount \in Int /\ MiddleAtMost' \in Int
      BY <1>u, <2>1, <2>2, <3>3 DEF MiddleAtMost, MiddleTimes, LostBefore, Brought
    <3> QED
      BY <1>u, <2>3, <3>4, <3>5, <3>6
  <2> QED
    BY <1>0, <1>b, <2>1, <2>2, <2>3, <2>4, <2>5, KeepsBounds DEF Afterwards
<1>2. CASE /\ Fails(Middle, swap.buy, carried)
           /\ stage' = "back" /\ result' = [result EXCEPT !.partial = TRUE]
           /\ UNCHANGED <<swap, carried, caught, recent>>
  <2>1. PICK m \in Nat :
           /\ Effect(Middle, swap.buy, m) /\ (~Missized => m <= carried)
           /\ misheard' = TRUE \/ (m = 0 /\ misheard' = misheard)
    BY <1>0, <1>u, <1>2, FailsEffect
  <2>2. uneven' = uneven /\ misheard' \in BOOLEAN
    BY <1>0, <1>u, <1>2, <2>1, FailsEffect
  <2>3. /\ After(swap.sell) = Spent(swap.sell) /\ After(Middle) = Spent(Middle) + m
        /\ \A x \in Holder \ {swap.sell, Middle} : After(x) <= 0
    BY <1>u, <1>b, <2>1 DEF Effect
  <2>4. ~swap.odd => After(swap.sell) <= SoldAtMost'
    BY <1>0, <1>2, <1>u, <1>b, <2>1, <2>2, <2>3 DEF SoldAtMost
  <2>5. ~OddBridge => After(Middle) <= MiddleAtMost'
    <3>1. SUFFICES ASSUME ~OddBridge PROVE After(Middle) <= MiddleAtMost'
      OBVIOUS
    <3>2. m <= swap.amount /\ Spent(Middle) <= LostBefore - Brought
      BY <1>u, <1>b, <1>m, <2>1, <3>1
    <3>3. CASE m = 0 /\ misheard' = misheard
      BY <1>0, <1>2, <1>u, <1>b, <2>2, <2>3, <3>1, <3>2, <3>3
      DEF MiddleAtMost, LostBefore, Brought
    <3>4. CASE misheard' = TRUE
      BY <1>0, <1>2, <1>u, <1>b, <2>2, <2>3, <3>1, <3>2, <3>4
      DEF MiddleAtMost, LostBefore, Brought
    <3> QED
      BY <2>1, <3>3, <3>4
  <2> QED
    BY <1>0, <1>2, <1>b, <2>3, <2>4, <2>5, KeepsBounds DEF Afterwards
<1> QED
  BY <1>1, <1>2 DEF Second

\* The reversal spends it once more, or sells back what is there.
LEMMA BackBounded == Sane /\ Bounded /\ Back => Bounded'
<1> SUFFICES ASSUME Sane, Bounded, Back PROVE Bounded'
  OBVIOUS
<1>0. swap # None /\ stage = "back" /\ before' = before
  BY Busy DEF Back
<1>u. /\ swap.sell \in Holder /\ swap.buy \in Holder /\ Middle \in Holder
      /\ swap.sell # swap.buy /\ swap.sell # Middle /\ swap.buy # Middle
      /\ swap.amount \in Nat /\ misheard \in BOOLEAN /\ uneven \in BOOLEAN /\ caught \in BOOLEAN
      /\ \A x \in Holder : Spent(x) \in Int
      /\ carried \in Nat
  BY <1>0, UnderWay
<1>b. /\ carried <= swap.amount
      /\ ~swap.odd => Spent(swap.sell) <= SoldAtMost
      /\ ~OddBridge => Spent(Middle) <= IF misheard THEN LostBefore - Brought + swap.amount
                                        ELSE 0 - Brought
      /\ \A x \in Holder \ {swap.sell, Middle} : Spent(x) <= 0
  BY <1>0, <1>u DEF Bounded, Staged, MiddleAtMost
<1>m. ~OddBridge => ~Missized
  BY <1>0 DEF Missized, OddBridge
<1>1. SUFFICES ASSUME NEW m \in Nat,
                      Effect(Middle, swap.sell, m), ~Missized => m <= carried,
                      misheard' \in BOOLEAN, uneven' \in BOOLEAN,
                      misheard => misheard', uneven => uneven',
                      swap' = swap, carried' = carried, caught' = FALSE,
                      \/ stage' = "idle"
                      \/ stage' = "back" /\ misheard' = TRUE /\ caught
                      \/ stage' = "first" /\ misheard' = TRUE /\ caught /\ swap.route # "bridged"
               PROVE  Bounded'
  <2>1. CASE /\ Accepted(Middle, swap.sell, carried)
             /\ stage' = "idle" /\ caught' = FALSE
             /\ UNCHANGED <<swap, carried>>
    <3>1. PICK m \in Nat :
             /\ Effect(Middle, swap.sell, m) /\ (~Missized => m <= carried)
             /\ uneven' = (uneven \/ m # swap.amount)
      BY <1>0, <1>u, <2>1, AcceptedEffect
    <3>2. misheard' = misheard
      BY <1>0, <1>u, <2>1, AcceptedEffect
    <3> QED
      BY <1>1, <1>u, <2>1, <3>1, <3>2
  <2>2. CASE Fails(Middle, swap.sell, carried) /\ Ends
    <3>1. PICK m \in Nat :
             /\ Effect(Middle, swap.sell, m) /\ (~Missized => m <= carried)
             /\ misheard' = TRUE \/ (m = 0 /\ misheard' = misheard)
      BY <1>0, <1>u, <2>2, FailsEffect
    <3>2. uneven' = uneven
      BY <1>0, <1>u, <2>2, FailsEffect
    <3>3. swap' = swap /\ carried' = carried /\ caught' = FALSE /\ stage' = "idle"
      BY <2>2 DEF Ends
    <3>4. /\ misheard' \in BOOLEAN /\ (misheard => misheard')
          /\ uneven' \in BOOLEAN /\ (uneven => uneven')
      <4>1. misheard' \in BOOLEAN /\ uneven' \in BOOLEAN
        BY <1>0, <1>u, <2>2, OrderTyped
      <4>2. CASE misheard' = TRUE
        BY <3>2, <4>1, <4>2
      <4>3. CASE misheard' = misheard
        BY <3>2, <4>1, <4>3
      <4> QED
        BY <3>1, <4>2, <4>3
    <3> QED
      BY <1>1, <3>1, <3>3, <3>4
  <2>3. CASE /\ \E m \in Fill(Middle, carried) \cup {0} : Moves(Middle, swap.sell, m)
             /\ Raises /\ misheard' = TRUE /\ UNCHANGED <<uneven, result>>
    <3>1. PICK m \in Fill(Middle, carried) \cup {0} : Moves(Middle, swap.sell, m)
      BY <2>3
    <3>2. m \in Nat /\ Effect(Middle, swap.sell, m) /\ (~Missized => m <= carried)
      BY <1>0, <1>u, <3>1, MovesEffect
    <3>3. /\ swap' = swap /\ carried' = carried /\ caught' = FALSE
          /\ \/ stage' = "idle" \/ (stage' = "back" /\ caught)
             \/ stage' = "first" /\ caught /\ swap.route # "bridged"
      BY <2>3, <1>u, RaisesTyped
    <3> QED
      BY <1>1, <1>u, <2>3, <3>2, <3>3
  <2> QED
    BY <2>1, <2>2, <2>3 DEF Back
<1>2. /\ After(swap.sell) = Spent(swap.sell) - m /\ After(Middle) = Spent(Middle) + m
      /\ \A x \in Holder \ {swap.sell, Middle} : After(x) <= 0
  BY <1>u, <1>b, <1>1 DEF Effect
<1>3. ~swap.odd => After(swap.sell) <= SoldAtMost'
  <2>1. Spent(swap.sell) - m <= Spent(swap.sell)
    BY <1>u
  <2>2. SoldAtMost <= SoldAtMost' /\ SoldAtMost \in Int /\ SoldAtMost' \in Int
    <3>1. CASE stage' = "first"
      BY <1>0, <1>u, <1>1, <3>1 DEF SoldAtMost
    <3>2. CASE stage' # "first"
      BY <1>0, <1>u, <1>1, <3>2 DEF SoldAtMost
    <3> QED
      BY <3>1, <3>2
  <2> QED
    BY <1>u, <1>b, <1>2, <2>1, <2>2
<1>4. ~OddBridge => After(Middle) <= MiddleAtMost'
  <2>1. SUFFICES ASSUME ~OddBridge PROVE After(Middle) <= MiddleAtMost'
    OBVIOUS
  <2>2. m <= swap.amount
    BY <1>u, <1>b, <1>m, <1>1, <2>1
  <2>3. CASE misheard
    <3>1. Spent(Middle) + m <= LostBefore - Brought + 2 * swap.amount
      BY <1>u, <1>b, <2>1, <2>2, <2>3 DEF LostBefore, Brought
    <3>2. LostBefore - Brought + 2 * swap.amount <= MiddleAtMost'
      <4>1. CASE stage' = "idle"
        BY <1>u, <1>1, <2>3, <4>1 DEF MiddleAtMost, MiddleTimes, LostBefore, Brought
      <4>2. CASE stage' = "back" /\ misheard' = TRUE /\ caught
        BY <1>u, <1>1, <2>3, <4>2 DEF MiddleAtMost, LostBefore, Brought
      <4>3. CASE stage' = "first" /\ misheard' = TRUE /\ caught
        BY <1>u, <1>1, <2>3, <4>3 DEF MiddleAtMost, LostBefore, Brought
      <4> QED
        BY <1>1, <4>1, <4>2, <4>3
    <3>3. LostBefore - Brought + 2 * swap.amount \in Int /\ MiddleAtMost' \in Int
      BY <1>u, <1>1 DEF MiddleAtMost, MiddleTimes, LostBefore, Brought
    <3> QED
      BY <1>u, <1>2, <3>1, <3>2, <3>3
  <2>4. CASE ~misheard
    <3>1. Spent(Middle) + m <= swap.amount - Brought
      BY <1>u, <1>b, <2>1, <2>2, <2>4 DEF Brought
    <3>2. swap.amount - Brought <= MiddleAtMost'
      BY <1>u, <1>1, <2>4 DEF MiddleAtMost, MiddleTimes, LostBefore, Brought
    <3>3. swap.amount - Brought \in Int /\ MiddleAtMost' \in Int
      BY <1>u, <1>1 DEF MiddleAtMost, MiddleTimes, LostBefore, Brought
    <3> QED
      BY <1>u, <1>2, <3>1, <3>2, <3>3
  <2> QED
    BY <1>u, <2>3, <2>4
<1> QED
  <2>1. stage' = "first" => swap.route # "bridged"
    BY <1>1
  <2>2. stage' # "direct" /\ stage' # "second"
    BY <1>1
  <2> QED
    BY <1>0, <1>b, <1>1, <1>2, <1>3, <1>4, <2>1, <2>2, KeepsBounds DEF Afterwards

\* Around the swaps nothing is spent.
LEMMA OthersBounded ==
    ASSUME Sane, Bounded,
           \/ Evaluate \/ Refresh \/ Restart \/ UNCHANGED vars
           \/ \E p \in Proposal : Begin(p)
           \/ \E c \in Coin : CooldownEnds(c)
    PROVE  Bounded'
<1>1. CASE Evaluate \/ Refresh
  BY <1>1 DEF Evaluate, Refresh, Forgets, Bounded
<1>2. CASE \E p \in Proposal : Begin(p)
  <2>1. PICK p \in Proposal : Begin(p)
    BY <1>2
  <2>2. /\ swap' = p /\ before' = account /\ account' = account
        /\ misheard' = FALSE /\ uneven' = FALSE /\ carried' = 0
        /\ caught' = (p.route = "direct")
        /\ stage' = IF p.route = "direct" THEN "direct" ELSE "first"
    BY <2>1 DEF Begin, books
  <2>0. \A x \in Holder : before'[x] - account'[x] = 0
    BY <2>2 DEF Sane, TypeOK, Holder
  <2>3. \A x \in Holder : Spent(x)' = 0
    BY <2>0 DEF Spent
  <2>4. SoldAtMost' = 0 /\ MiddleAtMost' = 0
    BY <2>2 DEF SoldAtMost, MiddleAtMost, LostBefore
  <2>5. swap'.sell \in Holder /\ Middle' \in Holder /\ swap'.amount \in Nat
    BY <2>2, ProposalFields, RotationAssumption DEF Middle, Holder, RotationAssumption
  <2>6. Staged'
    <3>1. carried' <= swap'.amount
      BY <2>2, <2>5
    <3>2. stage' = "direct" => \A x \in Holder : Spent(x)' = 0
      BY <2>3
    <3> QED
      BY <2>2, <2>3, <3>1, <3>2 DEF Staged
  <2> QED
    BY <2>2, <2>3, <2>4, <2>5, <2>6 DEF Bounded
<1>3. CASE Restart
  <2>1. /\ swap' = swap /\ before' = before /\ account' = account /\ stage' = "idle"
        /\ misheard' = (misheard \/ stage # "idle") /\ uneven' = uneven
        /\ carried' = carried /\ caught' = FALSE
    BY <1>3 DEF Restart
  <2>2. SUFFICES ASSUME swap # None PROVE Bounded'
    BY <2>1 DEF Bounded
  <2>3. Middle' = Middle /\ \A x \in Holder : Spent(x)' = Spent(x)
    BY <2>1 DEF Middle, Spent
  <2>4. /\ Spent(swap.sell) \in Int /\ Spent(Middle) \in Int /\ swap.amount \in Nat
        /\ misheard \in BOOLEAN /\ uneven \in BOOLEAN /\ caught \in BOOLEAN
        /\ swap.sell \in Holder /\ Middle \in Holder
    BY <2>2, UnderWay
  <2>5. /\ SoldAtMost \in Int /\ SoldAtMost' \in Int /\ SoldAtMost <= SoldAtMost'
    BY <2>1, <2>4 DEF SoldAtMost
  <2>6. MiddleAtMost \in Int /\ MiddleAtMost' \in Int /\ MiddleAtMost <= MiddleAtMost'
    <3>1. CASE stage = "idle"
      BY <2>1, <2>4, <3>1 DEF MiddleAtMost, MiddleTimes
    <3>2. CASE stage # "idle"
      <4>1. MiddleAtMost <= (IF uneven THEN 4 * swap.amount ELSE 2 * swap.amount)
        BY <2>4 DEF MiddleAtMost, MiddleTimes, LostBefore, Brought
      <4>2. MiddleAtMost' = (IF uneven THEN 4 * swap.amount ELSE 2 * swap.amount)
        BY <2>1, <2>4, <3>2 DEF MiddleAtMost, MiddleTimes
      <4>3. MiddleAtMost \in Int
        BY <2>4 DEF MiddleAtMost, MiddleTimes, LostBefore, Brought
      <4> QED
        BY <2>4, <4>1, <4>2, <4>3
    <3> QED
      BY <3>1, <3>2
  <2>7. Staged'
    BY <2>1, <2>2 DEF Staged, Bounded
  <2> QED
    BY <2>1, <2>2, <2>3, <2>4, <2>5, <2>6, <2>7 DEF Bounded, OddBridge
<1>4. CASE UNCHANGED vars \/ \E c \in Coin : CooldownEnds(c)
  <2>1. UNCHANGED <<account, run>>
    BY <1>4 DEF CooldownEnds, vars, books
  <2> QED
    BY <2>1 DEF run, Bounded, Staged, Spent, SoldAtMost, MiddleAtMost, MiddleTimes, LostBefore,
                Brought, OddBridge, Middle
<1> QED
  BY <1>1, <1>2, <1>3, <1>4

-----------------------------------------------------------------------------
(* What a swap reports *)

\* Nothing was spent, or one coin was sold for another.
Untouched == \A x \in Holder : Spent(x) = 0

Sold(y) ==
    /\ Spent(swap.sell) >= 0 /\ (~swap.odd => Spent(swap.sell) <= swap.amount)
    /\ Spent(y) = 0 - Spent(swap.sell)
    /\ \A x \in Holder \ {swap.sell, y} : Spent(x) = 0
    /\ ~uneven => Spent(swap.sell) = swap.amount

\* While every reply is heard, the account is what the stage says.
Heard ==
    swap # None /\ ~misheard =>
        /\ stage \in {"direct", "first"} => Untouched /\ result = Blank
        /\ stage \in {"second", "back"} => Sold(Middle) /\ (~uneven => carried = swap.amount)
        /\ stage = "second" => result = Blank
        /\ stage = "back" => result = [Blank EXCEPT !.partial = TRUE]

\* What OutcomeIsTrue says, coin by coin.
Ended ==
    stage = "idle" /\ swap # None /\ ~misheard =>
        \/ /\ result.executed /\ ~result.partial /\ ~result.reversed
           /\ Spent(swap.sell) >= 0 /\ Spent(swap.buy) <= 0
           /\ ~swap.odd => Spent(swap.sell) <= swap.amount
           /\ ~uneven => Sold(swap.buy)
        \/ ~result.executed /\ result.partial /\ ~result.reversed /\ Sold(Middle)
        \/ /\ ~result.executed /\ result.partial /\ result.reversed
           /\ Spent(swap.buy) = 0 /\ (~uneven => Untouched)
        \/ result = Blank /\ Untouched

ReportInv == Heard /\ Ended

\* An account from which nothing was spent is the one before.
LEMMA UntouchedAccount == ASSUME Sane, swap # None, Untouched PROVE account = before
<1>1. account \in [Holder -> Nat] /\ before \in [Holder -> Nat]
  BY UnderWay
<1>2. \A x \in Holder : account[x] = before[x]
  BY <1>1 DEF Untouched, Spent
<1> QED
  BY <1>1, <1>2

\* One coin sold for another is an exchange.
LEMMA SoldAccount ==
    ASSUME Sane, swap # None, NEW y \in Holder, y # swap.sell, Sold(y)
    PROVE  account = Exchanged(swap.sell, y, Spent(swap.sell))
<1>1. /\ account \in [Holder -> Nat] /\ before \in [Holder -> Nat] /\ swap.sell \in Holder
  BY UnderWay
<1> DEFINE n == Spent(swap.sell)
<1>0. n \in Int /\ account[swap.sell] = before[swap.sell] - n /\ account[y] = before[y] + n
  <2>1. n = before[swap.sell] - account[swap.sell]
    BY DEF Spent
  <2>2. before[y] - account[y] = 0 - n
    BY DEF Sold, Spent
  <2> HIDE DEF n
  <2> QED
    BY <1>1, <2>1, <2>2
<1>4. \A x \in Holder \ {swap.sell, y} : account[x] = before[x]
  BY <1>1 DEF Sold, Spent
<1> HIDE DEF n
<1> DEFINE paid == [before EXCEPT ![swap.sell] = @ - n]
<1>2. /\ paid \in [Holder -> Int] /\ paid[swap.sell] = account[swap.sell]
      /\ \A x \in Holder \ {swap.sell} : paid[x] = before[x]
  BY <1>0, <1>1
<1> HIDE DEF paid
<1> DEFINE given == [paid EXCEPT ![y] = @ + n]
<1>3. /\ given \in [Holder -> Int] /\ given[y] = account[y]
      /\ \A x \in Holder \ {y} : given[x] = paid[x]
  BY <1>0, <1>1, <1>2
<1> HIDE DEF given
<1>5. \A x \in Holder : given[x] = account[x]
  BY <1>2, <1>3, <1>4
<1>6. given = account
  BY <1>1, <1>3, <1>5
<1> QED
  BY <1>6 DEF given, paid, n, Exchanged

\* What is so of every coin is so of the account.
LEMMA EndedIsTrue == Sane /\ Ended => OutcomeIsTrue
<1> SUFFICES ASSUME Sane, Ended, stage = "idle", swap # None, ~misheard
             PROVE  CASE result.executed ->
                           /\ Spent(swap.sell) >= 0 /\ Spent(swap.buy) <= 0
                           /\ ~swap.odd => Spent(swap.sell) <= swap.amount
                           /\ ~uneven => account = Exchanged(swap.sell, swap.buy, swap.amount)
                      [] result.partial /\ ~result.reversed ->
                           /\ account = Exchanged(swap.sell, Middle, Spent(swap.sell))
                           /\ Spent(swap.sell) >= 0
                           /\ ~uneven => Spent(swap.sell) = swap.amount
                      [] result.reversed ->
                           /\ Spent(swap.buy) = 0
                           /\ ~uneven => account = before
                      [] OTHER -> account = before
  BY DEF OutcomeIsTrue
<1>u. /\ swap.buy \in Holder /\ Middle \in Holder
      /\ swap.sell # swap.buy /\ swap.sell # Middle
  BY UnderWay
<1>1. CASE /\ result.executed /\ ~result.partial /\ ~result.reversed
           /\ Spent(swap.sell) >= 0 /\ Spent(swap.buy) <= 0
           /\ ~swap.odd => Spent(swap.sell) <= swap.amount
           /\ ~uneven => Sold(swap.buy)
  <2>1. ~uneven => account = Exchanged(swap.sell, swap.buy, swap.amount)
    <3>1. SUFFICES ASSUME ~uneven PROVE account = Exchanged(swap.sell, swap.buy, swap.amount)
      OBVIOUS
    <3>2. Sold(swap.buy) /\ Spent(swap.sell) = swap.amount
      BY <1>1, <3>1 DEF Sold
    <3>3. account = Exchanged(swap.sell, swap.buy, Spent(swap.sell))
      BY <1>u, <3>2, SoldAccount
    <3> QED
      BY <3>2, <3>3
  <2> QED
    BY <1>1, <2>1
<1>2. CASE ~result.executed /\ result.partial /\ ~result.reversed /\ Sold(Middle)
  <2>1. account = Exchanged(swap.sell, Middle, Spent(swap.sell))
    BY <1>u, <1>2, SoldAccount
  <2>2. Spent(swap.sell) >= 0 /\ (~uneven => Spent(swap.sell) = swap.amount)
    BY <1>2 DEF Sold
  <2> QED
    BY <1>2, <2>1, <2>2
<1>3. CASE /\ ~result.executed /\ result.partial /\ result.reversed
           /\ Spent(swap.buy) = 0 /\ (~uneven => Untouched)
  BY <1>3, UntouchedAccount
<1>4. CASE result = Blank /\ Untouched
  <2>1. account = before /\ ~result.executed /\ ~result.partial /\ ~result.reversed
    BY <1>4, UntouchedAccount DEF Blank
  <2> QED
    BY <2>1
<1> QED
  BY <1>1, <1>2, <1>3, <1>4 DEF Ended

\* A step of a swap reports what it did if its reply was heard.
LEMMA KeepsReport ==
    ASSUME misheard' = FALSE => ReportInv', misheard' \in BOOLEAN
    PROVE  ReportInv'
  BY DEF ReportInv, Heard, Ended

\* What is spent after a step, in the terms of the next state.
LEMMA SpentAfter == ASSUME before' = before PROVE \A x : Spent(x)' = After(x)
  BY DEF Spent, After

\* The direct order reports what it did.
LEMMA DirectReports == Sane /\ Bounded /\ ReportInv /\ Direct => ReportInv'
<1> SUFFICES ASSUME Sane, Bounded, ReportInv, Direct, misheard' = FALSE PROVE ReportInv'
  BY DirectSane, KeepsReport DEF Sane, TypeOK
<1>0. swap # None /\ stage = "direct" /\ before' = before
  BY Busy DEF Direct
<1>u. /\ swap.sell \in Holder /\ swap.buy \in Holder /\ Middle \in Holder
      /\ swap.sell # swap.buy /\ swap.sell # Middle /\ swap.buy # Middle
      /\ swap.amount \in Nat /\ misheard \in BOOLEAN /\ uneven \in BOOLEAN
      /\ result \in Result
  BY <1>0, UnderWay
<1>s. \A x : Spent(x)' = After(x)
  BY <1>0, SpentAfter
<1>1. CASE Accepted(swap.sell, swap.buy, swap.amount) /\ Succeeds
  <2>1. PICK m \in Nat :
           /\ Effect(swap.sell, swap.buy, m) /\ (~Missized => m <= swap.amount)
           /\ uneven' = (uneven \/ m # swap.amount)
    BY <1>0, <1>u, <1>1, AcceptedEffect
  <2>2. /\ ~misheard /\ swap' = swap /\ stage' = "idle"
    BY <1>0, <1>u, <1>1, AcceptedEffect, SucceedsTyped
  <2>3. Untouched /\ result = Blank
    BY <1>0, <2>2 DEF ReportInv, Heard
  <2>4. /\ After(swap.sell) = m /\ After(swap.buy) = 0 - m
        /\ \A x \in Holder \ {swap.sell, swap.buy} : After(x) = 0
    BY <1>u, <2>1, <2>3 DEF Effect, Untouched
  <2>5. ~swap.odd => m <= swap.amount
    BY <2>1 DEF Missized
  <2>6. ~uneven' => m = swap.amount
    BY <1>u, <2>1
  <2>7. result'.executed /\ ~result'.partial /\ ~result'.reversed
    BY <1>1, <2>2, <2>3 DEF Succeeds, Blank
  <2>8. ~uneven' => Sold(swap.buy)'
    BY <1>u, <1>s, <2>2, <2>4, <2>5, <2>6 DEF Sold
  <2> QED
    BY <1>u, <1>s, <2>2, <2>4, <2>5, <2>7, <2>8 DEF ReportInv, Heard, Ended
<1>2. CASE /\ account' = account /\ misheard' = misheard
           /\ swap' = swap /\ result' = result /\ stage' \in {"idle", "first"}
  <2>1. Untouched /\ result = Blank
    BY <1>0, <1>2 DEF ReportInv, Heard
  <2>2. Untouched'
    BY <1>0, <1>2, <2>1 DEF Untouched, Spent
  <2> QED
    BY <1>0, <1>2, <2>1, <2>2 DEF ReportInv, Heard, Ended
<1>3. CASE Fails(swap.sell, swap.buy, swap.amount) /\ Goes("first")
  BY <1>2, <1>3 DEF Fails, Refused, Lost, Goes
<1>4. CASE Refused /\ (Ends \/ (Raises /\ UNCHANGED result))
  <2>1. stage' \in {"idle", "first"} /\ swap' = swap /\ result' = result
    <3>1. CASE Ends
      BY <3>1 DEF Ends
    <3>2. CASE Raises /\ UNCHANGED result
      BY <1>0, <3>2 DEF Raises, Bounded, Staged
    <3> QED
      BY <1>4, <3>1, <3>2
  <2> QED
    BY <1>2, <1>4, <2>1 DEF Refused
<1> QED
  BY <1>1, <1>3, <1>4 DEF Direct

\* A first leg that fails leaves everything as it was; one that is accepted sold
\* what it brought.
LEMMA FirstReports == Sane /\ Bounded /\ ReportInv /\ First => ReportInv'
<1> SUFFICES ASSUME Sane, Bounded, ReportInv, First, misheard' = FALSE PROVE ReportInv'
  BY FirstSane, KeepsReport DEF Sane, TypeOK
<1>0. swap # None /\ stage = "first" /\ before' = before
  BY Busy DEF First
<1>u. /\ swap.sell \in Holder /\ swap.buy \in Holder /\ Middle \in Holder
      /\ swap.sell # swap.buy /\ swap.sell # Middle /\ swap.buy # Middle
      /\ swap.amount \in Nat /\ misheard \in BOOLEAN /\ uneven \in BOOLEAN
      /\ \A x \in Holder : Spent(x) \in Int
  BY <1>0, UnderWay
<1>s. \A x : Spent(x)' = After(x)
  BY <1>0, SpentAfter
<1>1. CASE /\ Fails(swap.sell, Middle, swap.amount)
           /\ Ends \/ (swap.route # "bridged" /\ Raises /\ UNCHANGED result)
  <2>1. account' = account /\ misheard' = misheard
    BY <1>1 DEF Fails, Refused, Lost
  <2>2. swap' = swap /\ result' = result /\ stage' \in {"idle", "first"}
    BY <1>1 DEF Ends, Raises
  <2>3. Untouched /\ result = Blank
    BY <1>0, <2>1 DEF ReportInv, Heard
  <2>4. Untouched'
    BY <1>0, <2>1, <2>3 DEF Untouched, Spent
  <2> QED
    BY <1>0, <2>1, <2>2, <2>3, <2>4 DEF ReportInv, Heard, Ended
<1>2. CASE /\ \E m \in Fill(swap.sell, swap.amount) : FirstAccepted(m)
           /\ Goes("second") /\ UNCHANGED misheard
  <2>1. PICK m \in Fill(swap.sell, swap.amount) : FirstAccepted(m)
    BY <1>2
  <2>2. m \in Nat /\ (~Missized => m <= swap.amount) /\ Effect(swap.sell, Middle, m)
    BY <1>0, <1>u, <2>1, MovesEffect DEF FirstAccepted
  <2>3. swap' = swap /\ stage' = "second" /\ result' = result /\ ~misheard
    BY <1>2 DEF Goes
  <2>4. Untouched /\ result = Blank
    BY <1>0, <2>3 DEF ReportInv, Heard
  <2>5. /\ After(swap.sell) = m /\ After(Middle) = 0 - m
        /\ \A x \in Holder \ {swap.sell, Middle} : After(x) = 0
    BY <1>u, <2>2, <2>4 DEF Effect, Untouched
  <2>6. ~swap.odd => m <= swap.amount
    BY <2>2 DEF Missized
  <2>7. ~uneven' => m = swap.amount /\ carried' = swap.amount
    BY <1>u, <2>1 DEF FirstAccepted
  <2>8. Middle' = Middle
    BY <2>3 DEF Middle
  <2>9. Sold(Middle)'
    BY <1>u, <1>s, <2>2, <2>3, <2>5, <2>6, <2>7, <2>8 DEF Sold
  <2> QED
    BY <2>3, <2>4, <2>7, <2>9 DEF ReportInv, Heard, Ended
<1> QED
  BY <1>1, <1>2 DEF First, FirstAccepted

\* A second leg that fails leaves in the middle currency what was sold, and one
\* that is accepted gives the other coin for it.
LEMMA SecondReports == Sane /\ Bounded /\ ReportInv /\ Second => ReportInv'
<1> SUFFICES ASSUME Sane, Bounded, ReportInv, Second, misheard' = FALSE PROVE ReportInv'
  BY SecondSane, KeepsReport DEF Sane, TypeOK
<1>0. swap # None /\ stage = "second" /\ before' = before
  BY Busy DEF Second
<1>u. /\ swap.sell \in Holder /\ swap.buy \in Holder /\ Middle \in Holder
      /\ swap.sell # swap.buy /\ swap.sell # Middle /\ swap.buy # Middle
      /\ swap.amount \in Nat /\ misheard \in BOOLEAN /\ uneven \in BOOLEAN
      /\ \A x \in Holder : Spent(x) \in Int /\ carried \in Nat
  BY <1>0, UnderWay
<1>s. \A x : Spent(x)' = After(x)
  BY <1>0, SpentAfter
<1>1. CASE Accepted(Middle, swap.buy, carried) /\ Succeeds
  <2>1. PICK m \in Nat :
           /\ Effect(Middle, swap.buy, m)
           /\ uneven' = (uneven \/ m # swap.amount)
    BY <1>0, <1>u, <1>1, AcceptedEffect
  <2>2. /\ ~misheard /\ swap' = swap /\ stage' = "idle"
    BY <1>0, <1>u, <1>1, AcceptedEffect, SucceedsTyped
  <2>3. Sold(Middle) /\ result = Blank
    BY <1>0, <2>2 DEF ReportInv, Heard
  <2>4. /\ After(swap.sell) = Spent(swap.sell) /\ After(swap.buy) = 0 - m
        /\ After(Middle) = m - Spent(swap.sell)
        /\ \A x \in Holder \ {swap.sell, swap.buy, Middle} : After(x) = 0
        /\ Spent(swap.sell) >= 0 /\ (~swap.odd => Spent(swap.sell) <= swap.amount)
    BY <1>u, <2>1, <2>3 DEF Effect, Sold
  <2>5. ~uneven' => m = swap.amount /\ Spent(swap.sell) = swap.amount
    BY <1>u, <2>1, <2>3 DEF Sold
  <2>6. result'.executed /\ ~result'.partial /\ ~result'.reversed
    BY <1>1, <2>2, <2>3 DEF Succeeds, Blank
  <2>7. ~uneven' => Sold(swap.buy)'
    <3>1. SUFFICES ASSUME ~uneven' PROVE Sold(swap.buy)'
      OBVIOUS
    <3>2. /\ After(swap.sell) = swap.amount /\ After(swap.buy) = 0 - swap.amount
          /\ \A x \in Holder \ {swap.sell, swap.buy} : After(x) = 0
      BY <1>u, <2>4, <2>5, <3>1
    <3> QED
      BY <1>u, <1>s, <2>2, <3>2 DEF Sold
  <2> QED
    BY <1>u, <1>s, <2>1, <2>2, <2>4, <2>6, <2>7 DEF ReportInv, Heard, Ended
<1>2. CASE /\ Fails(Middle, swap.buy, carried)
           /\ stage' = "back" /\ result' = [result EXCEPT !.partial = TRUE]
           /\ UNCHANGED <<swap, carried, caught, recent>>
  <2>1. account' = account /\ misheard' = misheard /\ uneven' = uneven
    BY <1>2 DEF Fails, Refused, Lost
  <2>2. Sold(Middle) /\ result = Blank /\ (~uneven => carried = swap.amount)
    BY <1>0, <2>1 DEF ReportInv, Heard
  <2>3. Sold(Middle)'
    BY <1>0, <1>2, <2>1, <2>2 DEF Sold, Spent, Middle
  <2> QED
    BY <1>2, <2>1, <2>2, <2>3 DEF ReportInv, Heard, Ended
<1> QED
  BY <1>1, <1>2 DEF Second

\* A reversal that is accepted buys back, one that fails leaves what was sold in
\* the middle currency.
LEMMA BackReports == Sane /\ ReportInv /\ Back => ReportInv'
<1> SUFFICES ASSUME Sane, ReportInv, Back, misheard' = FALSE PROVE ReportInv'
  BY BackSane, KeepsReport DEF Sane, TypeOK
<1>0. swap # None /\ stage = "back" /\ before' = before
  BY Busy DEF Back
<1>u. /\ swap.sell \in Holder /\ swap.buy \in Holder /\ Middle \in Holder
      /\ swap.sell # swap.buy /\ swap.sell # Middle /\ swap.buy # Middle
      /\ swap.amount \in Nat /\ misheard \in BOOLEAN /\ uneven \in BOOLEAN
      /\ \A x \in Holder : Spent(x) \in Int /\ carried \in Nat
  BY <1>0, UnderWay
<1>s. \A x : Spent(x)' = After(x)
  BY <1>0, SpentAfter
<1>1. CASE /\ Accepted(Middle, swap.sell, carried)
           /\ stage' = "idle" /\ swap' = swap
           /\ result' = [result EXCEPT !.reversed = TRUE]
  <2>1. PICK m \in Nat :
           /\ Effect(Middle, swap.sell, m)
           /\ uneven' = (uneven \/ m # swap.amount)
    BY <1>0, <1>u, <1>1, AcceptedEffect
  <2>2. ~misheard
    BY <1>0, <1>u, <1>1, AcceptedEffect
  <2>3. Sold(Middle) /\ result = [Blank EXCEPT !.partial = TRUE]
    BY <1>0, <2>2 DEF ReportInv, Heard
  <2>4. /\ After(swap.sell) = Spent(swap.sell) - m /\ After(Middle) = m - Spent(swap.sell)
        /\ \A x \in Holder \ {swap.sell, Middle} : After(x) = 0
    BY <1>u, <2>1, <2>3 DEF Effect, Sold
  <2>5. ~uneven' => \A x \in Holder : After(x) = 0
    <3>1. SUFFICES ASSUME ~uneven' PROVE \A x \in Holder : After(x) = 0
      OBVIOUS
    <3>2. m = swap.amount /\ Spent(swap.sell) = swap.amount
      BY <1>u, <2>1, <2>3, <3>1 DEF Sold
    <3> QED
      BY <1>u, <2>4, <3>2
  <2>6. ~result'.executed /\ result'.partial /\ result'.reversed
    BY <1>1, <2>3 DEF Blank
  <2>7. ~uneven' => Untouched'
    BY <1>s, <2>5 DEF Untouched
  <2> QED
    BY <1>u, <1>1, <1>s, <2>4, <2>6, <2>7 DEF ReportInv, Heard, Ended
<1>2. CASE Fails(Middle, swap.sell, carried) /\ Ends
  <2>1. account' = account /\ misheard' = misheard /\ uneven' = uneven
    BY <1>2 DEF Fails, Refused, Lost
  <2>2. swap' = swap /\ result' = result /\ stage' = "idle"
    BY <1>2 DEF Ends
  <2>3. Sold(Middle) /\ result = [Blank EXCEPT !.partial = TRUE]
    BY <1>0, <2>1 DEF ReportInv, Heard
  <2>4. Sold(Middle)'
    BY <1>0, <2>1, <2>2, <2>3 DEF Sold, Spent, Middle
  <2>5. ~result'.executed /\ result'.partial /\ ~result'.reversed
    BY <2>2, <2>3 DEF Blank
  <2> QED
    BY <2>2, <2>4, <2>5 DEF ReportInv, Heard, Ended
<1> QED
  BY <1>1, <1>2 DEF Back

\* Around the swaps nothing is reported anew.
LEMMA OthersReport ==
    ASSUME Sane, ReportInv,
           \/ Evaluate \/ Refresh \/ Restart \/ UNCHANGED vars
           \/ \E p \in Proposal : Begin(p)
           \/ \E c \in Coin : CooldownEnds(c)
    PROVE  ReportInv'
<1>1. CASE Evaluate \/ Refresh
  BY <1>1 DEF Evaluate, Refresh, Forgets, ReportInv, Heard, Ended
<1>2. CASE \E p \in Proposal : Begin(p)
  <2>1. /\ before' = account /\ account' = account /\ result' = Blank
        /\ stage' \in {"direct", "first"}
    BY <1>2 DEF Begin, books
  <2>2. \A x \in Holder : before'[x] - account'[x] = 0
    BY <2>1 DEF Sane, TypeOK, Holder
  <2>3. Untouched'
    BY <2>2 DEF Untouched, Spent
  <2> QED
    BY <2>1, <2>3 DEF ReportInv, Heard, Ended
<1>3. CASE Restart
  <2>1. /\ swap' = swap /\ before' = before /\ account' = account /\ stage' = "idle"
        /\ misheard' = (misheard \/ stage # "idle") /\ result' = result /\ uneven' = uneven
    BY <1>3 DEF Restart
  <2>2. misheard' = FALSE => ~misheard /\ stage = "idle"
    BY <2>1
  <2>3. misheard' \in BOOLEAN
    BY <2>1
  <2> QED
    BY <2>1, <2>2, <2>3 DEF ReportInv, Heard, Ended, Untouched, Sold, Spent, Middle
<1>4. CASE UNCHANGED vars \/ \E c \in Coin : CooldownEnds(c)
  <2>1. UNCHANGED <<account, run>>
    BY <1>4 DEF CooldownEnds, vars, books
  <2> QED
    BY <2>1 DEF run, ReportInv, Heard, Ended, Untouched, Sold, Spent, Middle
<1> QED
  BY <1>1, <1>2, <1>3, <1>4

-----------------------------------------------------------------------------
(* The theorems *)

Inv == Sane /\ Bounded /\ ReportInv

\* Every step keeps the three invariants.
LEMMA StepInv == Inv /\ [Next]_vars => Inv'
<1> SUFFICES ASSUME Sane, Bounded, ReportInv, [Next]_vars PROVE Sane' /\ Bounded' /\ ReportInv'
  BY DEF Inv
<1>1. Sane'
  BY SaneStep
<1>2. Bounded'
  BY DirectBounded, FirstBounded, SecondBounded, BackBounded, OthersBounded DEF Next
<1>3. ReportInv'
  BY DirectReports, FirstReports, SecondReports, BackReports, OthersReport DEF Next
<1> QED
  BY <1>1, <1>2, <1>3

\* At the start no swap is under way and none has been reported.
LEMMA InitInv == Init => Inv
  BY InitSane DEF Inv, Init, Bounded, ReportInv, Heard, Ended

\* The invariants hold in every reachable state.
LEMMA Invariants == Spec => []Inv
  BY InitInv, StepInv, PTL DEF Spec

\* The bounds of every stage are within those of the property.
LEMMA BoundedIsEnough == Sane /\ Bounded => LossesAreBounded
<1> SUFFICES ASSUME Sane, Bounded, swap # None
             PROVE  /\ ~swap.odd => Spent(swap.sell) <= SoldTimes * swap.amount
                    /\ ~OddBridge => Spent(Middle) <= MiddleTimes * swap.amount
                    /\ \A x \in Holder \ {swap.sell, Middle} : Spent(x) <= 0
  BY DEF LossesAreBounded, Holder, OddBridge
<1>1. /\ ~swap.odd => Spent(swap.sell) <= SoldAtMost
      /\ ~OddBridge => Spent(Middle) <= MiddleAtMost
      /\ \A z \in Holder \ {swap.sell, Middle} : Spent(z) <= 0
  BY DEF Bounded
<1>2. /\ swap.sell \in Holder /\ Middle \in Holder
      /\ swap.amount \in Nat /\ misheard \in BOOLEAN /\ uneven \in BOOLEAN /\ caught \in BOOLEAN
      /\ \A z \in Holder : Spent(z) \in Int
  BY UnderWay
<1>3. SoldAtMost \in Int /\ SoldAtMost <= SoldTimes * swap.amount
  BY <1>2 DEF SoldAtMost, SoldTimes
<1>4. MiddleAtMost \in Int /\ MiddleAtMost <= MiddleTimes * swap.amount
  <2>1. CASE misheard
    BY <1>2, <2>1 DEF MiddleAtMost, MiddleTimes, LostBefore, Brought
  <2>2. CASE ~misheard
    BY <1>2, <2>2 DEF MiddleAtMost, MiddleTimes, LostBefore, Brought
  <2> QED
    BY <2>1, <2>2
<1>5. SoldTimes * swap.amount \in Int /\ MiddleTimes * swap.amount \in Int
  BY <1>2 DEF SoldTimes, MiddleTimes
<1> QED
  BY <1>1, <1>2, <1>3, <1>4, <1>5

\* Every reachable state of a rotation is well typed: no order takes the
\* account below zero.
THEOREM TypeCorrect == Spec => []TypeOK
<1>1. Inv => TypeOK
  BY DEF Inv, Sane
<1> QED
  BY <1>1, Invariants, PTL

\* Whatever fails, gets lost, is not filled or crashes, a swap of
\* core/rotation_executor.py sells its coin and takes of the middle currency as
\* often as LossesAreBounded says at most, and leaves every other coin alone.
THEOREM SwapLossesBounded == Spec => []LossesAreBounded
<1>1. Inv => LossesAreBounded
  BY BoundedIsEnough DEF Inv
<1> QED
  BY <1>1, Invariants, PTL

\* Heard replies make execute_swap's report true of the coins: nothing, executed,
\* partial and reversed say which were traded, and how much if orders were filled.
THEOREM SwapOutcomeTrue == Spec => []OutcomeIsTrue
<1>1. Inv => OutcomeIsTrue
  BY EndedIsTrue DEF Inv, ReportInv
<1> QED
  BY <1>1, Invariants, PTL
=============================================================================
