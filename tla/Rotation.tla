------------------------------- MODULE Rotation -------------------------------
(***************************************************************************)
(* Portfolio rotation: core/portfolio_rotator.py proposes to sell a part   *)
(* of a held coin for another one, core/rotation_executor.py carries the   *)
(* swap out over a direct pair, over a bridge coin or over fiat, and sells *)
(* back what it can when the second leg fails.  The orchestrator evaluates *)
(* once and then executes proposal after proposal.                         *)
(*                                                                         *)
(* Orders are market orders whose fill nobody looks at: one that is        *)
(* accepted counts as done, whether the exchange fills it in full, in part *)
(* or not at all.  One may be filled although the client reports an error  *)
(* (the reply was lost), and journal or audit may raise when all is done.  *)
(* The swaps are not written to the ledger: it learns of them from the     *)
(* next refresh.  Amounts are units of equal value; fees and prices decide *)
(* what is proposed and are left open, as are the scores, the language     *)
(* model's veto and what AbsoluteRules answers.  Escalated swaps are       *)
(* CrashRecovery's.                                                        *)
(***************************************************************************)
EXTENDS Integers, FiniteSets

CONSTANTS
    Coin,      \* the coins traded against fiat
    Bridge,    \* what a bridged swap goes over: a coin, or the quote currency
    Fiat,      \* the quote currency
    Start,     \* units of every coin held at the start, and of fiat
    MaxOpen,   \* max_open_positions of the tier
    Rounds     \* evaluations that are looked at

ASSUME RotationAssumption ==
    /\ IsFiniteSet(Coin) /\ Bridge \in Coin \cup {Fiat} /\ Fiat \notin Coin
    /\ Start \in Nat \ {0} /\ MaxOpen \in Nat \ {0} /\ Rounds \in Nat

VARIABLES
    account,   \* what the exchange holds for the owner
    ledger,    \* state.open_positions, in units
    plan,      \* proposals of the last evaluation, not yet executed
    swap,      \* the proposal being executed
    stage,     \* where execute_swap is
    carried,   \* what the first leg is taken to have brought
    caught,    \* what is raised now starts the fiat route or the reversal anew
    result,    \* what execute_swap reports of the last swap
    recent,    \* pairs within the swap cooldown
    round,     \* evaluations so far
    before,    \* for the properties: the account when the swap began
    misheard,  \* for the properties: the last swap met a lost reply, a raising
               \* journal or a crash
    uneven     \* for the properties: an accepted order of the last swap moved
               \* another amount than the swap's

books == <<account, ledger>>
run == <<plan, swap, stage, carried, caught, result, before, misheard, uneven>>
vars == <<books, run, recent, round>>

Route == {"direct", "bridged", "fiat"}

\* odd: an order of the route is sized in the wrong currency.  That happens on
\* a direct pair that is quoted the other way round, and with a bridge that is
\* not worth a unit of fiat.
Proposal == [sell: Coin, buy: Coin, amount: 1..Start, route: Route, odd: BOOLEAN]

None == [route |-> "none"]

Stage == {"idle", "direct", "first", "second", "back"}

\* What the dictionary returned by execute_swap says
Result == [executed: BOOLEAN, partial: BOOLEAN, reversed: BOOLEAN]

Blank == [executed |-> FALSE, partial |-> FALSE, reversed |-> FALSE]

Known == {c \in Coin : ledger[c] > 0}

Init ==
    /\ \E held \in SUBSET Coin :
          /\ Cardinality(held) <= MaxOpen
          /\ account = [x \in Coin \cup {Fiat} |->
                           IF x \in held \cup {Fiat} THEN Start ELSE 0]
          /\ ledger = [c \in Coin |-> IF c \in held THEN Start ELSE 0]
    /\ plan = {} /\ swap = None /\ stage = "idle" /\ result = Blank
    /\ carried = 0 /\ caught = FALSE
    /\ recent = {} /\ round = 0
    /\ before = account /\ misheard = FALSE /\ uneven = FALSE

-----------------------------------------------------------------------------
(* Proposals *)

Room == Cardinality(Known) < MaxOpen

\* The pairs that may be sold: held by the ledger and not in cooldown
MaySell == Known \ recent

\* What may be proposed for one held coin.  A bridge is a third coin.
Proposed(c) ==
    {p \in Proposal :
        /\ p.sell = c /\ p.buy \notin Known
        /\ p.amount <= ledger[c]
        /\ p.route = "bridged" => Bridge \notin {p.sell, p.buy}
        /\ p.route = "fiat" => ~p.odd}

\* The last swap is over and looked at.
Forgets ==
    /\ swap' = None /\ result' = Blank /\ before' = account
    /\ misheard' = FALSE /\ uneven' = FALSE

\* evaluate_rotation: for every held coin the best candidate or none; two coins
\* may be swapped for the same one.
Evaluate ==
    /\ stage = "idle" /\ plan = {} /\ Room
    /\ round < Rounds /\ round' = round + 1
    /\ \E sold \in SUBSET MaySell \ {{}} :
          \E choice \in [sold -> Proposal] :
             /\ \A c \in sold : choice[c] \in Proposed(c)
             /\ plan' = {choice[c] : c \in sold}
    /\ Forgets
    /\ UNCHANGED <<books, stage, carried, caught, recent>>

\* execute_swap picks the route.  AbsoluteRules sees both legs before the first.
Begin(p) ==
    /\ stage = "idle" /\ p \in plan
    /\ plan' = plan \ {p}
    /\ swap' = p /\ result' = Blank
    /\ stage' = IF p.route = "direct" THEN "direct" ELSE "first"
    /\ carried' = 0 /\ caught' = (p.route = "direct")
    /\ before' = account /\ misheard' = FALSE /\ uneven' = FALSE
    /\ UNCHANGED <<books, recent, round>>

-----------------------------------------------------------------------------
(* Orders *)

Missized == swap.odd /\ (stage = "direct" \/ swap.route = "bridged")

\* What an order for n units of x may move: all of it, a part or nothing.
Fill(x, n) ==
    IF Missized THEN 0..account[x] ELSE {m \in 0..n : n <= account[x]}

\* m units of x become m units of y.
Moves(x, y, m) == account' = [account EXCEPT ![x] = @ - m, ![y] = @ + m]

\* The order is accepted.
Accepted(x, y, n) ==
    /\ \E m \in Fill(x, n) :
          Moves(x, y, m) /\ uneven' = (uneven \/ m # swap.amount)
    /\ UNCHANGED misheard

\* The order is refused, or there is no price for it: nothing moves.
Refused == UNCHANGED <<account, misheard, uneven>>

\* The order is filled and the client reports an error.
Lost(x, y, n) ==
    /\ \E m \in Fill(x, n) \ {0} : Moves(x, y, m)
    /\ misheard' = TRUE /\ UNCHANGED uneven

Fails(x, y, n) == Refused \/ Lost(x, y, n)

\* The swap is over, or goes on; what was reported so far stays reported.
Ends == stage' = "idle" /\ caught' = FALSE /\ UNCHANGED <<swap, carried, result>>
Goes(to) == stage' = to /\ UNCHANGED <<swap, result>>

\* What is raised starts over what the handler does, once, or ends the swap.
Raises ==
    /\ stage' = IF ~caught THEN "idle"
                ELSE IF swap.route = "bridged" THEN "back" ELSE "first"
    /\ caught' = FALSE
    /\ UNCHANGED <<swap, carried>>

\* _set_last_swap_times
Cools == recent' = recent \cup {swap.sell, swap.buy}

\* The last order was accepted: that is a success.  The journal is written, and
\* may raise although all is done.
Succeeds ==
    /\ Cools
    /\ \/ stage' = "idle" /\ caught' = FALSE /\ UNCHANGED <<swap, carried, misheard>>
       \/ Raises /\ misheard' = TRUE
    /\ result' = [result EXCEPT !.executed = TRUE, !.partial = @ \/ stage' = "back"]

-----------------------------------------------------------------------------
(* Legs *)

\* Variant: a direct order whose reply does not say that it was filled counts as
\* failed.
DirectUnlessFilled ==
    /\ stage = "direct"
    /\ \/ Accepted(swap.sell, swap.buy, swap.amount) /\ Succeeds
       \/ /\ Accepted(swap.sell, swap.buy, swap.amount) \/ Fails(swap.sell, swap.buy, swap.amount)
          /\ Goes("first") /\ UNCHANGED <<carried, caught, recent>>
    /\ UNCHANGED <<ledger, plan, before, round>>

\* One order on the direct pair.  An error sends the swap over fiat, where a raise
\* is still caught here; what is raised here, also after the order, does too.
\* Without a price all is over.
Direct ==
    /\ stage = "direct"
    /\ \/ Accepted(swap.sell, swap.buy, swap.amount) /\ Succeeds
       \/ /\ Fails(swap.sell, swap.buy, swap.amount)
          /\ Goes("first") /\ UNCHANGED <<carried, caught, recent>>
       \/ Refused /\ (Ends \/ (Raises /\ UNCHANGED result)) /\ UNCHANGED recent
    /\ UNCHANGED <<ledger, plan, before, round>>

Middle ==
    IF swap.route = "bridged" THEN Bridge ELSE Fiat

\* The first leg.  If it fails all is over; if its reply cannot be read, too, but
\* the fiat route may be caught.  An accepted order is taken to have brought what
\* the reply says, or the whole amount if it says nothing.
First ==
    /\ stage = "first"
    /\ \/ /\ Fails(swap.sell, Middle, swap.amount)
          /\ Ends \/ (swap.route # "bridged" /\ Raises /\ UNCHANGED result)
       \/ /\ \E m \in Fill(swap.sell, swap.amount) :
                /\ Moves(swap.sell, Middle, m)
                /\ uneven' = (uneven \/ m # swap.amount)
                /\ carried' \in {swap.amount} \cup ({m} \cap (0..swap.amount))
          /\ caught' = (caught \/ swap.route = "bridged")
          /\ Goes("second") /\ UNCHANGED misheard
    /\ UNCHANGED <<ledger, plan, recent, before, round>>

\* Variant: the failure of the second leg is reported like that of the first.
SecondGivesUp ==
    /\ stage = "second"
    /\ \/ Accepted(Middle, swap.buy, carried) /\ Succeeds
       \/ Fails(Middle, swap.buy, carried) /\ Ends /\ UNCHANGED recent
    /\ UNCHANGED <<ledger, plan, before, round>>

\* The second leg spends what the first is taken to have brought.  Its failure
\* starts the reversal; so does, in a bridged swap, a journal that raises after
\* both orders.
Second ==
    /\ stage = "second"
    /\ \/ Accepted(Middle, swap.buy, carried) /\ Succeeds
       \/ /\ Fails(Middle, swap.buy, carried)
          /\ stage' = "back" /\ result' = [result EXCEPT !.partial = TRUE]
          /\ UNCHANGED <<swap, carried, caught, recent>>
    /\ UNCHANGED <<ledger, plan, before, round>>

\* _attempt_bridge_reversal and _attempt_fiat_reversal.  A reversal that failed is
\* written to the audit log, which may raise: the leg's handler then reverses
\* once more, or starts the fiat route again.
Back ==
    /\ stage = "back"
    /\ \/ /\ Accepted(Middle, swap.sell, carried)
          /\ stage' = "idle" /\ caught' = FALSE
          /\ result' = [result EXCEPT !.reversed = TRUE]
          /\ UNCHANGED <<swap, carried>>
       \/ Fails(Middle, swap.sell, carried) /\ Ends
       \/ /\ \E m \in Fill(Middle, carried) \cup {0} : Moves(Middle, swap.sell, m)
          /\ Raises /\ misheard' = TRUE /\ UNCHANGED <<uneven, result>>
    /\ UNCHANGED <<ledger, plan, recent, before, round>>

-----------------------------------------------------------------------------
(* Around the rotation *)

\* The ledger meets the account: refresh adds coins, reconciliation caps them.
Refresh ==
    /\ stage = "idle" /\ plan = {}
    /\ ledger' = [c \in Coin |-> account[c]]
    /\ Forgets
    /\ UNCHANGED <<account, plan, stage, carried, caught, recent, round>>

\* Cooldowns are looked at between the swaps only, so they end there.
CooldownEnds(c) ==
    /\ stage = "idle" /\ c \in recent
    /\ recent' = recent \ {c}
    /\ UNCHANGED <<books, run, round>>

\* The process ends within a swap.  The next one has no plan, no cooldowns and
\* the ledger it finds on the account.
Restart ==
    /\ stage # "idle" \/ plan # {} \/ recent # {}
    /\ plan' = {} /\ recent' = {}
    /\ stage' = "idle" /\ caught' = FALSE
    /\ misheard' = (misheard \/ stage # "idle")
    /\ ledger' = [c \in Coin |-> account[c]]
    /\ UNCHANGED <<account, swap, carried, result, before, uneven, round>>

Next ==
    \/ Evaluate
    \/ \E p \in Proposal : Begin(p)
    \/ Direct \/ First \/ Second \/ Back
    \/ Refresh \/ Restart
    \/ \E c \in Coin : CooldownEnds(c)

Spec == Init /\ [][Next]_vars

-----------------------------------------------------------------------------
(* Properties *)

TypeOK ==
    /\ account \in [Coin \cup {Fiat} -> Nat]
    /\ ledger \in [Coin -> Nat]
    /\ plan \subseteq Proposal
    /\ swap \in Proposal \cup {None}
    /\ stage \in Stage /\ (swap = None => stage = "idle")
    /\ carried \in 0..Start /\ caught \in BOOLEAN
    /\ result \in Result
    /\ recent \subseteq Coin /\ round \in 0..Rounds
    /\ before \in [Coin \cup {Fiat} -> Nat]
    /\ misheard \in BOOLEAN /\ uneven \in BOOLEAN

\* The account after n units of x became n units of y
Exchanged(x, y, n) == [before EXCEPT ![x] = @ - n, ![y] = @ + n]

Spent(x) == before[x] - account[x]

\* What execute_swap reports is what happened, if every reply was heard: a swap
\* that reports nothing moved nothing, one that is executed took the one coin and
\* gave the other, one that is partial left in the bridge or in fiat what it sold,
\* and one that is reversed bought nothing of the other coin.  The amounts are the
\* swap's if every order was filled in full, which nobody looks at.  Orders that
\* are sized in the wrong currency may move any amount.
OutcomeIsTrue ==
    stage = "idle" /\ swap # None /\ ~misheard =>
        CASE result.executed ->
                /\ Spent(swap.sell) >= 0 /\ Spent(swap.buy) <= 0
                /\ ~swap.odd => Spent(swap.sell) <= swap.amount
                /\ ~uneven => account = Exchanged(swap.sell, swap.buy, swap.amount)
          [] result.partial /\ ~result.reversed ->
                /\ account = Exchanged(swap.sell, Middle, Spent(swap.sell))
                /\ Spent(swap.sell) >= 0
                /\ ~uneven => Spent(swap.sell) = swap.amount
          [] result.reversed ->
                /\ Spent(swap.buy) = 0
                /\ ~uneven => account = before
          [] OTHER -> account = before

\* The swap's amount, as often as a swap may lose it.  The coin: once, and if
\* replies are lost, the journal raises or the process dies, up to three times
\* (direct, and twice over fiat).  The middle currency, which the first leg
\* brings: never if all is heard and filled; once if the first leg was not filled
\* and the second one was; else up to twice in each of two passes.
SoldTimes == IF misheard THEN 3 ELSE 1

MiddleTimes ==
    CASE misheard /\ uneven -> 4
      [] misheard /\ ~uneven -> 2
      [] ~misheard /\ uneven -> 1
      [] OTHER -> 0

\* At worst a swap loses so much of its coin and of the middle currency, unless an
\* order is sized in the wrong currency, and no other coin is touched.
LossesAreBounded ==
    swap # None =>
        /\ ~swap.odd => Spent(swap.sell) <= SoldTimes * swap.amount
        /\ (swap.odd /\ swap.route = "bridged") \/ Spent(Middle) <= MiddleTimes * swap.amount
        /\ \A x \in (Coin \cup {Fiat}) \ {swap.sell, Middle} : Spent(x) <= 0
=============================================================================
