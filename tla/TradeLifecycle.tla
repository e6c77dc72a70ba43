--------------------------- MODULE TradeLifecycle ---------------------------
(***************************************************************************)
(* What the bot promises of every trade it has recorded, whoever acts on   *)
(* it: the statuses of models/trade.py (TradeStatus) and the moves that    *)
(* executor, holdings manager and ledger may make between them.  A trade   *)
(* is opened once, confirmed or ended while its order is pending, closed   *)
(* once while it is open, and then left alone.                             *)
(***************************************************************************)
CONSTANT Trade

VARIABLE status

Waiting == {"pending"}
Live == {"pending", "filled"}
Ended == {"cancelled", "failed"}

TypeOK == status \in [Trade -> {"none", "closed"} \cup Live \cup Ended]

Init == status = [t \in Trade |-> "none"]

\* The order of t is recorded, as resting or as filled.
Open(t, s) ==
    /\ status[t] = "none"
    /\ status' = [status EXCEPT ![t] = s]

\* The exchange reports the fill, or the end, of a resting order.
Settle(t, s) ==
    /\ status[t] \in Waiting
    /\ status' = [status EXCEPT ![t] = s]

\* One position is closed, or all trades whose coins are gone at once.
Close(S) ==
    /\ \A t \in S : status[t] \in Live
    /\ status' = [t \in Trade |-> IF t \in S THEN "closed" ELSE status[t]]

Next ==
    \/ \E t \in Trade, s \in Live : Open(t, s)
    \/ \E t \in Trade, s \in {"filled"} \cup Ended : Settle(t, s)
    \/ \E S \in SUBSET Trade : Close(S)

Spec == Init /\ [][Next]_status
=============================================================================
