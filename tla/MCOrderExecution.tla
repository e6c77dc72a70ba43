--------------------------- MODULE MCOrderExecution ---------------------------
(***************************************************************************)
(* Small instances of OrderExecution.                                      *)
(***************************************************************************)
EXTENDS OrderExecution

CONSTANT btc

MCPair == {btc}

\* Two prices: a market order can slip, an exit can win or lose.
MCPrice == {2, 3}

\* The exactness properties speak of histories without a divergence; no
\* longer history is explored.
Undiverged == diverged = {}

\* Causes that can strike while an order rests, for the liveness run.
WhileResting == diverged \subseteq {"raced", "refunded", "forgotten", "resynced"}
=============================================================================
