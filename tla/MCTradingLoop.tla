---------------------------- MODULE MCTradingLoop ----------------------------
(***************************************************************************)
(* A small instance of TradingLoop: a drawdown over the limit of 20 %, one *)
(* between the limit and the 16 % of recovery, and a smaller one.          *)
(***************************************************************************)
EXTENDS TradingLoop

MCValue == {75, 82, 100}
=============================================================================
