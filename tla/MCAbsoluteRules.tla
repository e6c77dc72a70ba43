--------------------------- MODULE MCAbsoluteRules ---------------------------
(***************************************************************************)
(* A small instance of AbsoluteRules: two buys under way and a limit that  *)
(* one of them may still pass when the other has not been recorded.        *)
(***************************************************************************)
EXTENDS AbsoluteRules, TLC

CONSTANTS c1, c2

MCCaller == {c1, c2}
Symmetry == Permutations(MCCaller)

\* The counters that only grow within a day are followed this far.
Bounded == dailyCount <= 4 /\ dailyLoss <= 1
=============================================================================
