------------------------- MODULE MCDashboardCommands -------------------------
(***************************************************************************)
(* A small instance of DashboardCommands: two commands about one pair, a   *)
(* window of one, and a dashboard clock that may be one ahead of the       *)
(* agent's.                                                                *)
(***************************************************************************)
EXTENDS DashboardCommands

CONSTANTS k1, k2

MCCommand == {k1, k2}
MCMay == [c \in MCCommand |->
    IF c = k1 THEN {"pause", "other"} ELSE {"add_watchlist_pair", "remove_watchlist_pair"}]
MCSkew == {0, 1}
MCCopies == [c \in MCCommand |-> IF c = k1 THEN 2 ELSE 1]
=============================================================================
