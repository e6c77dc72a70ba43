----------------------------- MODULE MCIbkrVenue -----------------------------
(***************************************************************************)
(* IbkrVenue for TLC: two trades, halves of a share, a quantity that is no *)
(* whole number of shares and one that is.                                 *)
(***************************************************************************)
EXTENDS IbkrVenue
=============================================================================
