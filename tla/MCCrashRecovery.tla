--------------------------- MODULE MCCrashRecovery ---------------------------
(***************************************************************************)
(* CrashRecovery for TLC: one decision to buy, whose stores are followed   *)
(* one by one, and one swap, which keeps the queue non-empty without it.   *)
(* Two restarts let an approval come back twice.                           *)
(***************************************************************************)
EXTENDS CrashRecovery
=============================================================================
