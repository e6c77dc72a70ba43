----------------------------- MODULE MCExitEngine -----------------------------
(***************************************************************************)
(* Small instances of ExitEngine.                                          *)
(***************************************************************************)
EXTENDS ExitEngine

CONSTANT btc

MCPair == {btc}
=============================================================================
