---------------------------- MODULE MCPairPipeline ----------------------------
(***************************************************************************)
(* PairPipeline for TLC.  The pairs are interchangeable; the amounts lie   *)
(* on both sides of every limit.                                           *)
(***************************************************************************)
EXTENDS PairPipeline, TLC

Symmetry == Permutations(Pair)
=============================================================================
