------------------------------ MODULE MCRotation ------------------------------
(***************************************************************************)
(* Rotation for TLC.  Three coins, so that two may be sold in one          *)
(* evaluation for the third, and one of them is the bridge; three units of *)
(* each, so that a coin may be sold more than once; one evaluation, whose  *)
(* second swap meets what the first one left.                              *)
(***************************************************************************)
EXTENDS Rotation, TLC

CONSTANTS c1, c2, br

\* The coins beside the bridge are alike.
Alike == Permutations({c1, c2})
=============================================================================
