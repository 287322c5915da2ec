-------------------------- MODULE MCThresholdSweep --------------------------
(* Two claims, two chunks and three score levels: enough for a claim with  *)
(* both an entailment and a contradiction, beside an unresolved claim, with*)
(* thresholds below, at and above every score.                             *)
EXTENDS ThresholdSweep, TLC

Symmetry == Permutations(Claim) \union Permutations(Chunk)
=============================================================================
