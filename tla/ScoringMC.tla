----------------------------- MODULE ScoringMC -----------------------------
(* Instances of Scoring for TLC.                                           *)
EXTENDS Scoring

MCVersion == 0..2
============================================================================
