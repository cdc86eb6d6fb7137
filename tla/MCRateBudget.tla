---------------------------- MODULE MCRateBudget ----------------------------
(* Small instances of RateBudget for the model checker.                     *)
EXTENDS RateBudget
=============================================================================
