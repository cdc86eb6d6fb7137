---------------------------- MODULE MCDeepPaging ----------------------------
(* Small instances of DeepPaging for the model checker.                     *)
EXTENDS DeepPaging
=============================================================================
