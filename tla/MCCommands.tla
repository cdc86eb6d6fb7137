---------------------------- MODULE MCCommands -----------------------------
(* Small instances of Commands for the model checker.                       *)
EXTENDS Commands
=============================================================================
