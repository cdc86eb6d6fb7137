----------------------------- MODULE MCMigrate -----------------------------
(* Small instances of Migrate for the model checker.                        *)
EXTENDS Migrate, TLC

\* A release, the next one, and one whose first file was edited.
MCBuilds == {1 :> "a", 1 :> "a" @@ 2 :> "b", 1 :> "x" @@ 2 :> "b"}

=============================================================================
