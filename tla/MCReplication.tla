--------------------------- MODULE MCReplication ---------------------------
(* Small instances of Offsets for the model checker.                        *)
EXTENDS Offsets, TLC

\* The processes are interchangeable: no definition tells them apart.  (Keys
\* are not: a page is ordered by timestamp and then by key.)
ProcSymmetry == Permutations(Procs)

=============================================================================
