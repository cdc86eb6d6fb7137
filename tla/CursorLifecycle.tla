-------------------------- MODULE CursorLifecycle --------------------------
(***************************************************************************)
(* What the sync_state row promises the commands that start from it: the    *)
(* life of a cursor, whatever runs write it and wherever they fail.         *)
(*                                                                          *)
(*   unfinished  no import, or one whose last page is in but not its end    *)
(*   importing   `backfill` resumes                                         *)
(*   complete    `sync` and `reconcile` may start                           *)
(***************************************************************************)
EXTENDS Naturals

VARIABLES
    phase,  \* "unfinished", "importing" or "complete"
    wm      \* the watermark, 0 for NULL

cursor == <<phase, wm>>

LifecycleInit == phase = "unfinished" /\ wm = 0

\* An import begins, over an empty store or forced: it may start anywhere.
\* More pages to come, or only the end of the import.
Restart ==
    /\ phase \in {"unfinished", "complete"}
    /\ phase' \in {"importing", "unfinished"}
    /\ wm' \in Nat

\* An import that is under way, in the same run or resumed, goes forward.
Continue ==
    /\ phase = "importing"
    /\ phase' \in {"importing", "unfinished"}
    /\ wm' \in Nat
    /\ wm' >= wm

\* It ends where its last page left it, and always with a watermark.
Finish ==
    /\ phase = "unfinished"
    /\ phase' = "complete"
    /\ wm' \in Nat \ {0}
    /\ wm # 0 => wm' = wm

\* `sync` goes forward.
Follow ==
    /\ phase = "complete"
    /\ phase' = "complete"
    /\ wm' \in Nat
    /\ wm' >= wm

LifecycleNext == Restart \/ Continue \/ Finish \/ Follow

LifecycleSpec == LifecycleInit /\ [][LifecycleNext]_cursor

=============================================================================
