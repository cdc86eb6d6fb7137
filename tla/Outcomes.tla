------------------------------ MODULE Outcomes ------------------------------
(***************************************************************************)
(* How the run of an engine over one resource may leave its sync_state row: *)
(*                                                                          *)
(*   absent      there is none                                              *)
(*   unfinished  rows may be stored, but no link to go on from              *)
(*   importing   `backfill` resumes                                         *)
(*   complete    `sync` and `reconcile` may start                           *)
(*                                                                          *)
(* RunSummary is the specification that Replication implements with them,   *)
(* Commands takes the run of an engine as one step with them.               *)
(***************************************************************************)

\* `backfill` returns no error: imported, or cut by --max-pages.
AfterBackfill(capped) == {"complete"} \cup IF capped THEN {"importing"} ELSE {}

\* It returns one, or dies: before its first page is saved, after a page, or
\* between the last page and the end of the import.
AfterFailedBackfill(before) == {before, "importing", "unfinished"}

=============================================================================
