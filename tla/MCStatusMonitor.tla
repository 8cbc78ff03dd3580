--------------------------- MODULE MCStatusMonitor ---------------------------
(***************************************************************************)
(* One client of either kind, two tasks that may depend on each other, a   *)
(* progress that is there from the start or not and one event of the       *)
(* progress service, and a channel that keeps two events.                  *)
(***************************************************************************)
EXTENDS StatusMonitor

=============================================================================
