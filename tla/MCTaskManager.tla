---------------------------- MODULE MCTaskManager ----------------------------
(***************************************************************************)
(* The task manager with three tasks: every graph of dependencies among    *)
(* three tasks submitted one after another or at once (a chain, a fork, a  *)
(* join and no dependency at all), each with run or run_always.            *)
(***************************************************************************)
EXTENDS TaskManager

=============================================================================
