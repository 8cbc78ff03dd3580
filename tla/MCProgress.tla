------------------------------ MODULE MCProgress ------------------------------
(***************************************************************************)
(* The progress service with two scopes, progresses of up to two steps     *)
(* and five messages.                                                      *)
(***************************************************************************)
EXTENDS Progress

=============================================================================
