---------------------------- MODULE MCInstallation ----------------------------
(***************************************************************************)
(* "agama install" from the command line and a web client with a few       *)
(* requests (install, finish, write the configuration) at any moment.  Two *)
(* installations could start, if the code let them.                        *)
(***************************************************************************)
EXTENDS Installation

=============================================================================
