--------------------------- MODULE MCSSHCommands ----------------------------
(***************************************************************************)
(* Values for the constants of SSHCommands: run_command() called by two    *)
(* threads and run_command_ignore_fail() by a third, on one connection.    *)
(***************************************************************************)
EXTENDS SSHCommands

CONSTANTS c1, c2, c3

ThreeCalls == {c1, c2, c3}
TwoChecked == {c1, c2}
=============================================================================
