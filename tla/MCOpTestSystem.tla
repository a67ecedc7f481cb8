--------------------------- MODULE MCOpTestSystem ---------------------------
(***************************************************************************)
(* Values for the constants of OpTestSystem: which states the tests ask    *)
(* for, where op-test starts, and what else may happen to the machine.     *)
(***************************************************************************)
EXTENDS OpTestSystem

\* What the tests of testcases/ pass to goto_state().
EveryTarget == {"OFF", "OS", "PETITBOOT", "PETITBOOT_SHELL"}
\* The two that need the machine up; each goes through a power-off.
ShellAndOS == {"OS", "PETITBOOT_SHELL"}

\* host_state of the configuration: detect, or believe what was given.
DetectOrOff == {"UNKNOWN", "OFF"}

=============================================================================
