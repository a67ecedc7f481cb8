---------------------------- MODULE MCKernelDump ----------------------------
(***************************************************************************)
(* An instance of KernelDump, whose names differ from those of the suites. *)
(***************************************************************************)
EXTENDS Naturals, FiniteSets

CONSTANTS
    DumpLast,           \* the number of dump tests,
    CrashTypes,         \* their crash_type,
    Retries             \* and max_retries of a monitor's connect

VARIABLES
    dumpTest, dumpPc, crashType, crashContent, crashResult, foundDump,
    lpar, cause, armed, restarts, dumps, crashedSince,
    mpc, monitorTries, consolePty, stopConsole, readyConsole, monitorSeen,
    pty, connected, openPtys, vterm

D == INSTANCE KernelDump WITH
        Last <- DumpLast, Kinds <- CrashTypes,
        test <- dumpTest, pc <- dumpPc, kind <- crashType,
        content <- crashContent, result <- crashResult, found <- foundDump,
        host <- lpar, pending <- restarts, since <- crashedSince, tries <- monitorTries, holds <- consolePty,
        stop <- stopConsole, ready <- readyConsole, seen <- monitorSeen,
        open <- openPtys

AllCrashTypes == {"echo_c", "watchdog", "hmc"}

\* Only the types of crash that kernel_crash() knows, and at least one try.
ASSUME DumpAssumption ==
    /\ DumpLast \in Nat /\ Retries \in Nat \ {0}
    /\ CrashTypes \subseteq AllCrashTypes

DumpSpec == D!Spec

\* The dump that a test passes on is of a crash since it listed the old ones: its
\* own, or a late one of a test before it (verify_dump_file).
OwnDump == D!OwnDump

\* Only failures of kernel_crash() leave a monitor that was not told to stop.
OnlyFailuresForget == D!OnlyFailuresForget

\* The dump tests end, and so does every monitor that was told to stop.
DumpTestsEnd == D!TestsEnd
=============================================================================
