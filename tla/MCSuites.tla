------------------------------ MODULE MCSuites ------------------------------
(***************************************************************************)
(* Instances of Flash, Kernels and Platform, for one run of TLC: op-test   *)
(* runs one of the suites, each on a machine of its own.                   *)
(***************************************************************************)
EXTENDS Flash, Sequences

CONSTANTS v0, v1, v2,               \* the versions that Flash flashes
          a, m0, m1,                \* the argument and the settings of Kernels
          Settings, Commits, Iterations, KernelsLast,
          PlatformLast, Followers

ThreeVersions == {v0, v1, v2}
TwoSettings == <<m0, m1>>
Both == {"bmc", "pnor"}
AllKinds == {"arg", "kuap", "hotplug", "install", "kexec", "exec", "unload",
             "loop", "build", "perf", "boot"}

VARIABLES suite, kernelsLeft, kernelsPc, kernelsKind, kernelsOutcome,
          stage, byCommand, add, remove, need, round, good, bad, head, named,
          culprit, unread, missed, misjudged, ran, believes, host, running,
          default, config, loaded,
          platformLeft, platformTest, at, platformOutcome, state, stop,
          platformHost, changed, found, knew

\* Some that what another test left behind matters to.
AfterAnother ==
    {"StandbyBMCResetTorture", "HMI_TFMR_ERRORS", "Makedump", "HtxBootme_AllMdt",
     "VerifyOPALTrustedBoot"}

K == INSTANCE Kernels WITH
        left <- kernelsLeft, pc <- kernelsPc, kind <- kernelsKind,
        outcome <- kernelsOutcome, Arg <- a,
        Kinds <- AllKinds, Last <- KernelsLast

kernelsVars ==
    <<kernelsLeft, kernelsPc, kernelsKind, kernelsOutcome,
      stage, byCommand, add, remove, need, round, good, bad, head, named,
      culprit, unread, missed, misjudged, ran, believes, host, running,
      default, config, loaded>>

Tests == INSTANCE PlatformSuite
AllPrograms == Tests!Programs
HeldByKernel == Tests!Volatile
HeldByPower == Tests!Cured
NotBooted == Tests!Refusing
MoveUntold == Tests!Careless
AllLeaveBehind == Tests!LeavesBehind

P == INSTANCE Footprint WITH
        Programs <- AllPrograms, Volatile <- HeldByKernel, Cured <- HeldByPower,
        Refusing <- NotBooted, Careless <- MoveUntold, LeavesBehind <- AllLeaveBehind,
        left <- platformLeft, test <- platformTest, outcome <- platformOutcome,
        host <- platformHost, Last <- PlatformLast

\* OpTestDlpar's test_settings are different ones, and a search has a first commit
\* and a last.
ASSUME KernelsAssumption ==
    /\ Commits \in Nat \ {0, 1} /\ Iterations \in Nat \ {0} /\ KernelsLast \in Nat
    /\ Len(Settings) \in Nat \ {0}
    /\ \A i, j \in 1 .. Len(Settings) : Settings[i] = Settings[j] => i = j

\* What Platform's steps take of a program: where it may go on, and the arguments
\* with which a step changes what op-test believes and where the machine is.
WellFormed(program) ==
    /\ Len(program.steps) \in Nat \ {0}
    /\ program.tearDown \in Nat \ {0}
    /\ \A i \in 1 .. Len(program.steps) :
          LET step == program.steps[i] IN
          /\ step.n \in Nat /\ step.els \subseteq Nat
          /\ step.op = "goto" => step.arg \in {"OFF", "PETITBOOT", "PETITBOOT_SHELL", "OS"}
          /\ step.op = "tells" => step.arg \in P!States
          /\ step.op \in {"types", "commands"} => step.arg \in {"reboot", "off", "checkstop"}
          /\ step.op = "powers" => step.arg \in {"on", "off", "soft", "cycle"}

ASSUME PlatformAssumption ==
    /\ \A t \in DOMAIN AllPrograms : WellFormed(AllPrograms[t])
    /\ Followers \subseteq DOMAIN AllPrograms /\ "none" \notin DOMAIN AllPrograms
    /\ PlatformLast \in Nat

\* What a proof about any number of tests of Platform takes of each: its footprint,
\* whatever it finds changed of what it asks for, is closed, and it ends well.
ASSUME FootprintAssumption ==
    \A t \in DOMAIN AllPrograms : \A f \in SUBSET P!Asked(t) :
        P!Bounds(P!Reached(t, f), t, f)

\* No test is excepted for nothing: each of MoveUntold may pass on a machine as it
\* should be and leave op-test wrong about it, and each may leave all that
\* AllLeaveBehind says.
ASSUME ExceptionsAssumption ==
    \A t \in DOMAIN AllPrograms :
        LET ends == P!Ends(P!Reached(t, {}), t) IN
        /\ t \in MoveUntold => \E d \in ends : d.trust = "knew" /\ ~P!Knows({}, d)
        /\ AllLeaveBehind[t] \subseteq UNION {d.own : d \in ends}

platformVars ==
    <<platformLeft, platformTest, at, platformOutcome, state, stop,
      platformHost, changed, found, knew>>
allVars == <<suite, vars, kernelsVars, platformVars>>

\* A machine whose tests are not run is somewhere.
AllInit ==
    /\ Init /\ K!Init /\ P!Init
    /\ suite \in {"flash", "kernels", "platform"}
    /\ suite # "platform" => platformHost = "off"

FlashSuite(step) ==
    suite = "flash" /\ step /\ UNCHANGED <<suite, kernelsVars, platformVars>>
KernelsSuite(step) ==
    suite = "kernels" /\ step /\ UNCHANGED <<suite, vars, platformVars>>
PlatformSteps(step) ==
    suite = "platform" /\ step /\ UNCHANGED <<suite, vars, kernelsVars>>

AllNext == FlashSuite(Next) \/ KernelsSuite(K!Next) \/ PlatformSteps(P!Next)

AllSpec ==
    /\ AllInit /\ [][AllNext]_allVars
    /\ WF_allVars(FlashSuite(OpTest) \/ KernelsSuite(K!OpTest) \/ PlatformSteps(P!OpTest))

\* The type invariants of the three modules.
AllTypeOK == TypeOK /\ K!TypeOK /\ P!TypeOK

\* The tests of every suite come to an end, whatever the machines do.
AllTestsEnd ==
    /\ <>[](CASE suite = "flash" -> Ended
              [] suite = "kernels" -> K!Ended
              [] suite = "platform" -> P!Ended)
    /\ []<>(suite = "platform" => P!Answers)

\* What a test of Kernels that passes says of the machine is true, and it has taken
\* its arguments off the command line.
PassedIsTrue == K!PassedIsTrue /\ K!PassedLeavesArgs

\* A test of Platform that passes has put back what it changed, but for what it is
\* known to leave, and where op-test believes the machine to be, it is.
PassedPutsBack == P!PassedLeaves /\ P!PassedKnows
=============================================================================
