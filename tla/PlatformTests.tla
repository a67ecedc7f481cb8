---------------------------- MODULE PlatformTests ---------------------------
(***************************************************************************)
(* The tests that reconfigure a machine, or inject errors into it:         *)
(* OpTestEM, OpTestOCC, OpTestHMIHandling, OpTestEnergyScale,              *)
(* EnergyScale_BaseLine, OpTestIPMILockMode, OpTestRTCdriver, OpTestDumps, *)
(* fspresetReload, fspTODCorruption.                                       *)
(*                                                                         *)
(* The changes: governor, idle (states disabled), kdump (stopped), cores   *)
(* (switched off), printk; occ (not active), rr (its count of resets);     *)
(* gard, limit (of power), mode (of the OCC), lockdown, boot (options),    *)
(* pnor (denied to the host), clock, dumps (the FSP's policy), testcfg.    *)
(***************************************************************************)
EXTENDS Scripts

-----------------------------------------------------------------------------
\* OpTestEM: a set_up() that raises leaves nothing for tearDown() to do.  The
\* governor is left at powersave, whatever it was.

set_cpu_gov(way) == <<Sets(way, "governor"), Runs(way)>>
verify_cpu_freq(way) == <<Runs(way)>>
get_pstate_limits(way) == <<Runs(way)>>
enable_idle_state(way) == Clears(way, "idle")
disable_idle_state(way) == Sets(way, "idle")

EMTearDown(way) ==
    <<Runs(way)>> \o Maybe(<<Sets(way, "governor")>>) \o <<enable_idle_state(way)>>

EMTest(t, body) == Test(<<Goto(t)>>, body, EMTearDown(WayTo(t)))

slw_info == EMTest("OS", <<Runs("ssh")>>)

cpu_freq_states(t) ==
    LET way == WayTo(t) IN
    EMTest(t, <<MaySkip, Runs(way)>> \o set_cpu_gov(way) \o verify_cpu_freq(way))

cpu_freq_gov(t) ==
    LET way == WayTo(t) IN
    EMTest(t, <<MaySkip>> \o get_pstate_limits(way)
                \o Twice(set_cpu_gov(way) \o verify_cpu_freq(way)))

cpu_boost_freqs_host ==
    EMTest("OS", get_pstate_limits("ssh")
                   \o <<MaySkip, enable_idle_state("ssh"), Runs("ssh")>>
                   \o set_cpu_gov("ssh"))

\* One after another is enabled, used, and disabled again.
cpu_idle_states(t) ==
    LET way == WayTo(t) IN
    EMTest(t, <<MaySkip, Runs(way), disable_idle_state(way)>>
                \o Twice(<<Runs(way), enable_idle_state(way), Runs(way),
                           disable_idle_state(way)>>)
                \o <<Runs(way)>>)

-----------------------------------------------------------------------------
\* OpTestOCC: OpTestEM without its tearDown().

\* The OCCs come back on their own, or not before the tries are over.
OCCsRecover == Maybe(<<Clears("bmc", "occ")>>)

do_occ_reset == <<Runs("ssh"), Sets("ssh", "occ"), Sets("ssh", "rr")>>
clear_occ_rr_count == <<Runs("ssh"), Clears("ssh", "rr"), Runs("ssh")>>
dvfs_test == <<Runs("ssh"), Sets("ssh", "governor"), Runs("ssh")>>
set_and_get_cpu_freq == dvfs_test

\* set_state(UNKNOWN) where they did not come back
ToldWhenInactive == When("occ", <<Tells("UNKNOWN"), Fails>>)

OCCTest(body) == Case(<<Goto("OS")>>, <<MaySkip, Checks("occ")>> \o body)

test_occ_active == OCCTest(<<>>)

OCC_RESET ==
    OCCTest(set_and_get_cpu_freq \o do_occ_reset \o OCCsRecover
              \o ToldWhenInactive \o <<IgnoringSome(Runs("ssh"))>> \o dvfs_test)

\* After the last of the resets the OCCs have to stay inactive.
test_occ_reset_functionality ==
    OCCTest(clear_occ_rr_count
              \o Twice(set_and_get_cpu_freq \o do_occ_reset \o OCCsRecover
                         \o <<Checks("occ"), IgnoringSome(Runs("ssh"))>> \o dvfs_test)
              \o set_and_get_cpu_freq \o do_occ_reset \o OCCsRecover
              \o When("occ", <<Tells("UNKNOWN")>>) \o Requires("occ")
              \o <<Goto("OFF")>>)

test_occ_reset_n_times ==
    OCCTest(Twice(do_occ_reset \o OCCsRecover \o ToldWhenInactive \o dvfs_test
                    \o clear_occ_rr_count))

\* Nothing asserts that they came back.
test_occ_enable_disable_functionality ==
    OCCTest(Twice(<<Runs("ssh"), Sets("ssh", "occ")>> \o OCCsRecover
                    \o When("occ", <<Tells("UNKNOWN")>>) \o dvfs_test))

OCCRESET_FSP ==
    Case(<<Goto("OS")>>,
         <<MaySkip>>
           \o Twice(set_and_get_cpu_freq
                      \o <<Sets("bmc", "occ"), Sets("bmc", "rr")>> \o OCCsRecover
                      \o <<Checks("occ"), Runs("ssh")>> \o dvfs_test))

-----------------------------------------------------------------------------
\* OpTestHMIHandling

\* "No GARD entries to display" returns at once; otherwise, and always with an
\* FSP, the machine is power-cycled.
clearGardEntries ==
    LET cycle == <<Goto("OFF"), Goto("OS")>>
    IN  <<Goto("OS"), PingFunc>>
          \o Either(<<Clears("bmc", "gard")>> \o cycle,
                    <<Runs("console")>>
                      \o When("gard", <<Clears("console", "gard"), Runs("console")>>
                                        \o cycle))

\* It gives up after a third time.
RestartFromBad == <<ClearsStop, Tells("UNKNOWN_BAD")>>
clear_stop ==
    LET try == <<Goto("OS")>> \o clearGardEntries
    IN  RestartFromBad
          \o TrySome(try, RestartFromBad
                            \o TrySome(try, RestartFromBad \o <<Fails>>))

handle_ipl ==
    LET try == <<Tells("IPLing"), Goto("OS")>>
    IN  TryAll(<<Sees("rebooting")>>, clear_stop \o <<Fails>>)
          \o TrySome(try, <<ClearsStop>>
                            \o TrySome(try, <<ClearsStop>> \o clear_stop \o <<Fails>>))

HMISetUp ==
    WhenIn("UNKNOWN_BAD", clear_stop)
      \o <<Goto("OS")>> \o clearGardEntries
      \o <<Clears("console", "cores"), Runs("console"), MaySkip>>

\* The idle states stay disabled, kdump stays stopped.
disable_cpu_idle_states == <<Runs("console"), Sets("console", "idle")>>
disable_kdump_service == <<Runs("console"), IgnoringSome(Sets("console", "kdump"))>>
init_test == <<Runs("console")>> \o disable_cpu_idle_states \o disable_kdump_service

testHMIHandling(inject) ==
    init_test \o <<PingFunc, Runs("console")>> \o inject \o <<Runs("console")>>
HMITest(body) == Case(HMISetUp, body)

\* On a processor that is not listed nothing is injected, and the test passes.
\* Most errors are recovered from; the machine may go down with one.
Injects == Maybe(<<Types("checkstop"), Fails>>) \o <<Runs("console")>>
test_proc_recv_done == Maybe(Twice(Injects))
test_proc_recv_error_masked == Maybe(Twice(Injects))
testTFMR_Errors == Maybe(Twice(Injects))
test_tod_errors == Injects

HMI_TFMR_ERRORS == HMITest(testHMIHandling(Twice(testTFMR_Errors)))
PROC_RECOV_DONE == HMITest(testHMIHandling(test_proc_recv_done))
PROC_RECV_ERROR_MASKED == HMITest(testHMIHandling(test_proc_recv_error_masked))

\* A system with one chip has nothing to recover with.
TOD == testHMIHandling(Maybe(Twice(test_tod_errors)))
TOD_ERRORS == HMITest(TOD)
SingleCoreTOD_ERRORS == Case(HMISetUp \o <<Sets("console", "cores")>>, TOD)

\* These bring the machine down, and gard what was hit.
BringsDown ==
    Maybe(<<Runs("console")>> \o Maybe(<<Ignoring(Sets("console", "gard"))>>)
            \o <<Types("checkstop")>> \o handle_ipl)
test_malfunction_alert == BringsDown
test_hyp_resource_err == BringsDown
MalfunctionAlert ==
    HMITest(testHMIHandling(test_malfunction_alert) \o clearGardEntries)
HypervisorResourceError ==
    HMITest(testHMIHandling(test_hyp_resource_err) \o clearGardEntries)

ClearGard == HMITest(clearGardEntries)

-----------------------------------------------------------------------------
\* OpTestEnergyScale, EnergyScale_BaseLine, OpTestIPMILockMode

\* The limit is left high where it was tried last, and low at runtime.
OpTestEnergyScaleStandby ==
    Body(<<Goto("OFF"), Runs("bmc"), Sets("bmc", "limit"), Runs("bmc")>>)
OpTestEnergyScaleRuntime ==
    Body(<<Goto("OS"), Runs("bmc"), PingFunc, Checks("occ"), Sets("bmc", "limit"),
           Runs("bmc")>>)
OpTestEnergyScaleDCMIstandby ==
    Body(<<Goto("OFF"), Powers("off"), Sees("off"), Runs("bmc")>>)
OpTestEnergyScaleDCMIruntime ==
    Body(<<Goto("OS"), PingFunc, Checks("occ"), Runs("bmc")>>)

EnergyScale_BaseLine ==
    Case(<<Goto("OS")>>,
         <<Runs("ssh"), Clears("ssh", "rr"), Checks("rr"), Runs("ssh"),
           Sets("ssh", "mode"), Checks("rr"), Sets("ssh", "rr")>> \o Requires("rr")
           \o <<Clears("ssh", "rr"), Checks("rr"), Runs("ssh")>>)

\* ipmitool.run() answers also where the BMC refuses, and the except of the
\* whitelisted commands passes over everything: none of them is looked at.
run_inband_ipmi_whitelisted_cmds ==
    TryAll(<<Runs("ssh"), Sets("ssh", "boot")>>
             \o Maybe(<<Sets("ssh", "pnor"), Clears("ssh", "pnor")>>) \o <<Runs("ssh")>>
             \o Maybe(<<Clears("ssh", "pnor"), Sets("ssh", "pnor"), Runs("ssh")>>), <<>>)
OpTestIPMILockMode ==
    Body(<<MaySkip, Goto("OS"), Runs("ssh")>>
           \o Maybe(<<IgnoringSome(Sets("bmc", "lockdown"))>>)
           \o run_inband_ipmi_whitelisted_cmds
           \o Maybe(<<IgnoringSome(Clears("bmc", "lockdown"))>>))

-----------------------------------------------------------------------------
\* OpTestRTCdriver, OpTestDumps, fspresetReload, fspTODCorruption

sets_hwclock == <<Sets("ssh", "clock"), Runs("ssh")>>
sets_systime == <<Runs("ssh")>>
RunFullRTC == <<Runs("ssh")>> \o Twice(sets_hwclock) \o Twice(sets_systime)

BasicRTC == Case(<<Goto("OS"), Runs("ssh")>>, <<Runs("ssh")>>)
HostRTC == Case(<<Goto("OS"), Runs("ssh")>>, RunFullRTC)
SkirootRTC ==
    Case(<<Goto("PETITBOOT_SHELL")>>,
         <<Runs("console"), Sets("console", "clock"), Runs("console")>>)

GathersLogs == <<Runs("ssh")>>

\* The machine reboots with the dump; login: shows that it came back.
SYSTEM_DUMP(powers) ==
    Test(<<Goto("OS")>>,
         <<MaySkip, Runs("ssh"), Runs("bmc"), Sets("bmc", "dumps"), Runs("bmc")>>
           \o powers
           \o <<PingFunc, Powers("cycle"), Runs("bmc"), Sees("runtime"), Sees("os"),
                PingFunc, Runs("ssh")>>, GathersLogs)
HOST_DUMP_RUNTIME == SYSTEM_DUMP(<<>>)
HOST_DUMP_BOOTTIME == SYSTEM_DUMP(<<Powers("off"), Powers("on")>>)

fipsdump_initiate_from_host == <<Runs("bmc"), Runs("ssh"), Runs("bmc"), Runs("ssh")>>
verify_fipsdump == <<Runs("ssh")>>
FIPS_DUMP ==
    Test(<<Goto("OS")>>,
         <<MaySkip, Runs("bmc"), Runs("ssh")>>
           \o Twice(<<Runs("bmc")>> \o verify_fipsdump
                      \o fipsdump_initiate_from_host \o verify_fipsdump),
         GathersLogs)

trigger_rr == <<Resets>>

\* The console is tried, whatever comes of it.
check_for_fsp_host_interfaces ==
    <<Runs("ssh"), Sets("ssh", "clock"), Runs("ssh"), Sets("ssh", "testcfg"), Runs("ssh"),
      Ignoring(Runs("console"))>>
gather_opal_errors == <<Runs("ssh")>>
resetReload ==
    Test(<<Goto("OS")>>,
         <<MaySkip, Runs("bmc"), Runs("ssh"), Runs("bmc"), Runs("console")>>
           \o Twice(<<Runs("ssh")>> \o trigger_rr \o <<Runs("bmc"), Sees("runtime")>>
                      \o check_for_fsp_host_interfaces \o <<Runs("bmc")>>
                      \o gather_opal_errors),
         GathersLogs)

TOD_CORRUPTION ==
    LET check_hwclock == <<Runs("ssh"), Sets("ssh", "clock"), Runs("ssh")>>
        tod_force_clock == <<Runs("bmc"), Sets("bmc", "clock"), Runs("bmc")>>
        set_tod == <<Clears("bmc", "clock"), Runs("bmc")>>
    IN  Test(<<Goto("OS")>>,
             <<MaySkip, Runs("bmc")>> \o tod_force_clock \o check_hwclock \o GathersLogs
               \o <<Goto("OFF"), Goto("OS")>> \o check_hwclock
               \o <<Goto("OFF")>> \o set_tod \o <<Goto("OS")>> \o check_hwclock,
             GathersLogs)

-----------------------------------------------------------------------------

PlatformPrograms ==
    [slw_info |-> slw_info,
     cpu_freq_states_host |-> cpu_freq_states("OS"),
     cpu_freq_states_skiroot |-> cpu_freq_states("PETITBOOT_SHELL"),
     cpu_freq_gov_host |-> cpu_freq_gov("OS"),
     cpu_boost_freqs_host |-> cpu_boost_freqs_host,
     cpu_idle_states_host |-> cpu_idle_states("OS"),
     cpu_idle_states_skiroot |-> cpu_idle_states("PETITBOOT_SHELL"),
     occ_active |-> test_occ_active, OCC_RESET |-> OCC_RESET,
     occ_reset |-> test_occ_reset_functionality,
     occ_reset_n_times |-> test_occ_reset_n_times,
     occ_enable_disable |-> test_occ_enable_disable_functionality,
     OCCRESET_FSP |-> OCCRESET_FSP,
     HMI_TFMR_ERRORS |-> HMI_TFMR_ERRORS, PROC_RECOV_DONE |-> PROC_RECOV_DONE,
     PROC_RECV_ERROR_MASKED |-> PROC_RECV_ERROR_MASKED, TOD_ERRORS |-> TOD_ERRORS,
     SingleCoreTOD_ERRORS |-> SingleCoreTOD_ERRORS,
     HypervisorResourceError |-> HypervisorResourceError,
     MalfunctionAlert |-> MalfunctionAlert, ClearGard |-> ClearGard,
     EnergyScaleStandby |-> OpTestEnergyScaleStandby,
     EnergyScaleRuntime |-> OpTestEnergyScaleRuntime,
     DCMIstandby |-> OpTestEnergyScaleDCMIstandby,
     DCMIruntime |-> OpTestEnergyScaleDCMIruntime,
     EnergyScale_BaseLine |-> EnergyScale_BaseLine,
     IPMILockMode |-> OpTestIPMILockMode,
     BasicRTC |-> BasicRTC, HostRTC |-> HostRTC, SkirootRTC |-> SkirootRTC,
     HOST_DUMP_RUNTIME |-> HOST_DUMP_RUNTIME,
     HOST_DUMP_BOOTTIME |-> HOST_DUMP_BOOTTIME, FIPS_DUMP |-> FIPS_DUMP,
     resetReload |-> resetReload, TOD_CORRUPTION |-> TOD_CORRUPTION]
=============================================================================
