----------------------------- MODULE PowerTests -----------------------------
(***************************************************************************)
(* The tests that move the machine themselves: BasicIPL, BootTorture,      *)
(* OpTestFastReboot, BMCResetTorture, OpenBMCReset, DPO, EPOW,             *)
(* OpTestSystemBootSequence, OpTestRebootTimeout, ConsoleBug150765, grub.  *)
(***************************************************************************)
EXTENDS Scripts

-----------------------------------------------------------------------------
\* BasicIPL

BootTo(t) == Body(<<Goto("OFF"), Goto(t)>>)
GotoPetitbootShell == Body(<<Goto("PETITBOOT_SHELL")>>)

SoftPowerOff ==
    Body(<<Goto("PETITBOOT"), sys_power_soft, Tells("POWERING_OFF"), Goto("OFF")>>)

\* The wait is repeated up to ten times.
BMCReset ==
    Body(<<Goto("OFF"), Resets>>
           \o TrySome(<<sys_wait_for_standby_state>>, <<sys_wait_for_standby_state>>)
           \o <<Tells("POWERING_OFF"), Goto("OFF")>>)

\* try: goto_state() except pexpect.EOF: OFF first
ToPetitbootShell ==
    TrySome(<<Goto("PETITBOOT_SHELL")>>, <<Goto("OFF"), Goto("PETITBOOT_SHELL")>>)

BMCResetThenRebootHost ==
    Body(<<Goto("PETITBOOT_SHELL"), Resets, run_command_ignore_fail,
           Types("reboot"), Tells("IPLing")>> \o ToPetitbootShell)

OutOfBandWarmReset ==
    Body(<<Goto("OFF"), Goto("PETITBOOT"), sys_reset_bmc, Goto("OFF"),
           Goto("PETITBOOT"), Goto("PETITBOOT_SHELL")>>)

HardPowerCycle ==
    Body(<<Goto("PETITBOOT"), Powers("cycle"), Tells("IPLing"), Goto("PETITBOOT")>>)

PowerOff ==
    Body(<<Goto("PETITBOOT"), Powers("off"), Tells("POWERING_OFF"), Goto("OFF")>>)

-----------------------------------------------------------------------------
\* BootTorture, OpTestFastReboot, BMCResetTorture

\* continue, when the console ends in pexpect.EOF: of the handlers of goto_state() only
\* Petitboot's let that through.
BootTorture ==
    LET looks == <<run_command_ignore_fail>> \o Maybe(<<Runs("console")>>)
                    \o <<run_command_ignore_fail>>
    IN  Body(Twice(<<Goto("OFF")>>
                     \o Either(<<Goto("PETITBOOT_SHELL")>> \o Maybe(looks),
                               <<Goto("PETITBOOT")>>)))

ReBootTorture ==
    Body(<<Goto("PETITBOOT_SHELL"), Sets("console", "fastreset")>>
           \o Twice(<<run_command_ignore_fail>> \o Maybe(<<Runs("console")>>)
                      \o <<run_command_ignore_fail, Types("reboot"), Tells("IPLing")>>
                      \o ToPetitbootShell))

\* force-fast-reset stays set; what is cleared is feeling-lucky.
OpTestFastReboot(t) ==
    Body(<<MaySkip, Goto(t), OrSkips(Runs("console")), Runs("console"),
           Sets("console", "fastreset"), Sets("console", "feelinglucky"),
           Sets("console", "forcefast")>>
           \o Twice(<<Runs("console"), Types("reboot"), Tells("IPLing")>>
                      \o Maybe(<<Runs("bmc")>>)
                      \o <<Goto(t), Runs("console")>>)
           \o <<Clears("console", "feelinglucky"), Runs("console")>>)

RuntimeBMCResetTorture(t) ==
    Case(<<Goto(t)>>,
         Twice(<<sys_reset_bmc,
                 IF t = "OS" THEN Runs("console") ELSE run_command_ignore_fail,
                 run_command_ignore_fail>>))

StandbyBMCResetTorture == Case(<<Goto("OFF")>>, Twice(<<sys_reset_bmc>>))

BMCResetvsHostIPLTorture ==
    Body(Twice(<<sys_reset_bmc, Goto("PETITBOOT_SHELL"), run_command_ignore_fail,
                 Goto("OFF")>>))

-----------------------------------------------------------------------------
\* OpenBMCReset: the second round's goto_state(OS) returns at once.

OpenBMCRebootHostReboot ==
    Case(<<Goto("OS")>>,
         <<MaySkip>> \o
         Twice(<<Goto("OS"), Resets,
                 IgnoringSome(Commands("reboot")),
                 Runs("bmc"), Sees("runtime"), PingFunc>>))

OpenBMCRebootHostShutdown ==
    Case(<<Goto("OS")>>,
         <<MaySkip>> \o
         Twice(<<Goto("OS"), Resets,
                 IgnoringSome(Commands("off")),
                 Runs("bmc"), sys_wait_for_standby_state>>))

\* OCC_RESET, OCC_DISABLE, OCC_ENABLE among the commands; none is looked at.
OpenBMCRebootHostTests ==
    Case(<<Goto("OS")>>,
         <<MaySkip>> \o
         Twice(<<Runs("bmc"), Runs("ssh"), Resets>>
                 \o Maybe(<<IgnoringSome(Sets("ssh", "occ"))>>)
                 \o <<run_over_ssh_ignore_fail, Runs("ssh")>>))

-----------------------------------------------------------------------------
\* DPO, EPOW

\* What wait_for_standby() answers is not looked at.
DPOSkiroot ==
    Body(<<Goto("PETITBOOT_SHELL"), MaySkip, Runs("console"), Types("off"),
           Sees("halting"), sys_wait_for_standby_state, Runs("bmc"), Tells("OFF")>>)

\* OpTestFSP.wait_for_standby() powers off a machine it finds running.
wait_for_standby == Maybe(<<Powers("off")>>) \o <<Sees("off")>>

EPOWSetUp == <<Goto("OS"), PingFunc>>

EPOW3Random ==
    Case(EPOWSetUp,
         <<MaySkip, Runs("console"), Runs("bmc"), Sets("bmc", "temperature"),
           Ignoring(Powers("soft")), IgnoringSome(Sees("halting"))>>
           \o wait_for_standby \o <<Runs("bmc")>> \o wait_for_standby
           \o <<Clears("bmc", "temperature"), Runs("bmc"), Powers("on"), PingFunc>>)

EPOW3LOW ==
    Case(EPOWSetUp,
         <<MaySkip, Runs("bmc")>>
           \o Twice(<<Sets("bmc", "temperature"), Sees("runtime"), PingFunc,
                      Runs("bmc")>>))

-----------------------------------------------------------------------------
\* OpTestSystemBootSequence: IPMITool.run() answers also where the BMC refuses.

ipmi_set_power_policy == Maybe(<<IgnoringSome(Sets("bmc", "policy"))>>)
sys_check_host_status == Sees("os")

BootSequence(body) ==
    Test(<<Goto("OS")>>, <<Goto("OFF")>> \o ipmi_set_power_policy \o body,
         ipmi_set_power_policy)

Reset_IPL == BootSequence(<<Resets, Goto("OS")>>)

PowerPolicyOFF_IPL ==
    BootSequence(<<sys_reset_bmc>>
      \o Either(<<Powers("on"), sys_check_host_status, PingFunc>>,
                <<sys_check_host_status, PingFunc, Fails>>))

PowerPolicyON_IPL ==
    BootSequence(<<sys_reset_bmc>>
      \o Either(<<sys_check_host_status, PingFunc>>,
                <<Powers("on"), sys_check_host_status, PingFunc, Fails>>))

PowerPolicyPrevious_IPL ==
    BootSequence(<<sys_reset_bmc>>
      \o Either(<<Powers("on"), sys_check_host_status, PingFunc, Runs("ssh"),
                  sys_reset_bmc>> \o Maybe(<<Goto("OS"), Fails>>),
                <<sys_check_host_status, PingFunc, Fails>>))

-----------------------------------------------------------------------------
\* OpTestRebootTimeout, grub, ConsoleBug150765: nothing tells op-test.

RebootTime(t) ==
    Body(<<Goto(t), Runs("console"), Types("reboot"), Sees("rebooting")>>)

\* What is caught is found missing later.
Grub ==
    Body(<<Goto("OS"), Types("reboot"), Sees("rebooting"), Sees("runtime"),
           Runs("bmc")>>)

ConsoleBug150765 ==
    Case(<<Goto("OS")>>,
         <<MaySkip, Goto("OFF"), sys_power_on, Sees("runtime"), PingFunc,
           Tells("PETITBOOT"), Goto("OFF"), sys_power_on, Sees("runtime")>>)

-----------------------------------------------------------------------------

PowerPrograms ==
    [BootToPetitboot |-> BootTo("PETITBOOT"),
     BootToPetitbootShell |-> BootTo("PETITBOOT_SHELL"),
     BootToOS |-> BootTo("OS"),
     GotoPetitbootShell |-> GotoPetitbootShell,
     SoftPowerOff |-> SoftPowerOff, BMCReset |-> BMCReset,
     BMCResetThenRebootHost |-> BMCResetThenRebootHost,
     OutOfBandWarmReset |-> OutOfBandWarmReset,
     HardPowerCycle |-> HardPowerCycle, PowerOff |-> PowerOff,
     BootTorture |-> BootTorture, ReBootTorture |-> ReBootTorture,
     FastReboot |-> OpTestFastReboot("PETITBOOT_SHELL"),
     FastRebootHost |-> OpTestFastReboot("OS"),
     SkirootBMCReset |-> RuntimeBMCResetTorture("PETITBOOT_SHELL"),
     HostBMCReset |-> RuntimeBMCResetTorture("OS"),
     StandbyBMCResetTorture |-> StandbyBMCResetTorture,
     BMCResetvsHostIPLTorture |-> BMCResetvsHostIPLTorture,
     OpenBMCRebootHostReboot |-> OpenBMCRebootHostReboot,
     OpenBMCRebootHostShutdown |-> OpenBMCRebootHostShutdown,
     OpenBMCRebootHostTests |-> OpenBMCRebootHostTests,
     DPOSkiroot |-> DPOSkiroot, EPOW3Random |-> EPOW3Random, EPOW3LOW |-> EPOW3LOW,
     Reset_IPL |-> Reset_IPL, PowerPolicyOFF_IPL |-> PowerPolicyOFF_IPL,
     PowerPolicyON_IPL |-> PowerPolicyON_IPL,
     PowerPolicyPrevious_IPL |-> PowerPolicyPrevious_IPL,
     RebootTimeSkiroot |-> RebootTime("PETITBOOT_SHELL"),
     RebootTimeHost |-> RebootTime("OS"), Grub |-> Grub,
     ConsoleBug150765 |-> ConsoleBug150765]
=============================================================================
