---------------------------- MODULE FirmwareTests ---------------------------
(***************************************************************************)
(* The tests of the firmware and of the BMC: OpTestOOBIPMI,                *)
(* OpTestInbandIPMI, OpTestFlash (without BmcImageFlash, which the module  *)
(* Flash has), SecureBoot, TrustedBoot, OsSecureBoot, IplParams, Console,  *)
(* OpTestPrdDriver, OpTestNVRAM, OpalGard.                                 *)
(*                                                                         *)
(* The changes: policy (of the power), bootdev (overridden), enables (OEM  *)
(* bit off), fans (not controlled), leds; image (another firmware), tpm    *)
(* (not required), keys (of the OS secure boot), presence (asserted),      *)
(* field (mode left); mask (of the FIR), testcfg (in NVRAM), gard, printk. *)
(***************************************************************************)
EXTENDS Scripts

-----------------------------------------------------------------------------
\* OpTestOOBIPMI: each test with what its class does around it.

OOBIPMIStandby(body) == Test(<<Goto("OFF")>>, body, <<Goto("OFF"), Goto("OS")>>)
OOBIPMIRuntime(body) ==
    Test(<<Goto("OS"), Runs("ssh")>>, body, <<Goto("OFF"), Goto("OS")>>)

run_ipmi_cmd == Runs("bmc")

\* AMI's BMC only.  The fan control is left switched off, but for the second
\* algorithm.
FansOff == Sets("bmc", "fans")
FansOn == Clears("bmc", "fans")
fan_control(first, second) == <<MaySkip, first, run_ipmi_cmd, second, run_ipmi_cmd>>
test_oem_specific == fan_control(FansOn, FansOff)
test_fan_control_algorithm_1 == fan_control(FansOn, FansOff)
test_fan_control_algorithm_2 == fan_control(FansOff, FansOn)
AMI_queries == <<MaySkip, run_ipmi_cmd>>
test_set_led_state_cmd == <<MaySkip>> \o Twice(<<Sets("bmc", "leds"), run_ipmi_cmd>>)

\* The policy is always-off from here on, whatever it was.
test_chassis == <<run_ipmi_cmd, Sets("bmc", "policy")>>

\* The last of the devices is the floppy.
verify_bootdev == <<run_ipmi_cmd>>
test_chassisBootdev == Twice(<<Sets("bmc", "bootdev")>> \o verify_bootdev)

test_mc ==
    <<run_ipmi_cmd, Sets("bmc", "enables"), run_ipmi_cmd, Clears("bmc", "enables"),
      run_ipmi_cmd>>

Info_sdr_fru_sensor == <<run_ipmi_cmd>>
sel == Twice(<<run_ipmi_cmd>>)
dcmi_event_pef_raw == <<run_ipmi_cmd>>
sensor_get == <<MaySkip, run_ipmi_cmd>>

OOBTests ==
    [oem_specific |-> test_oem_specific,
     fan_control_algorithm_1 |-> test_fan_control_algorithm_1,
     fan_control_algorithm_2 |-> test_fan_control_algorithm_2,
     set_led_state |-> test_set_led_state_cmd, chassis |-> test_chassis,
     chassisBootdev |-> test_chassisBootdev, mc |-> test_mc,
     query |-> Either(Either(AMI_queries, sensor_get),
                      Either(Info_sdr_fru_sensor, Either(sel, dcmi_event_pef_raw)))]

-----------------------------------------------------------------------------
\* OpTestInbandIPMI

set_up(t) == <<Goto(t)>> \o (IF t = "OS" THEN <<Runs("ssh")>> ELSE <<>>)
Inband(t, body) == Case(<<MaySkip>>, set_up(t) \o body)

\* "Invalid command" skips.
run_ipmi_cmds(t) == OrAlsoSkips(Runs(WayTo(t)))

\* What they catch they turn into a failure, or skip.
sdr_queries(t) == <<run_ipmi_cmds(t)>>
test_fru_print(t) == <<run_ipmi_cmds(t)>>
dcmi_pef_raw(t) == <<run_ipmi_cmds(t)>>
sensor_byid(t) == <<Runs(WayTo(t))>>
sensor_gets(t) == TryAll(sensor_byid(t), <<OrAlsoSkips(Fails)>>)
ExperimentalInbandIPMI(t) == <<Runs(WayTo(t))>>
InbandQuery(t) ==
    Inband(t, Either(Either(sdr_queries(t), test_fru_print(t)),
                     Either(dcmi_pef_raw(t),
                            Either(sensor_gets(t), ExperimentalInbandIPMI(t)))))
InbandChassis(t) ==
    Inband(t, <<run_ipmi_cmds(t), OrAlsoSkips(Sets(WayTo(t), "policy"))>>)

\* continue, when floppy or diag was not set
verify_bootdev_inband(t) == set_up(t) \o <<IgnoringSome(Runs(WayTo(t)))>>
InbandBootdev(t) ==
    Case(<<MaySkip>>, set_up(t) \o Twice(<<OrAlsoSkips(Sets(WayTo(t), "bootdev"))>>
                                           \o verify_bootdev_inband(t))
                        \o <<Clears(WayTo(t), "bootdev")>> \o set_up(t)
                        \o <<Runs(WayTo(t))>>)

\* except CommandFailed passes over whatever went wrong with the enables.
InbandMc(t) ==
    Inband(t, <<run_ipmi_cmds(t)>>
                \o TrySome(<<run_ipmi_cmds(t)>>, <<>>)
                \o TrySome(<<OrAlsoSkips(Sets(WayTo(t), "enables")), run_ipmi_cmds(t),
                             OrAlsoSkips(Clears(WayTo(t), "enables")),
                             run_ipmi_cmds(t)>>, <<>>)
                \o TrySome(<<run_ipmi_cmds(t)>>, <<>>))

\* It sends its events, and skips.
InbandEvent(t) == Inband(t, <<IgnoringSome(run_ipmi_cmds(t)), OrSkips(Fails)>>)

InbandFru(t) ==
    Inband(t, Twice(<<IgnoringSome(run_ipmi_cmds(t)), run_ipmi_cmds(t),
                      Runs(WayTo(t))>>))

InbandSel(t) == Inband(t, TrySome(<<run_ipmi_cmds(t)>>, <<OrSkips(Fails)>>))

-----------------------------------------------------------------------------
\* OpTestFlash: op-test forgets what it knew, the image is written with the
\* power off, and nobody powers on.

flash ==
    <<Tells("UNKNOWN_BAD"), Goto("OFF"), Runs("bmc"), Sets("bmc", "image"), Runs("any")>>
PNORFLASH == <<MaySkip, Runs("bmc")>> \o flash
OpalLidsFLASH ==
    <<MaySkip, Runs("bmc"), Tells("UNKNOWN_BAD"), Goto("OFF"), Runs("bmc")>>
      \o Maybe(<<Clears("bmc", "field")>>)
      \o <<Sets("bmc", "image"), Runs("any")>>
OOBHpmFLASH == <<MaySkip, Runs("bmc")>> \o flash \o <<Goto("OS"), Runs("bmc")>>

\* Over ssh, wherever the machine is.
InbandHpmFLASH ==
    <<MaySkip, Runs("bmc"), Sets("ssh", "image"), Goto("OFF"), Goto("OS"), Runs("bmc")>>

\* update_flash reboots the machine and the FSP.
FSPFWImageFLASH ==
    <<MaySkip, Runs("bmc"), Goto("PETITBOOT_SHELL"), Runs("console"),
      Sets("console", "image"), Types("reboot"), Runs("bmc"), Tells("IPLing"),
      Goto("PETITBOOT_SHELL"), Runs("console"), Runs("bmc")>>

-----------------------------------------------------------------------------
\* SecureBoot

verify_boot_pass == <<Goto("PETITBOOT_SHELL")>>
verify_boot_fail == <<sys_power_on, Runs("any")>>
verify_opal_sb == <<OrAlsoSkips(Runs("console"))>>
verify_dt_sb == <<OrAlsoSkips(Runs("console"))>>
VerifyOPALSecureboot == verify_boot_pass \o verify_dt_sb \o verify_opal_sb

SignedPNOR == <<MaySkip>> \o PNORFLASH \o VerifyOPALSecureboot
UnSignedPNOR ==
    <<MaySkip>> \o PNORFLASH
      \o Either(VerifyOPALSecureboot,
                verify_boot_fail \o <<Tells("UNKNOWN_BAD"), Goto("OFF")>>)

\* The new image changes the keys and shuts down.
KeyTransitionPNOR ==
    <<MaySkip>> \o PNORFLASH
      \o <<sys_power_on, Tells("IPLing"), Runs("any"), Tells("POWERING_OFF"),
           Runs("any"), Goto("OFF")>>

OPALContainerTest ==
    <<MaySkip>>
      \o Twice(<<Goto("OFF")>> \o OpalLidsFLASH
                 \o Either(<<sys_power_on, Runs("any"), Tells("UNKNOWN_BAD"),
                             Goto("OFF")>>,
                           <<Goto("PETITBOOT")>>))

-----------------------------------------------------------------------------
\* TrustedBoot: the policy stays as the test set it; tearDown() drops it where
\* the machine has no TPM to satisfy it with.

TrustedBoot(body) == Test(<<>>, body, Maybe(<<Sets("bmc", "tpm")>>))
verify_tb ==
    <<Goto("PETITBOOT_SHELL"), Runs("console"), OrAlsoSkips(Runs("console"))>>

VerifyOPALTrustedBoot == TrustedBoot(Maybe(verify_tb))
TPM_PolicyOFF ==
    TrustedBoot(<<MaySkip, Goto("OFF"), Sets("bmc", "tpm"), Runs("bmc")>> \o verify_tb)
FunctionalTPM_PolicyON ==
    TrustedBoot(<<MaySkip, Goto("OFF"), Clears("bmc", "tpm"), Runs("bmc")>> \o verify_tb)
NoFunctionalTPM_PolicyON ==
    TrustedBoot(<<MaySkip, Goto("OFF"), Clears("bmc", "tpm"), Runs("bmc")>>
                  \o Maybe(<<sys_power_on, Runs("any"), Tells("UNKNOWN_BAD"),
                             Goto("OFF"), Sets("bmc", "tpm")>>)
                  \o verify_tb)

-----------------------------------------------------------------------------
\* OsSecureBoot

checkFirmwareSupport ==
    <<MaySkip, Goto("PETITBOOT_SHELL"), run_command_ignore_fail, MaySkip,
      OrAlsoSkips(Runs("console"))>>
cleanPhysicalPresence ==
    <<Runs("bmc"), Clears("bmc", "presence"), Runs("bmc")>>
      \o PowerCycle("PETITBOOT_SHELL")

\* The machine sees that somebody is there, clears the keys when it comes back,
\* and powers itself off.
assertPhysicalPresence ==
    <<Goto("OFF"), Runs("bmc"), Sets("bmc", "presence"), Runs("bmc"), sys_power_on,
      Runs("any"), Sees("off"), Tells("OFF"), Goto("PETITBOOT_SHELL"),
      Clears("console", "keys"), Runs("console")>>
getTestData == <<Runs("console")>>
addSecureBootKeys ==
    <<Goto("PETITBOOT_SHELL")>> \o getTestData \o <<Sets("console", "keys")>>
      \o PowerCycle("PETITBOOT_SHELL") \o <<Runs("console")>>
checkKexecKernels ==
    <<Goto("PETITBOOT_SHELL")>> \o getTestData
      \o <<run_command_ignore_fail, Runs("console")>>
replaceAndDeletePK ==
    Twice(getTestData \o <<Sets("console", "keys")>>
            \o PowerCycle("PETITBOOT_SHELL") \o <<Runs("console")>>)

OsSecureBoot ==
    checkFirmwareSupport \o cleanPhysicalPresence
      \o assertPhysicalPresence \o cleanPhysicalPresence
      \o addSecureBootKeys \o checkKexecKernels \o replaceAndDeletePK
      \o assertPhysicalPresence \o cleanPhysicalPresence

-----------------------------------------------------------------------------
\* IplParams, Console, OpTestPrdDriver, OpTestNVRAM, OpalGard

IplParams(t) ==
    Body(<<Goto(t), OrAlsoSkips(Runs(WayTo(t))), IgnoringSome(Runs(WayTo(t))),
           Runs(WayTo(t))>>)

Console == Body(<<Goto("PETITBOOT_SHELL"), IgnoringSome(Runs("console"))>>)

\* A prompt that does not come back costs a power cycle; the fourth one, the test.
ControlCZ(cleanup) ==
    Body(<<Goto("PETITBOOT_SHELL"), MaySkip>>
           \o Twice(<<run_command_ignore_fail, Runs("console")>>
                      \o Maybe(<<Tells("UNKNOWN_BAD")>> \o PowerCycle("PETITBOOT_SHELL"))
                      \o Maybe(<<Fails>>) \o cleanup))
ControlC == ControlCZ(<<>>)
ControlZ == ControlCZ(<<Ignoring(Runs("console")), run_command_ignore_fail>>)

\* What masks an error of the FIR is taken away for each, and not put back.
OpTestPrdDriver ==
    Case(<<Goto("OS")>>,
         <<MaySkip, OrAlsoSkips(Runs("console")), IgnoringSome(Runs("console")),
           Runs("console")>>
           \o Maybe(Twice(<<Runs("ssh"), Sets("ssh", "mask"), Runs("ssh")>>)))

\* An update that fails passes where an earlier test has left the value.
nvram_update_part_config(t) ==
    <<IgnoringSome(Sets(WayTo(t), "testcfg")), Runs(WayTo(t))>> \o Requires("testcfg")
OpTestNVRAM(t) ==
    Body(<<Goto(t), MaySkip, Runs(WayTo(t))>> \o Twice(nvram_update_part_config(t))
           \o <<Runs(WayTo(t))>>)

\* tearDown() asks a connection that a test that was skipped has not made.
OpalGard ==
    Test(<<Goto("OS")>>,
         <<MaySkip, Runs("ssh"), Sets("ssh", "printk"), Runs("ssh")>>
           \o Twice(<<Runs("ssh"), Sets("ssh", "gard"), Runs("ssh"),
                      Clears("ssh", "gard")>>),
         <<run_over_ssh_ignore_fail>>)

-----------------------------------------------------------------------------

InbandPrograms(t) ==
    [query |-> InbandQuery(t), chassis |-> InbandChassis(t),
     bootdev |-> InbandBootdev(t), mc |-> InbandMc(t), event |-> InbandEvent(t),
     fru |-> InbandFru(t), sel |-> InbandSel(t)]

FirmwareBodies ==
    [PNORFLASH |-> PNORFLASH, OpalLidsFLASH |-> OpalLidsFLASH,
     OOBHpmFLASH |-> OOBHpmFLASH, InbandHpmFLASH |-> InbandHpmFLASH,
     FSPFWImageFLASH |-> FSPFWImageFLASH,
     VerifyOPALSecureboot |-> VerifyOPALSecureboot, SignedPNOR |-> SignedPNOR,
     UnSignedPNOR |-> UnSignedPNOR, KeyTransitionPNOR |-> KeyTransitionPNOR,
     OPALContainerTest |-> OPALContainerTest, OsSecureBoot |-> OsSecureBoot]

OtherFirmwareTests ==
    [VerifyOPALTrustedBoot |-> VerifyOPALTrustedBoot, TPM_PolicyOFF |-> TPM_PolicyOFF,
     FunctionalTPM_PolicyON |-> FunctionalTPM_PolicyON,
     NoFunctionalTPM_PolicyON |-> NoFunctionalTPM_PolicyON,
     IplParamsSkiroot |-> IplParams("PETITBOOT_SHELL"), IplParamsHost |-> IplParams("OS"),
     Console |-> Console, ControlC |-> ControlC, ControlZ |-> ControlZ,
     PrdDriver |-> OpTestPrdDriver, OpalGard |-> OpalGard,
     HostNVRAM |-> OpTestNVRAM("OS"), SkirootNVRAM |-> OpTestNVRAM("PETITBOOT_SHELL")]

FirmwarePrograms ==
    Of("OOBIPMIStandby.", [t \in DOMAIN OOBTests |-> OOBIPMIStandby(OOBTests[t])])
      @@ Of("OOBIPMIRuntime.", [t \in DOMAIN OOBTests |-> OOBIPMIRuntime(OOBTests[t])])
      @@ Of("InbandIPMI.", InbandPrograms("OS"))
      @@ Of("SkirootInbandIPMI.", InbandPrograms("PETITBOOT_SHELL"))
      @@ [t \in DOMAIN FirmwareBodies |-> Body(FirmwareBodies[t])] @@ OtherFirmwareTests
=============================================================================
