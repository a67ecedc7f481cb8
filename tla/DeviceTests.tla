----------------------------- MODULE DeviceTests ----------------------------
(***************************************************************************)
(* The tests of devices and of partitions: OpTestPCI, OpTestEEH,           *)
(* OpTestHtxBootme, OpTestVpmemBugFixTest, OpTestVpmemPersistency,         *)
(* OpTestDlparIO, OpTestGSBStaticKey, I2C, PetitbootConfig, OpTestCAPI,    *)
(* OpTestOpenCAPI, FWTS.                                                   *)
(*                                                                         *)
(* The changes: bootdev (overridden), unbound (a driver), slot (powered    *)
(* off, or removed), freezes (allowed: one), removed (a PE), loglevel,     *)
(* printk; htx (installed), bootme (the machine reboots itself), monitor   *)
(* (a console thread of op-test); lparcfg, vpmem, namespace, mount;        *)
(* secureboot, prep (the boot partition rewritten); timeout (of Petitboot).*)
(***************************************************************************)
EXTENDS Scripts

-----------------------------------------------------------------------------
\* OpTestPCI

\* Whatever raises here is passed over and the machine goes to the OS, also when
\* skiroot was asked for; the connection is not set then, and what uses it raises.
setUpClass(t, else) ==
    TryAll(<<IF t = "OS" THEN Clears("bmc", "bootdev") ELSE Sets("bmc", "bootdev"),
             Goto(t), Runs(WayTo(t))>>, <<Goto("OS")>> \o else)

\* What the class of the test does first.
PCIClass(class, else) ==
    CASE class = "Skiroot" -> setUpClass("PETITBOOT_SHELL", else)
      [] class = "Host" -> setUpClass("OS", else)
      [] class = "SkirootHardboot" ->
            <<Goto("OFF")>> \o setUpClass("PETITBOOT_SHELL", else)
      [] class = "HostHardboot" -> <<Goto("OFF")>> \o setUpClass("OS", else)
      [] class = "SkirootSoftboot" ->
            setUpClass("PETITBOOT_SHELL", <<Fails>>)
              \o <<Types("reboot"), Tells("IPLing"), Goto("PETITBOOT_SHELL")>>
      [] class = "HostSoftboot" ->
            setUpClass("OS", <<Fails>>)
              \o <<Types("reboot"), Tells("BOOTING"), Goto("OS")>>
PCIClasses == {"Skiroot", "Host", "SkirootHardboot", "HostHardboot",
               "SkirootSoftboot", "HostSoftboot"}

\* What the tests of a class ask over its connection.
PCIWay(class) ==
    IF class \in {"Host", "HostHardboot", "HostSoftboot"} THEN "ssh" ELSE "console"
get_lspci(way) == <<Runs(way)>>
compare_live_devices(way) == get_lspci(way) \o Maybe(<<Fails>>)
pcie_link_errors(way) == <<IgnoringSome(Runs(way)), IgnoringSome(Runs(way)), Runs(way)>>
pci_link_check(way) == Twice(<<Runs(way)>>) \o Maybe(<<Fails>>)

\* The lists of skiroot and of the host wait for each other in globals of the
\* module, whatever else has run between; when they differ they stay.
compare_boot_devices(way) ==
    LET mine == IF way = "ssh" THEN "host_done" ELSE "skiroot_done"
        other == IF way = "ssh" THEN "skiroot_done" ELSE "host_done"
    IN  get_lspci(way) \o <<Sets("any", mine)>>
          \o When(other, Maybe(<<Fails>>)
                           \o <<Clears("any", mine), Clears("any", other)>>)

PCIQuery(class) ==
    LET way == PCIWay(class) IN
    Case(PCIClass(class, <<Fails>>),
         Either(Either(compare_live_devices(way), pcie_link_errors(way)),
                Either(pci_link_check(way), compare_boot_devices(way))))

\* It takes the console, whatever the connection was.  The failures are collected.
driver_bind(class) ==
    Case(PCIClass(class, <<>>),
         Maybe(<<Runs("console"), Sets("console", "printk")>>)
           \o <<Runs("console")>>
           \o Twice(<<IgnoringSome(Sets("console", "unbound")), Runs("console"),
                      IgnoringSome(Clears("console", "unbound")), Runs("console")>>)
           \o <<Checks("unbound")>>)

hot_plug_host(class) ==
    Case(PCIClass(class, <<Fails>>),
         <<MaySkip, OrAlsoSkips(Runs("ssh")), Sets("ssh", "printk"), Runs("ssh")>>
           \o Twice(<<IgnoringSome(Sets("ssh", "slot")), Runs("ssh"),
                      IgnoringSome(Clears("ssh", "slot")), Runs("ssh")>>)
           \o <<Checks("slot")>>)

-----------------------------------------------------------------------------
\* OpTestEEH: nobody allows more freezes again, or gets a device back that was
\* removed; only the next boot does.

\* The level of the log takes effect with a power cycle, and stays.
set_con_log_lev_crit ==
    Maybe(<<Sets("console", "loglevel"), Goto("OFF"), Goto("OS")>>)
EEH(body) ==
    Case(<<Goto("OS"), Runs("console")>> \o set_con_log_lev_crit
           \o <<Runs("console"), Sets("console", "printk"), Runs("console")>>, body)

prepare_logs == <<run_command_ignore_fail, Runs("console")>>
gather_logs == <<run_command_ignore_fail, Runs("console")>>
inject_error == Runs("console")
check_eeh_phb_recovery == <<Runs("console")>>
check_eeh_pe_recovery == Runs("console")
check_eeh_removed == <<Runs("console")>>
verify_location_code_logging == <<Runs("console")>>

one_freeze == <<Runs("console"), Sets("console", "freezes")>>
fences == prepare_logs \o <<Ignoring(inject_error)>>
basic_fenced_phb ==
    EEH(<<Runs("console")>> \o Twice(fences \o check_eeh_phb_recovery \o gather_logs))
max_fenced_phb ==
    EEH(one_freeze
          \o Twice(fences \o check_eeh_phb_recovery \o gather_logs)
          \o Twice(prepare_logs \o <<Ignoring(Sets("console", "removed"))>>
                     \o check_eeh_removed \o gather_logs))

\* An injection may miss.  A PE that does not recover ends the loop over it, not
\* the test; and one that is not removed is only logged.
run_pe_4(inject) == prepare_logs \o <<IgnoringSome(inject), Runs("console")>>
recovers ==
    run_pe_4(inject_error)
      \o <<[check_eeh_pe_recovery EXCEPT
               !.els = {Out, Len(gather_logs \o verify_location_code_logging) + 1}]>>
      \o gather_logs \o verify_location_code_logging
is_removed ==
    run_pe_4(Sets("console", "removed")) \o check_eeh_removed
      \o verify_location_code_logging
frozen_pe == Twice(Maybe(recovers)) \o Maybe(is_removed)
basic_frozen_pe == EEH(<<Runs("console")>> \o frozen_pe)
max_frozen_pe == EEH(one_freeze \o frozen_pe)

-----------------------------------------------------------------------------
\* OpTestHtxBootme.  teardown() is not unittest's tearDown(): it is the last step
\* of the test, and where an earlier one raises, the thread goes on.

MonitorsConsole == Sets("any", "monitor")
StopsMonitor == Clears("any", "monitor")

HtxBootmeSetUp == <<MonitorsConsole, Runs("ssh")>>

\* The interfaces under test lose their addresses, here and on the peer.
ip_restore == <<Sets("ssh", "addresses"), Runs("ssh")>>
update_host_peer_names == <<Runs("ssh"), Sets("ssh", "hosts"), Runs("any")>>
htx_configure_net == Twice(<<Runs("ssh")>>)

install_latest_htx_rpm == <<Sets("ssh", "htx")>>
setup_htx == <<Runs("ssh"), run_over_ssh_ignore_fail>> \o install_latest_htx_rpm
start_htx_run == <<Runs("ssh")>>
htx_check == <<Runs("ssh")>>

\* From here on the machine reboots when HTX decides: the first time is waited for
\* without a limit.  A machine that does not come back within its time ends the loop,
\* not the test.
htx_round(rest) ==
    Maybe(<<Breaking(Sees("ping"), Len(rest) + 2), Runs("ssh")>> \o rest)
htx_bootme_test ==
    <<Sets("ssh", "bootme"), AwaitsOffline>> \o htx_round(htx_round(<<>>))
stop_htx_bootme == <<Clears("ssh", "bootme"), Runs("ssh")>>
htx_stop == <<Runs("ssh")>>

HtxBootme(setUp, start, stops) ==
    Case(HtxBootmeSetUp \o setUp,
         setup_htx \o start \o htx_check \o htx_bootme_test \o stop_htx_bootme
           \o stops \o <<StopsMonitor>>)

HtxBootme_AllMdt == HtxBootme(<<>>, start_htx_run, htx_stop)

\* The other block devices are suspended.
suspend_all_block_device == <<Runs("ssh")>>
HtxBootme_BlockDevice ==
    HtxBootme(<<Runs("ssh")>>,
              start_htx_run \o suspend_all_block_device \o <<Runs("ssh")>>,
              Maybe(suspend_all_block_device) \o htx_stop)
HtxBootme_NicDevices ==
    HtxBootme(ip_restore,
              start_htx_run \o update_host_peer_names \o htx_configure_net
                \o <<Runs("ssh")>>,
              htx_stop \o ip_restore)

-----------------------------------------------------------------------------
\* OpTestVpmemBugFixTest, OpTestVpmemPersistency

\* The volumes of others are removed first.
configure_vpmem(n) ==
    <<Runs("bmc")>> \o Maybe(<<Clears("bmc", "vpmem")>>)
      \o [i \in 1 .. n |-> Sets("bmc", "vpmem")] \o <<Runs("bmc")>>

DestroysNamespaces == <<IgnoringSome(Clears("console", "namespace"))>>
FindsNoCalltrace == <<IgnoringSome(Runs("console")), Runs("console")>>
ensure_ndctl_installed == <<Runs("console")>>

\* The partition is switched off behind op-test's back; its profile, of which a
\* copy is made, is not restored.
single_vpmem ==
    Case(<<MaySkip>>,
         <<Powers("off"), Runs("bmc"), Sets("bmc", "lparcfg")>> \o configure_vpmem(1)
           \o PowerCycle("OS") \o ensure_ndctl_installed \o DestroysNamespaces
           \o Twice(<<Sets("console", "namespace")>>)
           \o DestroysNamespaces \o FindsNoCalltrace)

multiple_vpmem ==
    Case(<<MaySkip>>,
         <<Goto("OFF"), Runs("bmc")>> \o configure_vpmem(3)
           \o <<Goto("OS")>> \o ensure_ndctl_installed \o DestroysNamespaces
           \o Twice(<<Sets("console", "namespace")>>)
           \o PowerCycle("OS") \o <<Runs("console")>>
           \o DestroysNamespaces \o FindsNoCalltrace)

check_vpmem_device == <<OrAlsoSkips(Runs("console"))>>
create_namespace ==
    <<Clears("console", "namespace"), Sets("console", "namespace"), Runs("console")>>
create_filesystem == <<Runs("console")>>
umount == Clears("console", "mount")
mount_vpmem == <<Runs("console"), umount, Sets("console", "mount"), Runs("console")>>
create_test_file == <<Runs("console")>>
reboot_system == <<umount>> \o PowerCycle("OS")
verify_data_persistency == <<Runs("console")>> \o mount_vpmem \o <<Runs("console")>>
cleanup == <<Runs("console"), umount>>
VpmemPersistency ==
    Case(<<Goto("OS")>>,
         check_vpmem_device \o create_namespace \o create_filesystem \o mount_vpmem
           \o create_test_file \o reboot_system \o verify_data_persistency \o cleanup)

-----------------------------------------------------------------------------
\* OpTestDlparIO: the machine is where it is, nobody asks for the OS.

DlparIO(body) ==
    Test(<<MonitorsConsole, Runs("bmc"), Runs("ssh")>>, body, <<StopsMonitor>>)

\* An adapter that does not answer after it was put back fails the test.
dlpar(way) ==
    <<Sets(way, "slot"), Runs("bmc"), Clears(way, "slot"), Runs("bmc"), Runs("ssh")>>
dlpar_move == <<Sets("bmc", "slot"), Runs("bmc"), Clears("bmc", "slot"), Runs("bmc")>>
OpTestDlpar == DlparIO(Twice(dlpar("bmc") \o Maybe(dlpar_move)))
OpTestdrmgr_pci == DlparIO(Twice(dlpar("ssh")) \o Twice(<<Runs("ssh")>>))
OpTestdrmgr_phb == DlparIO(Twice(dlpar("ssh")))

-----------------------------------------------------------------------------
\* OpTestGSBStaticKey

GSBSetUp == <<Goto("OS"), OrAlsoSkips(Runs("ssh"))>>
hmc_secureboot_on_off(set) ==
    <<Powers("off"), set, Goto("OFF"), Goto("OS"), Runs("bmc")>>

\* The partition is restored when writing it fails, not when the test is over.
os_secureboot_enable ==
    Maybe(hmc_secureboot_on_off(Clears("bmc", "secureboot")))
      \o <<Runs("console")>>
      \o TrySome(<<Sets("console", "prep")>>, <<Clears("console", "prep"), Fails>>)
collectData == <<Runs("console"), Runs("bmc")>>

GSBStaticEnable ==
    Case(GSBSetUp,
         Maybe(os_secureboot_enable)
           \o hmc_secureboot_on_off(Sets("bmc", "secureboot")) \o collectData)
GSBStaticDisable ==
    Case(GSBSetUp, hmc_secureboot_on_off(Clears("bmc", "secureboot")) \o collectData)

-----------------------------------------------------------------------------
\* PetitbootConfig: a timeout that is not the default stays in NVRAM.

ConfigAvailable == Case(<<Goto("PETITBOOT")>>, <<Runs("console")>>)
setConfigTimeout == <<Runs("console"), Sets("console", "timeout")>>
ConfigTimeoutDisplay ==
    Case(<<Goto("PETITBOOT")>>, setConfigTimeout \o <<Runs("console")>>)
ConfigTimeoutSave ==
    Case(<<Goto("PETITBOOT")>>,
         setConfigTimeout \o <<Goto("PETITBOOT_SHELL"), Runs("console"),
                               Goto("PETITBOOT")>>)
ConfigTimeoutSaveDefault ==
    Case(<<Goto("PETITBOOT")>>,
         setConfigTimeout
           \o <<Goto("PETITBOOT_SHELL"), Runs("console"), Goto("PETITBOOT"),
                Runs("console"), Clears("console", "timeout"),
                Goto("PETITBOOT_SHELL"), Runs("console"), Goto("PETITBOOT")>>)

\* For qemu only; their keys are names that do not exist.
StaticNetworkConfig == Case(<<MaySkip, Goto("PETITBOOT")>>, <<Runs("console"), Fails>>)
RestoreConfigDefault == StaticNetworkConfig

-----------------------------------------------------------------------------
\* I2C: the driver of the EEPROMs is loaded again when it shows none; what fails
\* then is passed over, and what the clearing of the log answered counts as an EEPROM.
host_get_info_of_eeprom_chips ==
    TrySome(<<Runs("ssh")>>,
            <<Runs("ssh")>> \o TrySome(<<Sets("ssh", "at24"), Clears("ssh", "at24"),
                                        Runs("ssh")>>, <<>>))
i2c_init == <<Runs("ssh")>> \o host_get_info_of_eeprom_chips
query_i2c_bus(way) == <<IgnoringSome(Runs(way))>>
i2c_dump(way) == <<Runs(way)>>
i2c_get(way) == <<Runs(way)>>
I2CTest(t) ==
    Body(<<Goto(t)>> \o (IF t = "OS" THEN i2c_init ELSE <<>>) \o <<Runs(WayTo(t))>>
           \o Twice(query_i2c_bus(WayTo(t)))
           \o Maybe(i2c_dump(WayTo(t)) \o i2c_get(WayTo(t))) \o <<Runs(WayTo(t))>>)

\* OpTestCAPI, OpTestOpenCAPI: what was built for one test is there for the next.
set_up_capi == <<Goto("OS"), OrAlsoSkips(Runs("ssh"))>>
builds(c) == Depending(c, <<>>, <<Runs("ssh"), Sets("ssh", c)>>)
CAPI(body) == Body(set_up_capi \o body \o <<Runs("ssh")>>)
CxlDeviceFileTest == CAPI(<<>>)
SysfsABITest == CAPI(builds("cxl") \o <<Ignoring(Clears("ssh", "cxl_memcpy"))>>)
MemCpyAFUTest == CAPI(builds("cxl"))
TimeBaseSyncTest == CAPI(<<OrAlsoSkips(Runs("ssh"))>> \o builds("cxl"))
KernelAPITest ==
    CAPI(builds("cxl") \o Depending("cxl_memcpy", <<Runs("ssh")>>,
                                    <<OrAlsoSkips(Sets("ssh", "cxl_memcpy"))>>))
CxlResetTest == CAPI(builds("cxl"))
OcxlDeviceFileTest == CAPI(<<>>)
MemCpy3AFUTest == CAPI(builds("ocxl"))

\* FWTS: each of its results becomes a test.
add_fwts_results == <<IgnoringSome(Runs("ssh"))>> \o Maybe(<<Fails>>)
FWTS ==
    Body(<<OrAlsoSkips(Goto("OS")), IgnoringSome(Runs("ssh"))>>
           \o Maybe(add_fwts_results))

-----------------------------------------------------------------------------

PCIPrograms ==
    Of("PCI.", [c \in PCIClasses |-> PCIQuery(c)])
      @@ Of("driver_bind.", [c \in PCIClasses |-> driver_bind(c)])
      @@ Of("hot_plug.", [c \in {"Host", "HostSoftboot", "HostHardboot"} |->
                             hot_plug_host(c)])

DevicePrograms ==
    PCIPrograms @@
    [basic_fenced_phb |-> basic_fenced_phb, max_fenced_phb |-> max_fenced_phb,
     basic_frozen_pe |-> basic_frozen_pe, max_frozen_pe |-> max_frozen_pe,
     HtxBootme_AllMdt |-> HtxBootme_AllMdt,
     HtxBootme_BlockDevice |-> HtxBootme_BlockDevice,
     HtxBootme_NicDevices |-> HtxBootme_NicDevices, single_vpmem |-> single_vpmem,
     multiple_vpmem |-> multiple_vpmem, VpmemPersistency |-> VpmemPersistency,
     Dlpar |-> OpTestDlpar, drmgr_pci |-> OpTestdrmgr_pci,
     drmgr_phb |-> OpTestdrmgr_phb, GSBStaticEnable |-> GSBStaticEnable,
     GSBStaticDisable |-> GSBStaticDisable, ConfigAvailable |-> ConfigAvailable,
     ConfigTimeoutDisplay |-> ConfigTimeoutDisplay,
     ConfigTimeoutSave |-> ConfigTimeoutSave,
     ConfigTimeoutSaveDefault |-> ConfigTimeoutSaveDefault,
     StaticNetworkConfig |-> StaticNetworkConfig,
     RestoreConfigDefault |-> RestoreConfigDefault,
     HostI2C |-> I2CTest("OS"), SkirootI2C |-> I2CTest("PETITBOOT_SHELL"),
     CxlDeviceFileTest |-> CxlDeviceFileTest, SysfsABITest |-> SysfsABITest,
     MemCpyAFUTest |-> MemCpyAFUTest, TimeBaseSyncTest |-> TimeBaseSyncTest,
     KernelAPITest |-> KernelAPITest, CxlResetTest |-> CxlResetTest,
     OcxlDeviceFileTest |-> OcxlDeviceFileTest, MemCpy3AFUTest |-> MemCpy3AFUTest,
     FWTS |-> FWTS]
=============================================================================
