--------------------------- MODULE PlatformSuite ----------------------------
(***************************************************************************)
(* The tests of the five modules together, and what is known of them: the  *)
(* constants of Platform.                                                  *)
(***************************************************************************)
EXTENDS PowerTests, PlatformTests, DumpTests, FirmwareTests, DeviceTests

Programs == PowerPrograms @@ PlatformPrograms @@ DumpPrograms
              @@ FirmwarePrograms @@ DevicePrograms

\* What is held by the running kernel, and what by the power.
Volatile ==
    {"governor", "idle", "kdump", "cores", "printk", "smt", "kdumpoff", "watchdog",
     "unbound", "slot", "freezes", "removed", "mount", "addresses", "at24",
     "cxl_memcpy"}
Cured == {"occ", "rr"}

\* The firmware powers off when it is signed with other keys, or when somebody
\* is there to clear the keys.
Refusing == {"image", "presence"}

\* Tests that reboot, shut down or power on the machine and let op-test believe
\* what it believed before; driver_bind goes on after a goto_state() that has lost
\* the answer of its power-off.
Careless ==
    {"ConsoleBug150765", "DPOSkiroot", "Grub", "OpenBMCRebootHostReboot",
     "OpenBMCRebootHostShutdown", "PowerPolicyOFF_IPL", "PowerPolicyON_IPL",
     "PowerPolicyPrevious_IPL", "RebootTimeHost", "RebootTimeSkiroot",
     "HugepageConfig", "HtxBootme_AllMdt", "HtxBootme_BlockDevice",
     "HtxBootme_NicDevices", "driver_bind.Skiroot"}

\* What each group of tests has not put back when it passes.
Leftovers ==
    {<<{"EPOW3LOW"}, {"temperature"}>>,
     <<{"EnergyScaleRuntime", "EnergyScaleStandby"}, {"limit"}>>,
     <<{"EnergyScale_BaseLine"}, {"mode"}>>,
     <<{"FastReboot", "FastRebootHost"}, {"fastreset", "forcefast"}>>,
     <<{"ReBootTorture"}, {"fastreset"}>>,
     <<{"HMI_TFMR_ERRORS", "PROC_RECOV_DONE", "PROC_RECV_ERROR_MASKED", "TOD_ERRORS",
        "MalfunctionAlert", "HypervisorResourceError"}, {"idle", "kdump"}>>,
     <<{"SingleCoreTOD_ERRORS"}, {"idle", "cores", "kdump"}>>,
     <<{"HOST_DUMP_BOOTTIME", "HOST_DUMP_RUNTIME"}, {"dumps"}>>,
     <<{"HostRTC", "SkirootRTC", "TOD_CORRUPTION"}, {"clock"}>>,
     <<{"resetReload"}, {"clock", "testcfg"}>>,
     <<{"IPMILockMode"}, {"boot", "pnor", "lockdown"}>>,
     <<{"OCC_RESET", "OCCRESET_FSP"}, {"governor", "rr"}>>,
     <<{"occ_enable_disable"}, {"governor", "occ"}>>,
     <<{"OpenBMCRebootHostTests"}, {"occ"}>>,
     <<{"Reset_IPL", "PowerPolicyOFF_IPL", "PowerPolicyON_IPL",
        "PowerPolicyPrevious_IPL"}, {"policy"}>>,
     <<{"slw_info", "cpu_freq_states_host", "cpu_freq_states_skiroot",
        "cpu_freq_gov_host", "cpu_boost_freqs_host", "cpu_idle_states_host",
        "cpu_idle_states_skiroot", "occ_reset_n_times"}, {"governor"}>>,
     <<{"FadumpEnable"}, {"fadump"}>>,
     <<{"FadumpJunkValue", "FadumpOffValue"}, {"fadump", "vmcores"}>>,
     <<{"HugepageConfig"}, {"hugepages"}>>,
     <<{"KdumpMultiThreadCheck"}, {"kdumpvars"}>>,
     <<{"KernelCmdlineParamTest"}, {"kdumpvars", "vmcores"}>>,
     <<{"KdumpKernelSwitch", "LowCrashkernelKdump", "PstoreCheck"}, {"vmcores"}>>,
     <<{"SBECrash_MPIPL"}, {"kdumpoff"}>>,
     <<{"TimezoneKdump"}, {"vmcores", "zone"}>>,
     <<{"Watchdog"}, {"crashkernel", "fstab"}>>,
     <<{"OOBIPMIStandby.chassis", "OOBIPMIRuntime.chassis", "InbandIPMI.chassis",
        "SkirootInbandIPMI.chassis"}, {"policy"}>>,
     <<{"OOBIPMIStandby.chassisBootdev", "OOBIPMIRuntime.chassisBootdev"}, {"bootdev"}>>,
     <<{"InbandIPMI.mc", "SkirootInbandIPMI.mc"}, {"enables"}>>,
     <<{"OOBIPMIStandby.oem_specific", "OOBIPMIRuntime.oem_specific",
        "OOBIPMIStandby.fan_control_algorithm_1",
        "OOBIPMIRuntime.fan_control_algorithm_1"}, {"fans"}>>,
     <<{"OOBIPMIStandby.set_led_state", "OOBIPMIRuntime.set_led_state"}, {"leds"}>>,
     <<{"PNORFLASH", "OpalLidsFLASH", "OOBHpmFLASH", "InbandHpmFLASH",
        "FSPFWImageFLASH", "SignedPNOR", "UnSignedPNOR", "KeyTransitionPNOR",
        "OPALContainerTest"}, {"image"}>>,
     <<{"VerifyOPALTrustedBoot", "TPM_PolicyOFF", "FunctionalTPM_PolicyON",
        "NoFunctionalTPM_PolicyON"}, {"tpm"}>>,
     <<{"PrdDriver"}, {"mask"}>>,
     <<{"OpalGard"}, {"printk"}>>,
     <<{"HostNVRAM", "SkirootNVRAM"}, {"testcfg"}>>,
     <<{kind \o class : kind \in {"PCI.", "driver_bind."},
           class \in {"Skiroot", "SkirootHardboot", "SkirootSoftboot"}}, {"bootdev"}>>,
     <<{kind \o class : kind \in {"driver_bind.", "hot_plug."}, class \in PCIClasses},
       {"printk"}>>,
     <<{"basic_fenced_phb", "basic_frozen_pe", "max_fenced_phb", "max_frozen_pe"},
       {"loglevel", "printk"}>>,
     <<{"basic_frozen_pe", "max_fenced_phb", "max_frozen_pe"}, {"removed"}>>,
     <<{"max_fenced_phb", "max_frozen_pe"}, {"freezes"}>>,
     <<{"HtxBootme_AllMdt", "HtxBootme_BlockDevice", "HtxBootme_NicDevices"}, {"htx"}>>,
     <<{"HtxBootme_NicDevices"}, {"addresses", "hosts"}>>,
     <<{"HostI2C"}, {"at24"}>>,
     <<{"SysfsABITest", "MemCpyAFUTest", "TimeBaseSyncTest", "KernelAPITest",
        "CxlResetTest"}, {"cxl"}>>,
     <<{"KernelAPITest"}, {"cxl_memcpy"}>>, <<{"MemCpy3AFUTest"}, {"ocxl"}>>,
     <<{"PCI.Host", "PCI.HostHardboot", "PCI.HostSoftboot"}, {"host_done"}>>,
     <<{"PCI.Skiroot", "PCI.SkirootHardboot", "PCI.SkirootSoftboot"}, {"skiroot_done"}>>,
     <<{"single_vpmem"}, {"lparcfg"}>>,
     <<{"single_vpmem", "multiple_vpmem"}, {"vpmem", "namespace"}>>,
     <<{"VpmemPersistency"}, {"namespace"}>>,
     <<{"GSBStaticEnable"}, {"secureboot", "prep"}>>,
     <<{"ConfigTimeoutDisplay", "ConfigTimeoutSave"}, {"timeout"}>>}

LeavesBehind ==
    [t \in DOMAIN Programs |->
        UNION {g[2] : g \in {l \in Leftovers : t \in l[1]}}]
=============================================================================
