------------------------------ MODULE DumpTests -----------------------------
(***************************************************************************)
(* The classes of OpTestKernelDump.py, by what they configure before they  *)
(* crash the kernel and what they take back.  kernel_crash() itself is in  *)
(* the module KernelDump; here it ends with the machine up again, or not   *)
(* in time.                                                                *)
(*                                                                         *)
(* The changes: kdumpconf (kdump's configuration file), backup (the copy   *)
(* that setUp() makes of it, of a file already changed), kdumpoff (the     *)
(* service), vmcores (that no setup_test() knows), the kernel's arguments  *)
(* fadump, nofadump, crashkernel, hugepages, xive, radix and bootargs;     *)
(* kdumpvars (/etc/sysconfig/kdump of RHEL, which has no backup), fstab,   *)
(* smt, cores, watchdog (the module's parameters), procs, mem, pmem, zone. *)
(***************************************************************************)
EXTENDS Scripts

-----------------------------------------------------------------------------
\* What the tests share.

\* The copy is made again by every test, whatever the one before it left.
KdumpSetUp ==
    <<Runs("ssh")>> \o Depending("kdumpconf", <<Sets("ssh", "backup")>>,
                                 <<Clears("ssh", "backup")>>)

\* It removes the dumps, or knows them from then on.
setup_test == <<Ignoring(Runs("ssh")), Clears("ssh", "vmcores")>>
setup_pwdless_auth == <<Runs("ssh")>>

\* On an LPAR.  Failures of the trigger are ignored; when ssh does not answer in
\* time, the state is UNKNOWN_BAD and verify_dump_file() fails, where it is called.
Crash(late) ==
    LET dump == Maybe(<<Ignoring(Sets("bmc", "vmcores"))>>) IN
    <<Runs("ssh"), [Commands("checkstop") EXCEPT !.els = {Len(dump) + 1}]>> \o dump
      \o TryAll(<<Sees("os"), Tells("OS")>>, <<Tells("UNKNOWN_BAD")>> \o late)
kernel_crash == Crash(<<>>)

\* Without an HMC nothing has set the cv_HMC that the loop asks after every round.
BareMetalCrash ==
    <<Runs("console"), Types("checkstop")>>
      \o Maybe(Either(<<Tells("IPLing")>>, <<Tells("UNKNOWN_BAD")>>)) \o <<Fails>>

verify_dump_file ==
    <<Runs("ssh")>> \o Depending("backup", <<Sets("ssh", "kdumpconf")>>,
                                 <<Clears("ssh", "kdumpconf")>>)
      \o Requires("vmcores") \o <<Runs("ssh"), Clears("ssh", "vmcores")>>

CrashAndVerify == Crash(<<Fails>>) \o verify_dump_file
CrashAndTryVerify == kernel_crash \o TryAll(verify_dump_file, <<>>)

\* update_kernel_cmdline(): it reboots where there is something to change.
Reboots == <<Ignoring(Commands("reboot")), Sees("os")>>
Adds(c) == <<Runs("ssh")>> \o Depending(c, <<>>, <<Sets("ssh", c)>> \o Reboots)
Removes(c) == <<Runs("ssh")>> \o When(c, <<Clears("ssh", c)>> \o Reboots)

DumpTest(body) == Case(KdumpSetUp, body)

-----------------------------------------------------------------------------
\* MPIPL, fadump, kdump alone, none

\* The expect() for istep 14.8 tells the state, or nothing does.
MPIPLEnds ==
    Either(<<Sees("rebooting"), Tells("IPLing")>>, Maybe(<<Tells("UNKNOWN_BAD")>>))
      \o <<Runs("ssh")>>

OPALCrash_MPIPL ==
    DumpTest(setup_test \o <<MaySkip, Runs("ssh")>> \o Maybe(<<Sets("ssh", "kdumpoff")>>)
               \o <<Ignoring(Runs("bmc")), Runs("bmc"), Commands("checkstop")>>
               \o MPIPLEnds)

SBECrash_MPIPL ==
    DumpTest(<<MaySkip>> \o setup_test \o <<Runs("ssh")>>
               \o Maybe(<<Sets("ssh", "kdumpoff")>>)
               \o <<Runs("ssh"), MaySkip, Runs("bmc"), Types("checkstop")>>
               \o MPIPLEnds)

setup_fadump ==
    <<Tells("OS"), Runs("ssh"), Sets("ssh", "kdumpconf")>> \o Adds("fadump")
      \o PowerCycle("OS")

KernelCrash_FadumpEnable ==
    DumpTest(setup_test \o setup_fadump \o <<Runs("ssh"), MaySkip, Runs("ssh"),
               Clears("ssh", "kdumpoff")>> \o CrashAndVerify)

\* restart_lpar()
KernelCrash_OnlyKdumpEnable ==
    DumpTest(setup_test
               \o When("fadump", Removes("fadump") \o <<Powers("cycle"), Sees("os")>>)
               \o <<Runs("ssh"), Powers("cycle"), Sees("os"), Clears("ssh", "kdumpoff")>>
               \o CrashAndVerify \o setup_test \o CrashAndVerify)

\* It wants a normal boot, which an LPAR's kernel_crash() never answers.
KernelCrash_DisableAll ==
    DumpTest(setup_test \o When("fadump", <<OrSkips(Fails)>>)
               \o <<Runs("ssh"), Sets("ssh", "kdumpoff")>>
               \o Either(kernel_crash \o <<Fails>>, BareMetalCrash))

SkirootKernelCrash ==
    DumpTest(<<Goto("PETITBOOT_SHELL"), Runs("console"), Sets("console", "bootargs"),
               Goto("OFF"), Goto("PETITBOOT_SHELL"), Runs("bmc")>> \o BareMetalCrash)

-----------------------------------------------------------------------------
\* Dumps over ssh, nfs, to a disk; with SMT, DLPAR, loads

setup_ssh == <<Goto("OS"), Sets("ssh", "kdumpconf"), Runs("ssh")>>
setup_nfs == <<Goto("OS"), Sets("ssh", "kdumpconf"), Runs("ssh")>>
setup_san == <<Goto("OS"), Runs("ssh"), Sets("ssh", "kdumpconf")>>
               \o Maybe(<<Sets("ssh", "fstab"), Runs("ssh")>>) \o <<Runs("ssh")>>

KernelCrash_KdumpSSH ==
    DumpTest(<<MaySkip>> \o setup_pwdless_auth \o setup_test \o setup_ssh
               \o CrashAndVerify \o setup_test)

KernelCrash_KdumpNFS ==
    DumpTest(<<MaySkip>> \o setup_pwdless_auth \o setup_test \o setup_nfs
               \o CrashAndVerify \o setup_test)

KernelCrash_KdumpSAN ==
    DumpTest(setup_test \o setup_san \o CrashAndVerify \o setup_test
               \o When("fstab", <<Clears("ssh", "fstab")>>))

KernelCrash_KdumpSMT ==
    LET with(c) == setup_test \o <<Sets("ssh", c), Runs("ssh")>> \o CrashAndVerify
    IN  DumpTest(<<Goto("OS")>> \o Twice(with("smt")) \o with("cores")
                   \o setup_test \o <<Sets("ssh", "cores"), Sets("ssh", "smt")>>
                   \o CrashAndVerify)

KernelCrash_KdumpDLPAR ==
    LET addRemove(c) ==
            setup_test \o <<Sets("bmc", c)>> \o CrashAndVerify
              \o setup_test \o <<Clears("bmc", c)>> \o CrashAndVerify
    IN  DumpTest(<<Goto("OS")>> \o addRemove("procs") \o addRemove("mem"))

KernelCrash_KdumpWorkLoad == DumpTest(setup_test \o <<Runs("ssh")>> \o CrashAndVerify)
KernelCrash_PerfTest == DumpTest(setup_test \o <<Runs("ssh")>> \o CrashAndVerify)

-----------------------------------------------------------------------------
\* Arguments of the kernel

\* It skips when the page size is not the one it asked for.
KernelCrash_hugepage_checks ==
    DumpTest(<<Goto("OS")>> \o setup_test \o CrashAndVerify \o <<MaySkip, Runs("ssh")>>
               \o Maybe(<<Goto("OS")>> \o setup_test \o Adds("hugepages")
                          \o CrashAndVerify \o <<MaySkip>>)
               \o Removes("hugepages"))

\* A last update that fails is only warned of.
KernelCrash_HugepageConfig_16G_16M ==
    DumpTest(<<Goto("OS")>> \o setup_test \o <<MaySkip>> \o Adds("hugepages")
               \o <<Runs("ssh")>> \o CrashAndVerify
               \o <<Goto("OS")>> \o setup_test
               \o <<Runs("ssh"), Sets("ssh", "hugepages")>> \o Reboots
               \o <<Runs("ssh")>> \o CrashAndVerify
               \o TryAll(Removes("hugepages"), <<>>))

CrashWithSMT == Twice(setup_test \o <<Sets("ssh", "smt"), Runs("ssh")>> \o CrashAndVerify)

KernelCrash_XIVE_off ==
    DumpTest(TryAll(Removes("hugepages"), <<>>) \o <<Goto("OS")>> \o setup_test
               \o Adds("xive") \o <<MaySkip>> \o CrashAndVerify \o CrashWithSMT
               \o <<Clears("ssh", "smt"), Runs("ssh")>> \o Removes("xive"))

KernelCrash_disable_radix ==
    DumpTest(TryAll(Removes("xive"), <<>>) \o <<Goto("OS")>> \o setup_test
               \o <<MaySkip, Goto("OS")>> \o Adds("radix") \o <<MaySkip>>
               \o CrashAndVerify \o CrashWithSMT
               \o <<Clears("ssh", "smt"), Runs("ssh")>> \o Removes("radix"))

KernelCrash_FadumpNocma ==
    DumpTest(Adds("fadump") \o PowerCycle("OS") \o setup_test \o CrashAndVerify
               \o Removes("fadump"))

\* fadump=xyz or fadump=off instead of fadump=on, which comes back, whether it
\* was there or not.
FadumpWithout ==
    DumpTest(<<MaySkip, Runs("ssh"), Sets("ssh", "nofadump"), Clears("ssh", "fadump")>>
               \o Reboots \o TryAll(setup_test, <<>>) \o <<Runs("ssh")>>
               \o Either(CrashAndVerify, CrashAndTryVerify)
               \o <<Clears("ssh", "nofadump"), Sets("ssh", "fadump")>> \o Reboots)
KernelCrash_FadumpJunkValue == FadumpWithout
KernelCrash_FadumpOffValue == FadumpWithout

\* The value that was there is given back.
CrashkernelTest(crashes) ==
    <<Runs("ssh"), MaySkip>> \o Adds("crashkernel") \o crashes \o Removes("crashkernel")
KernelCrash_CrashkernelOffset ==
    DumpTest(setup_test \o CrashkernelTest(<<Runs("ssh")>> \o CrashAndVerify))
OpTestLowCrashkernelKdump ==
    DumpTest(CrashkernelTest(setup_test \o <<Runs("ssh")>> \o CrashAndTryVerify
                               \o CrashAndTryVerify))

-----------------------------------------------------------------------------
\* The configuration of kdump

\* What it writes it does not take back.
KernelCrash_KdumpMultiThreadCheck ==
    DumpTest(<<MaySkip, Runs("ssh")>> \o Maybe(<<Sets("ssh", "kdumpvars"), Runs("ssh")>>)
               \o kernel_crash \o <<Runs("ssh"), Clears("ssh", "vmcores")>>)

KernelCrash_FadumpMultiThreadCheck ==
    DumpTest(<<MaySkip, Runs("ssh")>> \o kernel_crash
               \o <<Runs("ssh"), Clears("ssh", "vmcores")>>)

KernelCmdlineParamTest ==
    DumpTest(<<Runs("ssh"), Sets("ssh", "kdumpvars"), Runs("ssh")>> \o kernel_crash
               \o <<Runs("ssh")>>)

OpTestKdumpKernelSwitch ==
    DumpTest(<<Runs("ssh"), MaySkip>>
               \o Depending("kdumpvars", <<Runs("ssh")>>,
                            <<Sets("ssh", "kdumpvars"), Runs("ssh")>> \o kernel_crash
                              \o <<Runs("ssh"), Clears("ssh", "kdumpvars")>>)
               \o <<Runs("ssh")>>)

OpTestMakedump ==
    DumpTest(TryAll(Removes("radix"), <<>>) \o setup_test \o Crash(<<>>)
               \o Requires("vmcores") \o <<Runs("ssh")>> \o verify_dump_file)

\* A namespace that was destroyed to make room is not made again.
KernelCrash_KdumpPMEM ==
    DumpTest(<<Goto("OS")>> \o setup_test \o <<Runs("ssh"), MaySkip>>
               \o TrySome(<<Sets("ssh", "pmem")>>, <<Clears("ssh", "pmem"), Fails>>)
               \o <<Runs("ssh"), Sets("ssh", "fstab"), Sets("ssh", "kdumpconf"),
                    Runs("ssh")>>
               \o Crash(<<Fails>>)
               \o <<Runs("ssh"), Clears("ssh", "pmem"), Clears("ssh", "fstab"),
                    Clears("ssh", "kdumpconf")>> \o verify_dump_file)

OpTestFadumpCmaCheck == DumpTest(<<Runs("ssh")>>)
PstoreCheck == DumpTest(<<Runs("ssh")>> \o kernel_crash \o <<Runs("ssh")>>)

MeasureMakedumpTime ==
    DumpTest(Twice(Maybe(<<Runs("ssh")>>) \o kernel_crash
                     \o <<Runs("ssh"), Clears("ssh", "vmcores")>>))

TestTimezoneKdump ==
    DumpTest(<<Runs("ssh"), Sets("ssh", "zone"), Runs("ssh")>> \o kernel_crash
               \o Requires("vmcores") \o <<Runs("ssh")>>)

-----------------------------------------------------------------------------
\* OpTestWatchdog: the module is loaded again with other parameters.

LoadsWatchdog == <<Runs("ssh"), Clears("ssh", "watchdog"), Sets("ssh", "watchdog"),
                   Runs("ssh")>>

check_wd_action_one == LoadsWatchdog \o kernel_crash \o <<Runs("bmc")>>

\* The LPAR has to be off afterwards, which kernel_crash() takes for a failure.
check_wd_action_zero ==
    LoadsWatchdog \o <<Runs("ssh"), Ignoring(Commands("off"))>>
      \o TryAll(<<Sees("os"), Tells("OS")>>, <<Tells("UNKNOWN_BAD")>>) \o <<Sees("off")>>

CheckWD(setup) ==
    <<Runs("ssh")>> \o Maybe(Adds("crashkernel")) \o PowerCycle("OS")
      \o <<Clears("ssh", "kdumpoff")>> \o LoadsWatchdog \o setup_test \o setup
      \o CrashAndVerify
check_wd_localdisk == CheckWD(<<>>)
check_wd_overSAN == KdumpSetUp \o CheckWD(setup_san) \o setup_test
check_wd_overNFS == KdumpSetUp \o CheckWD(setup_nfs) \o setup_test

OpTestWatchdog ==
    Case(KdumpSetUp \o <<Runs("bmc")>>,
         <<Runs("ssh")>> \o check_wd_action_one \o check_wd_localdisk
           \o check_wd_overSAN \o check_wd_overNFS \o check_wd_action_zero)

-----------------------------------------------------------------------------

DumpPrograms ==
    [OPALCrash_MPIPL |-> OPALCrash_MPIPL, SBECrash_MPIPL |-> SBECrash_MPIPL,
     FadumpEnable |-> KernelCrash_FadumpEnable,
     OnlyKdumpEnable |-> KernelCrash_OnlyKdumpEnable,
     DisableAll |-> KernelCrash_DisableAll, SkirootKernelCrash |-> SkirootKernelCrash,
     KdumpSSH |-> KernelCrash_KdumpSSH, KdumpNFS |-> KernelCrash_KdumpNFS,
     KdumpSAN |-> KernelCrash_KdumpSAN, KdumpSMT |-> KernelCrash_KdumpSMT,
     KdumpDLPAR |-> KernelCrash_KdumpDLPAR, KdumpWorkLoad |-> KernelCrash_KdumpWorkLoad,
     PerfTest |-> KernelCrash_PerfTest,
     hugepage_checks |-> KernelCrash_hugepage_checks,
     HugepageConfig |-> KernelCrash_HugepageConfig_16G_16M,
     XIVE_off |-> KernelCrash_XIVE_off, disable_radix |-> KernelCrash_disable_radix,
     FadumpNocma |-> KernelCrash_FadumpNocma,
     FadumpJunkValue |-> KernelCrash_FadumpJunkValue,
     FadumpOffValue |-> KernelCrash_FadumpOffValue,
     CrashkernelOffset |-> KernelCrash_CrashkernelOffset,
     LowCrashkernelKdump |-> OpTestLowCrashkernelKdump,
     KdumpMultiThreadCheck |-> KernelCrash_KdumpMultiThreadCheck,
     FadumpMultiThreadCheck |-> KernelCrash_FadumpMultiThreadCheck,
     KernelCmdlineParamTest |-> KernelCmdlineParamTest,
     KdumpKernelSwitch |-> OpTestKdumpKernelSwitch, Makedump |-> OpTestMakedump,
     KdumpPMEM |-> KernelCrash_KdumpPMEM, FadumpCmaCheck |-> OpTestFadumpCmaCheck,
     PstoreCheck |-> PstoreCheck, MeasureMakedumpTime |-> MeasureMakedumpTime,
     TimezoneKdump |-> TestTimezoneKdump, Watchdog |-> OpTestWatchdog]
=============================================================================
