------------------------------ MODULE Kernels ------------------------------
(***************************************************************************)
(* Tests that choose what a machine boots: arguments on the kernel's       *)
(* command line (InstallUtil.update_kernel_cmdline(), OpTestKernelArg,     *)
(* OpTestKuepKuap, DlparMemHotplug), kernels installed or entered by kexec *)
(* (InstallUpstreamKernel, OpTestKexec), and bisections (BisectKernel,     *)
(* OpTestKernelTest).                                                      *)
(*                                                                         *)
(* What is configured and what runs differ until a reboot, and a reboot    *)
(* that is asked for comes late, or not, or enters a kernel that an        *)
(* earlier test has loaded.  A kernel is its commit; 0 is the distribution's.*)
(***************************************************************************)
EXTENDS Naturals, Sequences, FiniteSets

CONSTANTS
    Commits,            \* the history has the commits 1 .. Commits
    Arg,                \* the argument that a test puts on the command line
    Settings,           \* of memory_hotplug.memmap_on_memory, one by one
    Kinds, Last,        \* the tests of a run, and how many it has
    Iterations          \* num_of_iterations of the kexec loop

New == Commits
Setting == {Settings[i] : i \in 1 .. Len(Settings)}
Args == {Arg} \cup Setting
Systems == [kernel : 0 .. Commits, args : SUBSET Args]
NoSystem == [kernel |-> 0, args |-> {"none"}]

VARIABLES
    left, pc, kind,     \* the tests to run, where the running one is, its kind
    stage,              \* which of its updates of the command line it is in
    byCommand,          \* reboot_cmd: reboot over ssh, or OFF and OS
    add, remove,        \* the arguments it wants added, removed
    need,               \* of these, what the command line lacks, still has
    round,              \* of the settings, or of the kexec loop
    good, bad, head,    \* the bisection: git's marks, the commit checked out
    named,              \* the commit it named
    outcome,            \* of the last test
    \* history: the first bad commit; a command line that could not be read, or
    \* was that of an earlier boot, was taken for the current one; an update that failed was passed over; a commit was
    \* judged by something else; the system a test was made on
    culprit, unread, missed, misjudged, ran,
    \* the state machine's state, and the machine: what runs, the kernel and
    \* the arguments the boot loader takes, what kexec has loaded
    believes, host, running, default, config, loaded

update == <<stage, byCommand, add, remove, need>>
bisect == <<good, bad, head, named, culprit>>
history == <<unread, missed, misjudged, ran>>
system == <<believes, host, running, loaded>>
loader == <<default, config>>
vars == <<left, pc, kind, update, round, bisect, outcome, history, system,
          loader>>

Bisections == {"build", "perf", "boot"}
InUpdate == {"check", "change", "restart", "ssh", "off", "on", "recheck"}
InTest == {"setup", "verify", "lkdtm", "crash", "cleaned", "hotplug",
           "make", "install", "load", "unload", "exec", "login", "uname",
           "kexec", "judge", "reset"}

TypeOK ==
    /\ left \in 0 .. Last
    /\ pc \in {"idle"} \cup InUpdate \cup InTest
    /\ kind \in Kinds \cup {"none"}
    /\ stage \in {"add", "undo", "remove"} /\ byCommand \in BOOLEAN
    /\ add \subseteq Args /\ remove \subseteq Args
    /\ need \subseteq Args
    /\ round \in 0 .. Len(Settings) + Iterations
    /\ good \in 1 .. Commits /\ bad \in 1 .. Commits /\ head \in 1 .. Commits
    /\ named \in 0 .. Commits /\ culprit \in 2 .. Commits
    /\ outcome \in {"none", "passed", "failed", "skipped"}
    /\ unread \in BOOLEAN /\ missed \in BOOLEAN /\ misjudged \in BOOLEAN
    /\ ran \in Systems \cup {NoSystem}
    /\ believes \in {"OS", "OFF", "UNKNOWN", "BAD"}
    /\ host \in {"up", "going", "booting", "jumping", "off"}
    /\ running \in Systems /\ loaded \in Systems \cup {NoSystem}
    /\ default \in 0 .. Commits /\ config \subseteq Args

Init ==
    /\ left = Last /\ pc = "idle" /\ kind = "none"
    /\ stage = "add" /\ byCommand = FALSE /\ add = {} /\ remove = {} /\ need = {}
    /\ round = 0
    /\ good = 1 /\ bad = Commits /\ head = Commits /\ named = 0
    /\ culprit = Commits
    /\ outcome = "none"
    /\ unread = FALSE /\ missed = FALSE /\ misjudged = FALSE /\ ran = NoSystem
    /\ believes = "OS" /\ host = "up"
    /\ running = [kernel |-> 0, args |-> {}] /\ loaded = NoSystem
    /\ default = 0 /\ config = {}

Answers == host \in {"up", "going"}
Goes(to) == pc' = to /\ UNCHANGED outcome
Ends(how) == pc' = "idle" /\ outcome' = how

-----------------------------------------------------------------------------
\* The beginning of a test, and how its updates of the command line begin.

Wants(s, a, r) ==
    stage' = s /\ add' = a /\ remove' = r /\ need' = {}

BeginTest ==
    /\ pc = "idle" /\ left > 0 /\ left' = left - 1
    /\ kind' \in Kinds
    /\ round' = 1 /\ outcome' = "none"
    /\ good' = 1 /\ bad' = Commits /\ named' = 0
    /\ culprit' \in IF kind' \in Bisections THEN 2 .. Commits ELSE {Commits}
    /\ head' \in IF kind' \in {"build", "perf"} THEN 2 .. Commits - 1
                                                ELSE {Commits}
    /\ unread' = FALSE /\ missed' = FALSE /\ misjudged' = FALSE
    /\ ran' = NoSystem
    /\ \/ /\ kind' = "arg" /\ pc' = "check" /\ byCommand' \in BOOLEAN
          /\ \/ Wants("add", {Arg}, {})
             \/ Wants("remove", {}, {Arg})
       \/ /\ kind' = "hotplug" /\ pc' = "check" /\ byCommand' = TRUE
          /\ Wants("add", {Settings[1]}, {})
       \/ /\ kind' \in {"kuap", "exec", "unload", "loop"} /\ pc' = "setup"
          /\ byCommand' = FALSE /\ Wants("add", {Arg}, {})
       \/ /\ kind' \in {"install", "kexec", "boot"} /\ pc' = "off"
          /\ byCommand' = FALSE /\ Wants("add", {}, {})
       \/ /\ kind' \in {"build", "perf"} /\ pc' = "make"
          /\ byCommand' = FALSE /\ Wants("add", {}, {})
    /\ UNCHANGED <<system, loader>>

-----------------------------------------------------------------------------
\* goto_state(): told OS where it believes to be, it looks at nothing.

Powered == [kernel |-> default, args |-> config]

Reaches ==
    \/ believes = "OS" /\ UNCHANGED system
    \/ believes = "UNKNOWN" /\ host = "up" /\ believes' = "OS"
       /\ UNCHANGED <<host, running, loaded>>
    \/ believes # "OS" /\ believes' = "OS" /\ host' = "up"
       /\ running' = Powered /\ loaded' = NoSystem

\* An exception; the machine may be on its way.
Gives ==
    /\ believes' \in {believes, "BAD"}
    /\ host' \in {host} \cup (IF pc = "off" THEN {"off"} ELSE {})
                     \cup (IF believes = "OS" THEN {} ELSE {"off", "booting"})
    /\ loaded' = IF host' = host THEN loaded ELSE NoSystem
    /\ UNCHANGED running

GoesOff ==
    /\ believes' = "OFF" /\ host' = "off" /\ loaded' = NoSystem
    /\ UNCHANGED running

\* setUp()
Setup ==
    /\ pc = "setup"
    /\ \/ Reaches /\ Goes(CASE kind = "kuap" -> "check"
                            [] kind \in {"exec", "unload"} -> "load"
                            [] kind = "loop" -> "exec")
       \/ Gives /\ Ends("failed")
    /\ UNCHANGED <<left, kind, update, round, bisect, history, loader>>

-----------------------------------------------------------------------------
\* InstallUtil.update_kernel_cmdline()

\* What the tests do with what it returns, or with the exception.
KernelArg(answer) == Ends(IF answer = "True" THEN "passed" ELSE "failed")

KuepKuap(answer) ==
    IF answer # "True" \/ stage = "undo" THEN Ends("failed")
    ELSE Goes(IF stage = "add" THEN "verify" ELSE "cleaned")

DlparMemHotplug(answer) ==
    IF answer = "raised" THEN Ends("failed")
    ELSE IF stage = "add" THEN Goes("hotplug") ELSE Ends("passed")

Returns(answer) ==
    /\ missed' = (missed \/ answer # "True")
    /\ \/ kind = "arg" /\ KernelArg(answer)
       \/ kind = "kuap" /\ KuepKuap(answer)
       \/ kind = "hotplug" /\ DlparMemHotplug(answer)

KeepsTest == UNCHANGED <<left, kind, stage, byCommand, add, remove, round, bisect,
                         misjudged, ran>>

Lacking == (add \ running.args) \cup (remove \cap running.args)

\* check_kernel_cmdline(): if the command fails nothing is missing.
Check ==
    /\ pc = "check"
    /\ \/ Answers /\ need' = Lacking /\ UNCHANGED <<unread, missed>>
          /\ Goes("change")
       \/ need' = {} /\ unread' = TRUE /\ UNCHANGED missed /\ Goes("change")
       \/ UNCHANGED <<need, unread>> /\ Returns("raised")
    /\ KeepsTest /\ UNCHANGED <<system, loader>>

\* An argument replaces the one with the same key.
SameKey(a, b) == a = b \/ {a, b} \subseteq Setting
Changed == ({a \in config : \A b \in need \cap add : ~SameKey(a, b)}
              \cup (need \cap add)) \ (need \cap remove)

Change ==
    /\ pc = "change"
    /\ \/ /\ Answers /\ config' = Changed
          /\ IF need = {} THEN Returns("True")
             ELSE Goes(IF byCommand THEN "restart" ELSE "off") /\ UNCHANGED missed
       \/ /\ config' \in IF Answers THEN {config, Changed} ELSE {config}
          /\ \E answer \in {"False", "raised"} : Returns(answer)
    /\ KeepsTest /\ UNCHANGED <<need, unread, system, default>>

\* The command may be lost; whatever it raises is passed over.
RebootByCommand ==
    /\ pc = "restart"
    /\ host' \in IF host = "up" THEN {"up", "going"} ELSE {host}
    /\ Goes("ssh")
    /\ KeepsTest
    /\ UNCHANGED <<need, unread, missed, believes, running, loaded, loader>>

\* After a minute, the first answer is taken for the end of the reboot.
WaitForSSH ==
    /\ pc = "ssh"
    /\ \/ Answers /\ Goes("recheck") /\ UNCHANGED missed
       \/ Returns("False")
    /\ KeepsTest /\ UNCHANGED <<need, unread, system, loader>>

\* goto_state(OFF), goto_state(OS); three tests begin with them.
InstallsFirst == kind \in {"install", "kexec", "boot"}

GotoOFF ==
    /\ pc = "off"
    /\ \/ GoesOff /\ Goes("on") /\ UNCHANGED missed
       \/ /\ Gives
          /\ IF InstallsFirst THEN Ends("failed") /\ UNCHANGED missed
                              ELSE Returns("raised")
    /\ KeepsTest /\ UNCHANGED <<need, unread, loader>>

GotoOS ==
    /\ pc = "on"
    /\ \/ /\ Reaches
          /\ Goes(IF InstallsFirst THEN "make" ELSE "recheck") /\ UNCHANGED missed
       \/ /\ Gives
          /\ IF InstallsFirst THEN Ends("failed") /\ UNCHANGED missed
                              ELSE Returns("raised")
    /\ KeepsTest /\ UNCHANGED <<need, unread, loader>>

Recheck ==
    /\ pc = "recheck"
    /\ \/ Answers /\ Returns(IF Lacking = {} THEN "True" ELSE "False")
          /\ UNCHANGED unread
       \/ unread' = TRUE /\ Returns("True")
       \/ UNCHANGED unread /\ Returns("raised")
    /\ KeepsTest /\ UNCHANGED <<need, system, loader>>

-----------------------------------------------------------------------------
\* OpTestKuepKuap

KeepsUpdate == UNCHANGED <<left, kind, update, round, bisect>>

\* get_current_cmdline() answers nothing when it fails.
Verify ==
    /\ pc = "verify"
    /\ \/ Answers /\ Arg \in running.args /\ unread' = FALSE /\ Goes("lkdtm")
       \/ Ends("failed") /\ UNCHANGED unread
    /\ KeepsUpdate /\ UNCHANGED <<missed, misjudged, ran, system, loader>>

\* The arguments stay where they are when the module is not there.
LoadLkdtm ==
    /\ pc = "lkdtm"
    /\ (Answers /\ Goes("crash")) \/ Ends("skipped")
    /\ KeepsUpdate /\ UNCHANGED <<history, system, loader>>

\* Any exception is a fault, the console's own as well; the fault may take the
\* machine along.
TriggerCrash ==
    /\ pc = "crash"
    /\ ran' = running /\ unread' = (unread \/ ~Answers)
    /\ host' \in IF Answers THEN {host, "booting"} ELSE {host}
    /\ \E s \in {"remove", "undo"} : Wants(s, {}, {Arg})
    /\ Goes("check")
    /\ UNCHANGED <<left, kind, byCommand, round, bisect, missed, misjudged,
                   believes, running, loaded, loader>>

StillThere == Answers /\ Arg \in running.args

Cleaned ==
    /\ pc = "cleaned"
    /\ \/ StillThere /\ Ends("failed") /\ UNCHANGED unread
       \/ Answers /\ ~StillThere /\ Ends("passed") /\ UNCHANGED unread
       \/ unread' = TRUE /\ Ends("passed")
    /\ KeepsUpdate /\ UNCHANGED <<missed, misjudged, ran, system, loader>>

\* DlparMemHotplug.runTest(): there is nothing that cleans up after a failure.
Hotplug ==
    /\ pc = "hotplug"
    /\ \/ /\ Answers /\ round < Len(Settings)
          /\ round' = round + 1
          /\ Wants("add", {Settings[round + 1]}, {}) /\ Goes("check")
       \/ /\ Answers /\ round = Len(Settings)
          /\ Wants("remove", {}, {Settings[round]}) /\ Goes("check")
          /\ UNCHANGED round
       \/ Ends("failed") /\ UNCHANGED <<stage, add, remove, need, round>>
    /\ UNCHANGED <<left, kind, byCommand, bisect, history, system, loader>>

-----------------------------------------------------------------------------
\* git bisect, and what the tests take a commit for.

KeepsLoader == UNCHANGED loader
KeepsArgs == UNCHANGED <<left, kind, update, culprit, unread, missed, ran>>
NoMark == UNCHANGED <<round, good, bad, head, named, misjudged>>

IsBad(commit) == commit >= culprit

\* OpTestKernelTest names the commit it has just tested, good or bad, and its loop
\* goes on: the break ends the search in the log only.
Marks(isGood) ==
    /\ good' = IF isGood /\ named = 0 THEN head ELSE good
    /\ bad' = IF ~isGood /\ named = 0 THEN head ELSE bad
    /\ IF bad' > good' + 1
       THEN head' \in good' + 1 .. bad' - 1 /\ named' = 0
       ELSE UNCHANGED head /\ named' = IF kind = "boot" THEN head ELSE bad'
    /\ IF named' # 0 /\ kind # "boot" THEN Ends("passed") ELSE Goes("make")

\* The judgement of head is one of head.
Judges(isGood, justly) ==
    /\ Marks(isGood)
    /\ misjudged' = (misjudged \/ ~justly)
    /\ UNCHANGED round

\* The bisection of a head that does not build, or does not boot.
BeginsBisection ==
    /\ round' = 2 /\ head' \in good + 1 .. bad - 1 /\ Goes("make")
    /\ UNCHANGED <<good, bad, named, misjudged>>

Bisecting == kind # "boot" \/ round = 2
Raises == IF Bisecting THEN Ends("failed") /\ NoMark ELSE BeginsBisection

\* A build fails where the code is bad, or the disk full, or the time over; the
\* second counts as the first, and in the search for a boot as good.  What make
\* install installs may become the default.
Builds == kind \in {"install", "kexec", "perf", "boot"} \/ ~IsBad(head)

Make ==
    /\ pc = "make"
    /\ \/ /\ Answers /\ Builds /\ default' \in {default, head}
          /\ \/ kind \in {"install", "kexec"} /\ Goes("install") /\ NoMark
             \/ kind \in {"perf", "boot"} /\ Goes("kexec") /\ NoMark
             \/ kind = "build" /\ Judges(TRUE, TRUE)
       \/ /\ Answers /\ UNCHANGED default
          /\ \/ kind = "build" /\ Judges(FALSE, IsBad(head))
             \/ kind = "boot" /\ Bisecting /\ Judges(TRUE, ~IsBad(head))
       \/ Ends("failed") /\ NoMark /\ UNCHANGED default
    /\ KeepsArgs /\ UNCHANGED <<system, config>>

-----------------------------------------------------------------------------
\* kexec and reboot

Load(kernel) == loaded' = [kernel |-> kernel, args |-> running.args]

\* BisectKernel.boot_kernel(): an exception of the command is the kexec at work.
\* The one of OpTestKernelTest makes the running kernel the default first.
Kexec ==
    /\ pc = "kexec"
    /\ default' \in {default} \cup (IF Answers /\ kind = "boot"
                                   THEN {running.kernel} ELSE {})
    /\ \/ UNCHANGED <<host, loaded>>
       \/ Answers /\ Load(head) /\ host' \in {host, "jumping"}
    /\ Goes(IF kind = "perf" THEN "uname" ELSE "login") /\ NoMark
    /\ KeepsArgs /\ UNCHANGED <<believes, running, config>>

\* The new kernel becomes the default, or with --use-kexec the running one does.
Install ==
    /\ pc = "install"
    /\ \/ /\ Answers /\ Goes("exec")
          /\ \/ kind = "install" /\ default' = New /\ UNCHANGED loaded
             \/ kind = "kexec" /\ default' = running.kernel /\ Load(New)
       \/ default' \in {default, New} /\ Ends("failed") /\ UNCHANGED loaded
       \/ UNCHANGED <<default, loaded>> /\ Ends("skipped")
    /\ KeepsArgs /\ NoMark /\ UNCHANGED <<believes, host, running, config>>

\* OpTestKexec: load_kexec_kernel() and unload_kexec_kernel()
LoadKexecKernel ==
    /\ pc = "load"
    /\ \/ Answers /\ Load(running.kernel)
          /\ \/ Goes(IF kind = "exec" THEN "exec" ELSE "unload")
             \/ Ends("failed")
       \/ UNCHANGED loaded /\ Ends("failed")
    /\ KeepsArgs /\ NoMark /\ KeepsLoader /\ UNCHANGED <<believes, host, running>>

UnloadKexecKernel ==
    /\ pc = "unload"
    /\ \/ Answers /\ loaded' = NoSystem /\ Ends("passed")
       \/ loaded' \in {loaded} \cup (IF Answers THEN {NoSystem} ELSE {})
          /\ Ends("failed")
    /\ KeepsArgs /\ NoMark /\ KeepsLoader /\ UNCHANGED <<believes, host, running>>

\* The command on the console; it may reach no shell.
Exec ==
    /\ pc = "exec"
    /\ \/ UNCHANGED <<host, loaded>>
       \/ /\ Answers
          /\ \/ kind = "install" /\ host' = "going" /\ UNCHANGED loaded
             \/ kind \in {"kexec", "exec"} /\ loaded # NoSystem /\ host' = "jumping"
                /\ UNCHANGED loaded
             \/ kind = "loop" /\ Load(running.kernel) /\ host' = "jumping"
    /\ Goes("login") /\ NoMark
    /\ KeepsArgs /\ KeepsLoader /\ UNCHANGED <<believes, running>>

\* A login prompt on the console is the new kernel's; the kernel test also looks
\* for a warning of it, and takes an exception for a failed boot.
Warns == IsBad(running.kernel)

ExpectLogin ==
    /\ pc = "login"
    /\ \/ /\ Answers
          /\ \/ kind \in {"install", "kexec"} /\ Goes("uname") /\ NoMark
             \/ kind \in {"exec", "loop"} /\ Goes("reset") /\ NoMark
             \/ /\ kind = "boot" /\ Bisecting
                /\ Judges(~Warns, running.kernel = head)
             \/ /\ kind = "boot" /\ ~Bisecting
                /\ IF Warns THEN BeginsBisection
                   ELSE /\ Ends("passed") /\ misjudged' = (running.kernel # head)
                        /\ UNCHANGED <<round, good, bad, head, named>>
       \/ Raises
    /\ KeepsArgs /\ KeepsLoader /\ UNCHANGED system

\* InstallUpstreamKernel compares what runs with what it has built.
IsDefault == default = New
IsNew == running.kernel = New

Uname ==
    /\ pc = "uname"
    /\ \/ Answers /\ kind = "perf" /\ Goes("judge")
       \/ Answers /\ kind # "perf" /\ Ends(IF IsNew THEN "passed" ELSE "failed")
       \/ Ends("failed")
    /\ KeepsArgs /\ NoMark /\ KeepsLoader /\ UNCHANGED system

\* The script may say anything of a kernel that is none of the history's.
Judge ==
    /\ pc = "judge"
    /\ \/ /\ Answers
          /\ \E isGood \in IF running.kernel = 0 THEN BOOLEAN
                           ELSE {~IsBad(running.kernel)} :
                Judges(isGood, running.kernel = head)
       \/ Ends("failed") /\ NoMark
    /\ KeepsArgs /\ KeepsLoader /\ UNCHANGED system

\* execute_kexec_cmd() ends with set_state(UNKNOWN) and goto_state(OS), but in the
\* loop only closes the console.
Reset ==
    /\ pc = "reset" /\ UNCHANGED <<good, bad, head, named, misjudged>>
    /\ \/ /\ kind = "exec" /\ UNCHANGED round
          /\ \/ believes' = "OS" /\ Ends("passed")
                /\ \/ host = "up" /\ UNCHANGED <<host, running, loaded>>
                   \/ host' = "up" /\ running' = Powered /\ loaded' = NoSystem
             \/ believes' \in {"UNKNOWN", "BAD"} /\ Ends("failed")
                /\ host' \in {host, "off", "booting"} /\ UNCHANGED running
                /\ loaded' = IF host' = host THEN loaded ELSE NoSystem
       \/ /\ kind = "loop" /\ UNCHANGED system
          /\ IF round < Iterations THEN round' = round + 1 /\ Goes("exec")
                                   ELSE UNCHANGED round /\ Ends("passed")
    /\ KeepsArgs /\ KeepsLoader

-----------------------------------------------------------------------------
\* The machine.  A reboot enters a kernel that kexec has loaded.

GoesDown ==
    \/ host = "going"
       /\ host' = (IF loaded = NoSystem THEN "booting" ELSE "jumping")
       /\ UNCHANGED loaded
    \/ host = "up" /\ host' = "booting" /\ loaded' = NoSystem

ComesUp ==
    /\ host \in {"booting", "jumping"} /\ host' = "up"
    /\ running' = IF host = "jumping" THEN loaded ELSE Powered
    /\ loaded' = NoSystem

Machine ==
    /\ \/ GoesDown /\ UNCHANGED <<running, unread>>
       \/ ComesUp /\ unread' = (unread \/ pc \in {"change", "lkdtm", "crash"})
    /\ UNCHANGED <<left, pc, kind, update, round, bisect, outcome, missed,
                   misjudged, ran, believes, loader>>

OpTest ==
    \/ BeginTest \/ Setup
    \/ Check \/ Change \/ RebootByCommand \/ WaitForSSH \/ GotoOFF \/ GotoOS
    \/ Recheck
    \/ Verify \/ LoadLkdtm \/ TriggerCrash \/ Cleaned \/ Hotplug
    \/ Make \/ Install \/ Kexec \/ LoadKexecKernel \/ UnloadKexecKernel
    \/ Exec \/ ExpectLogin \/ Uname \/ Judge \/ Reset

Next == OpTest \/ Machine

\* Every command, wait and look of a test has a timeout; the machine owes
\* nothing.
Spec == Init /\ [][Next]_vars /\ WF_vars(OpTest)

-----------------------------------------------------------------------------
\* A test that passes passed on what it asked for: the arguments are, or are no
\* longer, those of the kernel that runs, the kernel it built runs, the commit it
\* names is the first bad one; whatever was loaded, crashed or came late before.
\* The exceptions: a command line that could not be read was taken for one, and a
\* commit was judged by a kernel that is another's or by a build that failed for
\* another reason.
PassedIsTrue ==
    [][outcome' = "passed" =>
          /\ kind = "arg" /\ ~unread' =>
                add \subseteq running.args /\ remove \cap running.args = {}
          /\ kind = "kuap" /\ ~unread' => Arg \in ran.args
          /\ kind \in {"install", "kexec"} => running.kernel = New
          /\ kind \in Bisections => named' = culprit \/ misjudged']_outcome

\* A test that passes has taken its arguments off the command line, unless an
\* update that failed was passed over or a command line was not read.
PassedLeavesArgs ==
    [][outcome' = "passed" /\ ~unread' =>
          /\ kind = "kuap" => Arg \notin config'
          /\ kind = "hotplug" /\ ~missed' => config' \cap Setting = {}]_outcome

\* All tests come to an end, whatever the machine does; but a search for a kernel
\* that does not boot goes on after it has named one.
Ended == (left = 0 /\ pc = "idle") \/ (kind = "boot" /\ named # 0)
TestsEnd == <>[]Ended
=============================================================================
