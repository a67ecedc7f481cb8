# A verification project for op-test

op-test drives OpenPOWER machines through their service processor: it powers a
machine on and off, watches its console while it boots, logs in to the boot
loader's shell (Petitboot) or to the operating system, and runs tests there.
Most of its code talks to something that may be slow, silent, or somewhere else
than op-test believes.  This directory holds TLA+ models of the parts whose
control is hard to test that way, the TLC runs that check them, and TLAPS
proofs of what matters most.

## 1. The system

### Components, their state and operations

| Component | State | Operations | Hard because |
|---|---|---|---|
| **System state machine** `common/OpTestSystem.py` | `state` (what op-test *thinks*), `stop`, `target_state`, `previous_state`, `PS1_set`/`SUDO_set`/`LOGIN_set`, `block_setup_term`, `detect_counter`, `never_rebooted`, two watermarks | `goto_state`, `set_state`, one handler `run_*` per state, `run_DETECT`, `run_REBOOT`, the boot waits and their callbacks | the machine moves on its own; every wait can time out, see a crash, or lose the console; retries re-enter the machine |
| **Console session** `common/OpTestSSH.py`, `OpTestIPMI.py` (`IPMIConsole`), `OpTestUtil.setup_term/set_PS1/try_recover` | pty, `ConsoleState`, the setup flags | `connect`, `close`, `get_console`, `run_command` | reconnects in the middle of a command, logins typed to firmware |
| **Console reader** `common/OPexpect.py` | failure callback | `expect` | each read may change the state machine's state through a callback |
| **SSH connection** `common/OpTestSSHConnection.py` | client, transport, `connected`, a lock | `connect`, `disconnect`, `is_alive`, `reconnect`, `execute_command` | threads share it; a command may hang or be lost half way |
| **Command executor** `common/OpTestCommandExecutor.py` | history | `run_command` with retries, async and parallel forms | retries of a command that may already have run |
| **SSH connection pool** `common/OpTestConnectionManager.py` | `connections`, `in_use`, ages, a lock, the monitor flag | get, release, close, clean-up, health monitor | users, monitor threads and dying sessions interleave; two locks |
| **Host** `common/OpTestHost.py` | ssh console, connection, executor | commands on the host | user of the three above |
| **HMC** `common/OpTestHMC.py` | `mg_system`, a console's `pty` and state | power, waits and migrations of a partition, its recovery, `mkvterm` consoles | the HMC does what it is asked in its own time; two queries make one look; one virtual terminal per partition |
| **OpenBMC** `common/OpTestOpenBMC.py` | REST session | image upload, activation, deletion, priority, waits | requests and answers are lost, sessions expire, the BMC reboots |
| **Other service processors** `OpTestIPMI`, `OpTestFSP`, `OpTestEBMC`, `OpTestBMC`, `OpTestASM` | sessions | power, boot device, sensors, waits | polling waits with timeouts |
| **Utilities** `common/OpTestUtil.py` | reservation ids, terminal flags, threads | reservations with the web services HostLocker and AES and their clean-up, login, prompt, sudo and recovery of a terminal, HMC console monitor, REST request loop | other op-tests contend for the host; a killed or interrupted run leaves its reservation |
| **Simulators** `OpTestQemu`, `OpTestMambo` | a process | start, stop, console | - |
| **Runner and configuration** `op-test`, `OpTestConfiguration.py`, `OpTestLogger.py` | options, suites, signal handlers | parse, wait for a reservation, run, clean up | a signal runs the clean-up in a handler, wherever the run is |
| **Installation** `common/OpTestInstallUtil.py` | the boot loader's entry on the machine | change the kernel's command line and reboot into it, install a distribution | what is configured and what runs differ until a reboot that comes late or not |
| **Tests** `testcases/` | - | what happens between two `goto_state()` calls | they move the machine behind the state machine's back |

### How they interact

A test calls `system.goto_state(S)`.  The state machine calls handlers; they
call the service processor (`sys_power_on`, `sys_power_off`, boot device,
standby wait) and read the console.  The console, when it connects, logs in and
sets a prompt unless `block_setup_term` says the machine is not up, and tracks
that in the same `PS1_set` the state machine clears.  `OPexpect.expect` calls
back into the system on a kernel or firmware crash and sets its state to
`UNKNOWN_BAD`.  Tests run commands on the console or on the host; the host has
a connection pool of its own, whose health monitor is a thread.

Before the tests, the configuration reserves the host with a web service that
other runs of op-test use too; the end of the run, or the handler of a signal,
gives it back.  A dump test on a partition starts a thread that watches the
partition's console through the HMC, shares two events with the test, and may
outlive it.  Tests of a partition call the HMC object directly and move the
partition behind the state machine's back; tests of firmware images send REST
requests through one loop that decides what to repeat.  Tests of kernels leave
something on the machine for a later boot: arguments in the boot loader's
entry, a kernel that is installed or loaded for kexec.  Tests of boots, of
firmware and of devices power, reboot or reset the machine themselves, tell the
state machine where it is, or do not, and change what later tests find.

### What makes each part correct

- State machine: it ends; it re-IPLs and reboots a bounded number of times; the
  state it reports is true; power is never applied where it would be lost;
  nothing is powered once `stop` is set; the console tracking tells the truth.
- Pool: one user per connection; none leaked, none closed under its user, none
  marked in use for ever; the manager's lock is only ever kept by a command.
- Connection and executor: a result belongs to the command asked for; a command
  runs at most as often as retries allow; a call ends unless a command hangs.
- Terminal: the flags that say a prompt is set are true; a command is typed once
  for each attempt and only on a line that was set up; calls end.
- Reservations: two runs never use a host at once unless a reservation ran out;
  what a run leaves behind is reported.
- Dump tests: a test passes on the dump of its own crash; monitors are told to
  stop, and stop.
- Partition and images: what op-test believes of power, place and version is so,
  or a test has failed.
- Kernel tests: a test that passes was made on the arguments and the kernel it
  asked for, a bisection names the first bad commit, arguments are taken off again.
- Tests that move or reconfigure the machine: one that passes leaves op-test
  knowing where the machine is, and takes back what it changed.
- Waits: they poll until the condition or the timeout, and report which.

The hazards, each at its line, are in `PROJECT.json`.

## 2. Plan

Done:

1. `OpTestSystem`, the state machine and the machine, with `OpTestSystem_proofs`.
2. `ConnectionPool`, with `ConnectionPool_proofs`.
3. `RemoteCommand`, what a call of the command executor promises, and
   `SSHCommands`, which implements it, with `SSHCommands_proofs`.
4. `Terminal`, one command on one console with its logins and recoveries, with
   `Terminal_proofs`.
5. `Reservation`, what a reservation of a host promises, and `HostLocker` and
   `AES`, which implement it, with `HostLocker_proofs` and `AES_proofs`.
6. `KernelDump`, the dump tests and their console monitor threads.
7. `LPAR`, tests on a partition behind an HMC, with `LPAR_proofs`, and `Flash`,
   updates of an OpenBMC machine.
8. `Kernels`, tests that choose what a machine boots.
9. `Platform`, tests one after another on one machine, with 201 tests written
   down in `PowerTests`, `PlatformTests`, `DumpTests`, `FirmwareTests` and
   `DeviceTests`.
10. `Suites_proofs`, about `Flash`, `Kernels` and `Platform` as `MCSuites` puts them
   together, and about `KernelDump`; `Footprint`, with which a proof about runs of
   any number of tests of `Platform` needs to look at each test only once.

Next:

11. `wait_for_it`: the loop, its last try, reconnects, and the outcome that
   `OpTestSystem` abstracts it to, as a refinement.
12. `run_commands_parallel`, `run_command_async`, and the test threads that share
   a console with a test.
13. `OPexpect`'s classification of failures; the VIOS.
14. An abstract specification of `goto_state` (told a target, it answers truly
    or gives up) that `OpTestSystem` implements; `Platform` has one such step.
15. The test scripts that are left.

## 3. The modules

Beside an operator that a property depends on stands, here and there, a variant of
it: `MatchesAny` beside `Matches`, `TypesAgain` beside `TypesOnce`.  A variant is a
plausible slip in the code it is about (a dropped guard, a count forgotten).  No
action uses it; put in the operator's place, it makes the property that guards this
code fail, which is how each property is tested.  `PROJECT.json` lists the pairs
under `mutants`.

### `OpTestSystem` (checked through `MCOpTestSystem`)

*Correspondence.*  The variables of the first block are the attributes of the
`OpTestSystem` object under their own names.  `PS1_set`, `SUDO_set` and
`LOGIN_set` are set and cleared together by the code on this path and are one
Boolean.  `pc` says where `goto_state()` is: `"idle"` between calls, `"detect"`
in `run_DETECT`, `"reboot"` in the wait of `run_REBOOT`, `"loop"` at the head of
the `while`, `"again"` before the second power-on of `run_OFF`, `"nvram"` in
`check_nvram_options`.  One action is one handler
call together with what `goto_state()` does after it (`Returns`: the clearing by
`previous_state`, the test for the target, the `never_unknown` stop).
`host`, `bootdev` and `prompt` are the machine: off, going down, IPLing, the
Petitboot countdown, its menu (the countdown cancelled), its shell, booting, up,
crashed.  `returned`, `ipls`, `spent`, `reboots`, `drift` are history the
properties read; no guard of an action of the code depends on them.

*The machine is free.*  It IPLs, autoboots, boots and stops at any speed or
never; with `MachineCrashes` it crashes anywhere; with `TestsMoveMachine` tests
reboot it, switch its power, tell op-test so by `set_state`, or do not.
`drift = "untold"` marks that somebody else moved it and op-test has not been
told; it is ended by detection, by UNKNOWN/UNKNOWN_BAD, by power-off and by
an observed standby.

*Power commands* go through IPMI, which takes every output without the text it
looks for as a failure (`OpTestIPMI.py:414`, `:432`), also when the BMC has acted
and only its answer is lost.  `PowersOff` and `RunOFF` may fail in both ways;
`drift = "lost"` marks that one failed and moved the machine, until op-test looks
or a power command is answered.  `run_OFF` tries a power-on twice
(`RunOFFAgain`); the second try may find the machine the first one started.

*Waits.*  `wait_for_it` and the console reads are modelled by their outcomes: a
timeout is always possible, a prompt only if it is there (`Shows`), a crash
callback only if the machine crashed.  `OPexpect`'s callback on any read is the
`UNKNOWN_BAD` alternative of each action that reads.

*Assumed, because the code on this path makes it so.*  Detection over ssh always
answers None behind a BMC (it calls `executor.execute`, which does not exist;
the AttributeError is caught).  `ipmi_wait_for_standby_state` never returns
`FW_PARAMETER`.  `detect_counter` is only compared with 2 and 3 and saturates
at 3.  A test that calls `set_state` tells the truth.

### `ConnectionPool` (checked through `MCConnectionPool`)

*Correspondence.*  `connections`, `in_use`, `lock`, `health_monitor_running` are
the manager's; `stale` is what `get_idle_time()` and `get_age()` compare to;
`session` is the ssh session.  Each operation takes the manager's lock in one
step (`Begins`, `MonitorWakes`) and finishes in another, whose guard is the
connection lock that `is_alive()` and `disconnect()` need and that a running
command holds (`Busy`).  Between the two other threads may start a command on
the connection, as in the code.  `Connects` is `OpTestSSHConnection.connect`
with its retries, under the manager's lock: it succeeds or raises.
`release_connection`, `close_connection` find their entry by the key, as
the code does, not by the connection.

*Abstractions.*  A user holds one connection at a time.  The session of a
connection on which an `SSHException` was raised counts as closed when the
connection is dropped (the client is collected with it).  `time` is the
nondeterministic ageing of a connection.

### `RemoteCommand` and `SSHCommands` (checked through `MCSSHCommands`)

*What is promised.*  `RemoteCommand` knows nothing of connections: a call has
its command run on the host at most `Retry + 1` times, gets one answer, is
told `"ok"` only if the latest run ended with 0, and gets a `"result"` only if
the command was run.

*Correspondence.*  `connected` is the connection's attribute; `client` stands for
`client` and `transport` (none, or one whose session is up or down); they differ
after an `SSHException`, which only clears `connected`.  `lock` is held from
`Enter` (the check of the session, and the reconnect if it is dead) to `Finish`,
or to the exception.  `attempts` is the local variable of the two retry
loops, which count it at different places (`Fails`, `Disconnected`, `Connect`).
`pc` of a call: `"call"` before `execute_command`, `"exec"` before
`exec_command`, `"wait"` in `recv_exit_status`, `"lost"` and `"relink"` before the
two halves of the executor's `reconnect()`, each of which takes the lock alone.
`answer` names what is returned or raised: `"failed"` is `SSHCommandFailed`,
`"disconnected"` `SSHSessionDisconnected`, `"unreachable"` `SSHConnectionFailed`.

*The host.*  It may have got the command when `exec_command` raises; it ends a
run with any status, or never: the command hangs, or its output, which nobody
reads before it has ended, has filled the channel's window.  `SessionDies`
happens at any time, or never.

*Abstractions.*  One thread makes one call.  `connect()` with its tries is one
step, under the lock as in the code.  Backoff times are left out.  The exit code of
a failure is not kept (the catch-all of `execute_command` overwrites it).

### `Terminal` (checked through `MCTerminal`)

*Correspondence.*  The flags are the code's: `flags` holds which of `PS1_set`
and `SUDO_set` are 1 (`LOGIN_set` is set and cleared with `PS1_set`), `own` and
`sysblock` are the two `block_setup_term`, `quiet` and `disable` are
`setup_term_quiet` and `setup_term_disable`.  `shadowed` says that `set_PS1()`
has assigned an integer to the names `set_system_setup_term` and its companions:
from then on nobody can reset a block with them.  `pc` is the function that
runs; since `get_console()`, `connect()` and `set_PS1()` are called from several
places, `from`, `via` and `who` are their return addresses.  `attempt`, `tries`
and `inner` are the counters of `run_command()`, of the connects and of the
recovery inside `set_PS1()`.

*The line.*  `line` is what is at the other end: a login prompt, the menu of
Petitboot, a shell with some prompt, or one of the two prompts op-test sets.  An
ssh console of a machine has a new shell for each connection; a SOL line, and
the console a BMC offers on port 2200, outlive their connections, and so does the
virtual terminal of a partition.  The console of an HMC (`Vterm`) looks for a
login and a prompt of its own before the setup, and keeps a pty whose session
has ended while its state says CONNECTED; a terminal that somebody else takes is
a session that has ended.  `Drops`,
`KernelDies`, `Reboots` and the state machine (`StateMachine`, which sets
`block_setup_term` and the state) act at any time between a caller's steps, or
between calls for those that the caller's own thread makes.

*Abstractions.*  Each `expect()` has the outcomes: a prompt that is there, a
timeout, the end of the pty, a crash callback.  The command's output and exit
code are left out.

### `Reservation`

The promise that both lock services share: a run tests only while the machine is
reserved for it, and only the run itself, or the end of its time, takes that
away.

### `HostLocker` (checked through `MCHostLocker`)

*Correspondence.*  `pc` is where a run is: the request for the host, the request
to lock it, the minute it waits, its setup, its tests, and the three requests
of `cleanup()` (find the lock, delete it, look whether it is gone).  `known` is
`hostlocker_user` not None; `tries` counts the minutes of `--locker-wait`;
`said` is what `cleanup()` told the user.  A request to lock is in `flight`
until the service processes it, so its sender can be interrupted, or give up,
before (`asked`).  `Signal` enters the clean-up from any place, as the handler
does, also before the user is known; `frame` is where it was.  `Killed` runs nothing.
`hostlocker_locked()` is not in a `try` of `cleanup()` (`OpTestUtil.py:380`): it
raises "unknown host" when its login fails, and a TypeError when it returned None
(`ConfirmRaises`).  In the handler that is raised in the interrupted frame, before
`os._exit()`, and the setup or the tests go on, the lock deleted (`escaped`).

*What the promise excepts*, each named where it happens: `lapsed` locks;
locks `taken` by a run of the same user, which `hostlocker_unlock()` cannot tell
from its own, or by one that a signal interrupted before it knew its user;
answers with a code `hostlocker_lock()` does not know, which it takes for a grant
(`OpTestUtil.py:986`; `Relying` leaves these runs out); and `escaped` runs.

*Abstractions.*  One host.  A run's name stands for its lock.  A failing request
of the clean-up and one whose answer is lost are the same outcome.  The clean-ups
after one that raised (op-test's `except` clause, `atexit`) are not counted.

### `AES` (checked through `MCAES`)

*Correspondence.*  `snap` is the answer to `aes_get_environments()` the run acts
on; `todo` what it has still to try; `env` and `res_id` are `lock_dict`'s.
`LockEnv` is `aes_lock_env()` with its five outcomes: an environment already the
user's is extended, or taken as it is, a free one is requested, another's is
skipped, and a reservation without an end fails before it is noted.
`handler` is the release in the signal handler of `op-test`, and `escaped` the
runs whose handler raised there and whose tests go on.

*Abstractions.*  The environments a search matches are a constant of the run.
Whether a wait ends is the service's affair: no fairness is assumed.

### `KernelDump` (checked through `MCKernelDump`)

*Correspondence.*  A test's number names its monitor thread, the pty the monitor
spawns, the watchdog it arms, the dump restart it asks the HMC for and the dump its
crash leaves.  `content` is `crash_content`, `found` the new entry
`verify_dump_file()` accepts, `stop` and `ready` the two events.  The monitor's
steps are those of `monitor_hmc_console()` and of `HMCConsole.connect()`: close the
old virtual terminal, spawn, `mkvterm`, retry, read, release.  `pty`, `connected`
are the console object that all monitors share; `vterm` is the one virtual terminal
the HMC hands out.

*The partition.*  It prints to whoever holds the terminal (`Prints`), dumps or does
not, and comes up in its own time or never.  `echo c` crashes it in the step of its
command; an armed watchdog fires, and a dump restart that the HMC has taken
(`pending`), answered or not, is made, at any later time, also under a later test
or never.  A crash that meets a command leaves it waiting for its status (`hung`).

*Abstractions.*  `is_lpar_up` by ssh answers what the partition is.  Only the
lines that the monitor's two patterns tell apart are kept.  The time between
`echo c` and the crash is left out; `since` is history, for `OwnDump` only.

### `LPAR` (checked through `MCLPAR`)

*Correspondence.*  `state`, `stop`, `watermark` are `OpTestSystem`'s, `mg` is
`mg_system` of the HMC object, `src` what a migration test noted as its source.  A
test is a sequence of calls (`Program`); a call is an operation `op` of the HMC at a
`step`, and each look at the partition is a step of its own: `LookAtState` asks for
the state, and for a running partition `LookAtRefcode` for the reference code, with
the partition free to move between the two.  `ErrorClears` is the wait of
`poweron_lpar()` for an Error state, `Waited` the bound of `wait_lpar_state()` and
`wait_system_state()`, `Validate` to `Recover` are the migrations and the recovery
of a failed one.  `Stopped`, `RunOS`, `RunPOWERINGOFF`, `RunOFF`, `Booted`,
`BootOverdue` are the handlers of `OpTestLPARSystem` with `goto_state()`.  `Decide`,
`Shutdown` and `Waited` are also `restart_lpar()` (and `dumprestart_lpar()`, which
differs in what it asks for only); `PowerSystem` and `LookAtSystem` switch the
managed system, `cec`, off and on.  `Prepare` is the start of the secure boot tests,
which catch what it raises; `OverSSH` a command to the partition; `Kick` the
power-on at the end of `CecSetup()`, which nobody waits for.

*The HMC and the partition* accept what they are asked (`asked`, `moving`) and
do it later, or never; the partition crashes; a query fails.  A system that goes
off takes its partition along.

*Abstractions.*  One partition and two systems.  Profiles and adapters are left out.
`goto_state()`'s console is not modelled here: a boot is seen or it times out.

### `Flash` (checked through `MCSuites`)

*Correspondence.*  `pc` is the call the test is in; a request that changes
something goes through `loop_it()`: `tries` are its rounds, `drained` says that a
round has read the file to upload to its end, so the next one sends nothing.
`Accepted`, `AnswerLost`, `NotAnswered`, `Refused`, `Unauthorized` are the ways
a round goes.  `image` is the Activation of each image, `staged` those in
`/tmp/images`, `priority` and `functional` what the BMC will run and runs.
`Reboot`, `PingFailCheck`, `PingFunc`, `WaitForBmcRuntime` are the BMC's reboot as
the test waits for it.

*The BMC* has an accepted upload in `uploads` until it unpacks it (`Unpacks`): the
directory and the object that `get_image_id()` and the test poll for
(`OpTestFlash.py:402`, `:147`) come at any later time, also under a later test, or
not before the BMC reboots, which loses them.  `others` is history: the images of
other tests that appeared since the running one emptied `/tmp/images` or listed
what to delete, or that it failed to remove.

*Abstractions.*  A request that only reads is one step, since repeated it reads
again.  An image is its purpose and version.  The host's power is left out.

### `Kernels` (checked through `MCSuites`)

*Correspondence.*  `pc` is the call the test is in, and `kind` says which test it
is: one of OpTestKernelArg (`"arg"`), OpTestKuepKuap, DlparMemHotplug,
InstallUpstreamKernel (`"install"`, or `"kexec"` with `--use-kexec`), of
OpTestKexec (`"exec"`, `"unload"`, `"loop"`), of BisectKernel (`"build"`,
`"perf"`), or OpTestKernelTest (`"boot"`).  `Check` to `Recheck` are
`update_kernel_cmdline()`; `Returns` is what each of its callers does with what
it returns or raises, and DlparMemHotplug ignores the first.  `need` is what the
command line was found to lack.  `Make`, `Kexec`, `ExpectLogin`, `Judge` are
the steps of a bisection, `Marks` git's part in it.  `Load` is `kexec -l`, with
the command line of the kernel that runs.  `unread`, `missed`, `misjudged`, `ran`,
`culprit` are history.

*The machine* runs a kernel (its commit) with arguments, boots `default` with
`config`, and enters what is `loaded` when it is rebooted by command.  It crashes
and comes up at any time; a reboot by command is lost or late.

*Abstractions.*  `goto_state()` is its outcome (`Reaches`, `Gives`); that told OS
in OS it looks at nothing is kept.  git bisect chooses any commit between its
marks.  The tests are run with what they need: `bisect_flag` set, a distribution
they know, no secure boot.

### `Scripts`, the five modules of tests, and `Platform` (checked through `MCSuites`)

`Scripts` is the vocabulary in which a test is written down: a sequence of steps,
each with the place (`els`) where the test goes on when the step raises.
`PowerTests`, `PlatformTests`, `DumpTests`, `FirmwareTests` and `DeviceTests` hold
the tests, an operator for each function of a test that does something to the
machine; `Platform` runs them.  `PlatformSuite` puts them together, with what is
known of them.

*Correspondence.*  Kept of a test are `goto_state()`, `set_state()` and
`stop = 0`; what powers, reboots, resets or crashes the machine; what changes it
and takes the change back; the waits until it is somewhere; `try`, skips, and
`tearDown`; and the branches that depend on what is changed.  `Runs(way)` stands for
all commands and assertions between two of these: it may raise, and must where
the machine cannot be reached by that way.  A command that fails has done its
work or has not.  `state` and `stop` are op-test's, `host` and `changed` the
machine's; `found` and `knew` are history.  `BeginTest`, `GoesTo`, `Leaves` are
unittest: a test that raises goes on in its `tearDown`, and a `setUp` that raises
ends it.

*goto_state()* is one step: it arrives (`Stands`, `Boots` or `PowerCycles` say from
which beliefs and machines that is possible, and what the way there does to the
changes), or raises, given up (`stop`) or half-way.  `GivenUp` are the beliefs and
places it may raise in, handler by handler, as `OpTestSystem` has them: a power-off
that is not answered, or still under way; a power-on that fails or whose answer is
lost; an IPL that Hostboot ends with a shutdown, or whose log cannot be read; a
shell that does not answer.  `Kept` says what the way there has taken back, and `Detects`
what a stopped `goto_state()` still does.

*The machine* goes on with a boot or a shutdown, and drops what the kernel
(`Volatile`) or the power (`Cured`) holds; with an image or an asserted
presence it may refuse to boot.  With `bootme` on, HTX reboots it again and again,
whatever test runs, until that is switched off.  A BMC that restarts may apply the
power policy it was given.  `Await` is the wait for the first of these reboots, a
loop over `itertools.count()` (`OpTestHtxBootme.py:203`): it ends when the machine
does not answer, or when pings are lost (`PingsLost`), or never.

*Footprint*, which extends `Platform`, has its steps once more without the tests
before: a configuration is a step, op-test's belief, the place of the machine, what
may be changed of what the test itself changes or asks for (`own`), and what it knew
when it began (`trust`; `"lost"` also where `bootme` was on).  `After` and
`MachineMoves` say where a configuration leads as long as nothing has failed, with
operators that `Platform`'s actions use as well (`Stands`, `Boots`, `Powered`,
`Shown`...); `stop` is left out, so that there are more ways than `Platform` has.
`Reached` sweeps once over the steps of a test, which only go forward, and `Bounds`
says that nothing leads out of what the sweep has found but a good end.  It models
nothing that `Platform` does not: it is what the proof of `PutsBack` goes by.

*What is known.*  `Leftovers` says of each test what it leaves behind when it
passes, `Careless` which tests move the machine and do not tell.  Both lists are
part of the properties and were found with them: each entry is needed, as
`ExceptionsAssumption`, which TLC evaluates on the footprint of each test, says.
Each test of `Careless` may pass on a machine as it should be and leave op-test
wrong about it, and each of `Leftovers` may leave all that it is said to.

*Abstractions.*  Loops run twice, but for the wait for HTX; tests that differ only in
the command they give are one; what the output of a command decides is a choice
(`Maybe`, `Either`).  Changes are names, not values.

## 4. The runs

| Run | Instance | Shows |
|---|---|---|
| `System_safety` | targets OS, PETITBOOT_SHELL; start UNKNOWN or OFF; crashes; tests move the machine; watermark 1, kill cord 2 | `TypeOK`, `StateAgrees`, `NoStalePrompt`, `ConsoleGate`, `StoppedNeverPowers`, `PowerOnTakes` (3.2 million states) |
| `System_petitboot` | all four targets, kill cord 3 | `ReIPLBound`, `DetectionReboots`, and `GotoTerminates` |
| `Pool_own` | two users with a key each, limit 1, three connections, two monitors | `TypeOK`, `NoneForgotten`, `HeldIsKept` |
| `Pool_lock` | two users of one key | `LockWaitsOnlyForCommands` |
| `SSH_calls` | two `run_command`, one `run_command_ignore_fail`, one retry | `TypeOK`, `KeepsPromise` (`SSHCommands` implements `RemoteCommand`), `NobodyCutsOff`, `CallsEnd` |
| `Terminal_calls` | an ssh console, a SOL line that may ask for a password and a partition's virtual terminal; one retry, two recoveries, one reconnect | `TypeOK`, `PromptTracked`, `UnreadyIsExcused`, `OncePerAttempt`, `CallsEnd` |
| `Terminal_blocked` | one ssh console; expected violation | `SetUpAgain` |
| `HostLocker_promise` | two users, one keeps the lock; one minute of waiting; signals at any moment, any code as an answer | `KeepsPromise` (`HostLocker` implements `Reservation`), `LeftBehindIsReported`, `WaitEnds` |
| `AES_promise` | two users and environments, one run looks for one of them, the other for either; reservations from before; one endless, one to be extended | `KeepsPromise` (for each environment), `LeftBehindIsReported` |
| `Dump_tests` | two tests of any crash type, the code's three tries to connect | `OwnDump`, `OnlyFailuresForget`, `DumpTestsEnd` (and every stopped monitor ends) |
| `LPAR_tests` | three tests of ten kinds; two looks per wait, kill cord one above the watermark | `TypeOK`, `OffIsOff`, `MisnamedIsReported`, `PassedLeavesAsFound`, `TestsEnd` |
| `Suite_tests` | either two flashes of both kinds, three versions, two rounds per request, two polls; or two kernel tests of eleven kinds, one argument, two settings, four commits, a loop of two; or any of the 201 tests of `PlatformSuite` and one of five after it; before it, the footprint of each of the 201 tests, from every belief and place of the machine and everything it asks for (`FootprintAssumption`) | `AllTypeOK`, `PassedIsFlashed`, `PassedIsTrue`, `PassedPutsBack`, `AllTestsEnd` |

*Bounds.*  The watermarks of the system are 100 and the kill cord 102 in the code;
only the distance to the kill cord matters to the control, and it is 1 or 2 here
(the proofs hold for any).  `goto_state()` is called any number of times in a
behaviour, no run bounds it.  One connection below the limit and one above it reach
every branch of the pool; a third connection is needed to replace one in use and
reconnect it.  Three calls let one reconnect while another runs a command and a
third waits for the lock; one retry reaches both ends of each retry loop.
Connection objects are symmetric (`ConnSymmetry`, only in a run whose properties
name none).  One recovery more than a single one, and one reconnect, reach both ends
of each loop of the terminal; calls are not bounded.  Two runs are enough for the
lock services, whose promise is about pairs; the proofs hold for any number.  Two
dump tests let a monitor outlive its test and meet the next one's; of two flashes
the second meets what the first has left or what appears late, the version it
flashes, that of another, or the old one; three partition tests reach the way back
of a migration after another has failed.  Of two kernel tests the second meets what
the first has left on the machine; four commits leave two to choose from, and
judgements of both kinds.  After each of the tests of `Platform` comes one of five
that what another has left matters to (`AfterAnother`: they restart the BMC, handle
an error of the machine, copy a configuration, are not told of reboots, or only stay
where they are); two tests are enough, for the properties speak of what one found
and what it left.  `Suite_tests` checks three modules at once: a behaviour is of one
of them, chosen at its start, and the others' variables stay as they are.

*Fairness.*  `OpTestSystem` assumes weak fairness of `Goto`, the steps of
`goto_state()`: each of its waits has a timeout.  `ConnectionPool` assumes that
a thread holding the manager's lock proceeds when it can; a running command need
not end, because `recv_exit_status()` has no timeout.  `SSHCommands` assumes
that a call goes on when it can, and not that a host finishes a command: `CallsEnd`
says that nothing but such a command, on a session that stays up, keeps a call.
`Terminal` and `HostLocker` assume that the caller's steps are taken, each being
an expect or a request with a timeout; `KernelDump` the same of the test and of
each monitor thread; `LPAR`, `Flash`, `Kernels` and `Platform` of op-test, every look
and round of which is counted.  The one wait that is not is the first of the HTX tests:
it goes on when the machine is seen to be gone, and not otherwise.  Nothing says that
HTX ever reboots the machine, so `AllTestsEnd` says that the tests end or one of them
waits there for ever, and then on a machine that answers again and again.  Nothing is
ever assumed of machine, partition, HMC, BMC, lock service or network, nor of the
tests between calls.

*Deadlock* is not checked where the system really stops: all runs over, all
tests done.

### What the violation shows

*Terminal_blocked*: when `set_PS1()` cannot log in, it blocks the setup and says
the flags will "get reset"; it does so by assigning to the names of the setters
(`OpTestUtil.py:1680`), which overwrites the methods.  The block of the console
stays 1, and every later command is typed at whatever prompt there is.

### Seen while modelling

The models contain the following too, without a run of their own; each can be
seen by stating the sentence as an invariant, or with the constant that is named.

- *System*: a power-off whose answer is lost leaves the state OS on a machine that
  is going down (`StateAgrees` says how wrong the state may be).  After a test
  reboots the machine and sets the state to UNKNOWN, `get_petitboot_prompt()`
  believes the `PS1_set` of the boot before (`OpTestSystem.py:1367`).  In its second
  phase detection answers PETITBOOT_SHELL although `check_kernel()` has just said
  that the OS runs (`:573`).  `run_REBOOT` swallows the exception of a crash, and
  detection overwrites the UNKNOWN_BAD of its callback (`:780`).  `goto_state()`
  detects before it looks at `stop` (`:376`).  It may return PETITBOOT in the shell,
  as `exit_petitboot_shell` swallows its second failure.
- *Pool*: after three `get_connection()` of one key, the release of the first
  connection frees the second one's entry, which is handed out again
  (`OpTestConnectionManager.py:234`).  `stop_health_monitor()` waits 5 s for a
  thread that sleeps 60, so two monitors may run (`:333`).  The limit is not a
  limit; `cleanup_all()` cannot close a replaced connection; a hung command
  blocks `get_connection()` of its key and with it the manager.
- *SSH commands* (`Hangs`): the `timeout` of `execute_command()`, "Command timeout
  in seconds" (`OpTestSSHConnection.py:285`), is not one of the command:
  `recv_exit_status()` waits without it (`:314`), and before anything is read.  A
  command that hangs, or that fills the channel's window and cannot exit, keeps
  its call for ever, and with the lock every other call on the connection.
- *HostLocker*: a signal between the handlers are set
  (`OpTestConfiguration.py:676`) and the user is known finds the lock by host
  alone (`OpTestUtil.py:1058`), and deletes another user's (`taken`).  A code that
  is none of four counts as a grant (`:986`), and the tests run without a lock.
  What `hostlocker_locked()` raises in the handler lets tests go on after their
  lock was deleted (`escaped`).
- *AES*: when the release raises in the signal handler (`op-test:160`), the
  tests that were interrupted may go on without the reservation (`escaped`).
- *Dump tests*: an armed watchdog, or a dump restart that takes longer than the two
  seconds it is given (`OpTestKernelDump.py:771`), crashes the partition under a
  later test, which passes on that dump (`OwnDump` allows it, `DumpIsolation`
  does not); the first answer to ssh after the trigger is taken for the end of a reboot that
  has not begun (`OpTestKernelDump.py:812`).  A connect that fails, or takes the
  terminal of another monitor, leaves a test unwatched.
- *Terminal*: a console on port 2200 has the line's flags, and its setup
  the prompt of the other kind, so a command's prompt is not found until the
  recoveries are used up; so it is on any ssh console where a command asks for a
  password, since `handle_password()` sets the console's prompt whatever the
  console is (`OpTestUtil.py:1966`).  `get_login_prompt()` of a partition's console, when it
  sees neither login nor prompt, sets all three flags "to cheat system"
  (`OpTestHMC.py:1625`): until the next boot clears them no setup is made, and
  every command runs into its timeout (`PromptTracked` excepts it, "unseen").
- *LPAR*: `cross_hmc_migration()` returns when the command does, and nobody asks
  whether the migration is over (`unchecked`); a power-on that raises after its
  command was sent leaves the state OFF while the partition starts (`blind`).
  `restart_lpar()` waits for Running and may see the Running of before
  (`OpTestHMC.py:348`); the next power-off may then find the partition off in
  the middle of its restart, and the state machine takes it for off while it
  comes up (`unwaited`).  `CecSetup()` sleeps 5 seconds after its power-on and
  returns (`MachineConfig.py:529`).
- *Kernels*: a command line that cannot be read counts as one that lacks nothing,
  so the update does nothing and succeeds (`OpTestInstallUtil.py:403`, `unread`).
  A kexec that fails is not noticed (`BisectKernel.py:207`;
  `OpTestKernelTest.py:195` only logs it): a commit is judged by the kernel
  of before (`misjudged`).  The search for a kernel that does not boot names the
  commit it has just tested, good or bad, and never ends (`:282`, `:285`); after
  it `badCommit` is not defined (`:292`).  `if (... for msg in err_msg)`
  (`:215`) is always true, so a build that fails always ends the script and the
  build bisection after it is never reached.  `Status.SKIP` does not exist
  (`BisectKernel.py:249`): a performance bisection fails at the first commit that does
  not build.  A KUAP test that is skipped, fails after its update, or is made on a
  console that does not answer (any exception is a fault) keeps its arguments,
  or passes.  The `tearDown` of DlparMemHotplug is a function of the module
  (`OpTestDlpar.py:361`) and never called.
- *Flash*: a BMC test that finds its image already active does not flash it, and
  passes without a look at what the BMC runs after its reboot (`OpTestFlash.py:247`).
  An upload that is unpacked only after the next test has emptied `/tmp/images`, or
  listed the host's images, is taken for that test's own if it is ready first, and
  the test passes on it (`others`; without it TLC finds `PassedIsFlashed` violated).
  An upload whose first round was unauthorized sends an empty body in the second.
- *Platform* (the entries of `Leftovers` and `Careless`): `setUp()` copies
  `kdump.conf` over its backup each time (`OpTestKernelDump.py:239`), so after a
  test that died half-way the changed file is restored for good; PassedPutsBack
  excepts it.  The fadump tests leave `fadump=on` in the command line, the
  multi-thread and parameter tests `/etc/sysconfig/kdump` changed, the watchdog
  tests a line in `fstab` (`:2677`); a huge page test only warns when its clean-up
  fails (`:1770`).  Reboots that nobody is told of (`OpTestRebootTimeout.py:60`,
  `ConsoleBug150765.py:73`, the power policy tests) leave a belief that the next
  `goto_state()` trusts.  The HMI tests leave the idle states and kdump off, and on
  a processor that is not listed they pass without an injection
  (`OpTestHMIHandling.py:519`).  The EEH tests never allow more freezes again
  (`OpTestEEH.py:441`).  `setUpClass()` of the PCI tests passes over every exception
  and goes to the OS, also when skiroot was asked for (`OpTestPCI.py:106`); two
  lists that differ stay in globals and fail every later comparison (`:278`).
  `teardown()` of the HTX tests is not unittest's (`OpTestHtxBootme.py:305`), so one
  that fails leaves HTX rebooting the machine under all tests after it; and one that
  HTX never reboots waits for ever (`:203`).  When the power-off on the way of
  `setUpClass()` to skiroot is made and not answered, its `goto_state(OS)` finds the
  state still OS and looks at nothing: `driver_bind` may pass on a machine going
  down.  An NVRAM update that fails passes where an earlier run has left the value
  (`OpTestNVRAM.py:79`).  The out-of-band boot device test ends at the floppy, the
  chassis test at always-off.  A firmware update that fails after
  `set_state(IPLing)` (`OpTestFlash.py:694`) leaves that belief and an image that
  the firmware may refuse; a test that calls no `goto_state()`, as
  VerifyOPALTrustedBoot outside trusted mode (`TrustedBoot.py:152`), then passes
  over a machine that is off.  The attempt to prove `PassedKnows` showed it; it
  excepts a boot that is left to the firmware with such an image, and `AfterAnother`
  has that test now.  `drivers loaded` is remembered across reboots
  (`OpTestSystem.py:1019`; not modelled).

## 5. The proofs

`OpTestSystem_proofs` proves, for every set of targets, every watermark and kill
cord and every machine:

| Theorem | States |
|---|---|
| `TypeCorrect` | `[]TypeOK` |
| `BoundedReIPL` | `[]ReIPLBound` |
| `BoundedDetection` | `[]DetectionReboots` |
| `StateIsTrue` | `[]StateAgrees` |
| `PowerOnComes` | `PowerOnTakes` |
| `StopRespected` | `StoppedNeverPowers` |
| `GateKept` | `[]ConsoleGate` |
| `PromptFlagTrue` | `[]NoStalePrompt` |

*Assumptions*: those the module names (`TargetsAssumption`,
`WatermarkAssumption`, `InitialStatesAssumption`, `EnvironmentAssumption`).

*Argument.*  `ReIPLBound` is not inductive: it says nothing of when the next
power-on may come.  `IPLAccount` adds it: what was `spent` is covered by what
the two watermarks have risen, and once a power-on is ahead of the re-IPLs
granted (`ipls > spent`) the state is IPLing, PETITBOOT, or BOOTING towards the
OS, from which only a granted re-IPL leads back to `run_OFF`.  `DetectAccount`
does the same for detection: while `never_rebooted` holds, the reboots are at
most the calls counted.  `Agreement` adds to `StateAgrees` that detection runs
only while the state is UNKNOWN or UNKNOWN_BAD, and the second power-on only in
OFF; from the belief in OFF, true or outdated by a power-on without an answer,
follows `PowerOnTakes`.  `Gate` adds to `ConsoleGate`
what `block_setup_term` is on the way: shut while detection runs, after a stop
and through OFF, IPLing and BOOTING.  `PromptKept` is the one exception to a
true `PS1_set` that the code has, and why it does no harm: a power-off repeated
from POWERING_OFF does not clear the flag, but the machine is stopping then, and
the next handler to return clears it.  Each lemma goes through `Next` action by
action; most actions change only a few conjuncts.

`SSHCommands_proofs` proves, for any number of calls and retries:

| Theorem | States |
|---|---|
| `TypeCorrect` | `[]TypeOK`, with the bound on the runs of each command |
| `PromiseKept` | `KeepsPromise`: every step is a step of `RemoteCommand` or stutters |
| `NobodyIsCutOff` | `NobodyCutsOff` |

*Assumptions*: `CallsAssumption`, `RetryAssumption`.  *Argument.*  `TypeOK` is
not inductive, since the run of an attempt is counted only later, and at
different places in the two loops.  `Budget` says when a run is not yet
counted: during the wait, and in `run_command()` until the lost session is up
again, where an attempt must be left.  `InLock` says that a call between its
check of the session and its result is the one that holds the lock; then
whoever takes the session away, which needs the lock, cuts nobody off.  The
other threads' part of the invariant is one lemma, `Others`.

`ConnectionPool_proofs` proves, for any set of users, keys, connections and
monitor threads:

| Theorem | States |
|---|---|
| `TypeCorrect` | `[]TypeOK` |
| `OneInside` | two threads are never inside the manager's lock at once |
| `NothingForgotten` | `[]NoneForgotten`, when keys have one user |
| `HoldersKeep` | `HeldIsKept`, when keys have one user |

*Assumptions*: those of the module and, for the last two, `OwnKeys`: no two
users ask for one key.  Without it both are false, as *Seen while modelling*
says; the run `Pool_own` has it too.  *Argument.*  The pool is keyed by user and
host, and the code finds a connection by its key, so the proof must say where
each connection is.  `PoolInv`: an entry has the key of its connection, a user
holds the entry of a key of its own, marked in use, and every open session has
an entry.  `StepInv` relates this to where a user is between taking the manager's
lock and giving it back: it connects only once its entry is gone.  `LockInv`,
that whoever is inside holds the lock, keeps two operations from mixing.

`Terminal_proofs` proves, for any consoles and any number of retries, recoveries
and reconnects:

| Theorem | States |
|---|---|
| `TypeCorrect` | `[]TypeOK` |
| `TypedOncePerAttempt` | `[]OncePerAttempt` |
| `UnreadyExcused` | `[]UnreadyIsExcused` |
| `PromptTracking` | `[]PromptTracked`, where `PromptsAgree` |

*Assumptions*: those of the module and, for the last, `PromptsAgree`: no console
on port 2200 and no password on an ssh console, the two cases of *Seen while
modelling* in which setup and command name different prompts, and the flags are
wrong.  *Argument.*  `Once` counts along the way: until the command is typed
again it was typed at most once for each attempt before, and the recovery of
`try_sendcontrol()`, which runs the same functions, never comes to type it.
`Excuses` says that whatever returns to the caller without a set-up line returns
with an excuse; a disabled setup must be quiet for that.  `Prompts` adds to
`PromptTracked` that the flags are not all set inside the setup, that `SUDO_set`
is never set alone, and at which places a prompt is the one that was just set.

`HostLocker_proofs` proves, for any set of runs, users and minutes:

| Theorem | States |
|---|---|
| `HostLockerTypeCorrect` | `[]TypeOK` |
| `HostLockerReserves` | `KeepsPromise`: every step is a step of `Reservation` or stutters |
| `HostLockerExclusive` | `[]Exclusive` |
| `HostLockerLeftBehind` | `[]LeftBehindIsReported` |

*Assumptions*: those of the module, no more: users may be the same, signals come
at any time and answers have any code, and the exceptions are in the statement,
run by run.  Each exception is needed: without it TLC finds the promise
broken.  *Argument.*  `Granted` says that a run that relies on its grant holds the
lock or has lost it to one of the named ends, and that an answer of success means
so too; `Asked` that no run uses the host, or is put back into its tests by its
handler, without an answer, so that no late answer makes it rely on a lock;
`FindsOwn` that the lock `hostlocker_unlock()` is about to delete is of the run that
deletes it, or one it mistakes for its own.  `RelyingMoves` is what each step does
to `Relying`.  `LeftBehindIsReported` needs only `Told`, which follows the three
requests of the clean-up.

`AES_proofs` proves, for any set of runs, environments and prior reservations:

| Theorem | States |
|---|---|
| `AESTypeCorrect` | `[]TypeOK` |
| `AESReserves` | `KeepsPromise`, for every environment |
| `AESLeftBehind` | `[]LeftBehindIsReported` |

*Assumptions*: those of the module and, for the second, `Distinct`: users differ.
*Argument.*  What a run acts on is old.  `Held` says that the environment a run tests
on, or is about to, is reserved for it or lapsed.  It needs `OwnOnly`: of what a run
read, only this lasts, that a reservation without an end it saw as its own still is;
and what it extends and releases is its own.  `Noted` says that a reservation that
was granted is in `res_id` or its answer is still to come.

`Suites_proofs` proves of `KernelDump`, for any number of tests and retries:

| Theorem | States |
|---|---|
| `DumpTypeCorrect` | `[]TypeOK` |
| `DumpIsOwn` | `[]OwnDump` |
| `DumpMonitorsTold` | `[]OnlyFailuresForget` |
| `DumpIsolated` | `[]DumpIsolation`, when all crashes come with their command |

*Assumptions*: `DumpAssumption` of `MCKernelDump`, which gives `KernelDump` names
that differ from those of the suites.  *Argument.*  `NotYet` says that a test asks for
no crash before its `kernel_crash()`, and that what is armed or pending came of a
test of such a kind.  All dumps there were when a test listed them are in `content`;
hence (`DumpOwned`) a new dump, and the cause of a crash, is of after the listing:
the test's own, or one asked for earlier that came late.

`LPAR_proofs` proves, for any tests, waits, limits and watermarks:

| Theorem | States |
|---|---|
| `TypeCorrect` | `[]TypeOK` |
| `BelievedOffIsOff` | `[]OffIsOff` |
| `NamedOrReported` | `[]MisnamedIsReported` |
| `PassedTestsTidy` | `[]PassedLeavesAsFound` |

*Assumptions*: those of the module.  *Argument.*  `Shape` says in which steps an
operation can be and what `goto_state()` may have called; with it `Effects` sorts
the steps of `Next` into a few classes by what they do to the calls that are left,
and most invariants need only these.

- `BelievedOffIsOff`.  `World` adds what the HMC still has to begin (`AskedOK`),
  what a look is worth after the partition has moved on (`SawOK`) and that a
  system that is dark has its partition off (`CecOK`).  `OrderOK` is needed since
  a migration in the state OFF would move the partition away: tests migrate only
  after a `goto_state(OS)` and go nowhere else before they are over.
- `NamedOrReported`.  `CrossOK`: a cross-HMC migration, which does not change
  `mg_system`, has one back still to come.
- `PassedTestsTidy`.  Whatever a test takes down or moves away, the rest of its
  calls brings back (`PlanOK`, from the calls of each test), also when the start
  of a secure boot test was caught (`TryOK`); a test that switches a system off
  has its partition off by then (`SysOK`).  Then the HMC object comes home
  (`HomeOK`) and the systems come up (`SystemsOK`).  For the partition the proof
  must know of every shutdown that was accepted and not begun that somebody waits
  for it or shuts down again (`FallsOK`); only then what a power-on saw running
  runs (`SeenOK`), and a partition whose state is OS runs or will be powered on
  (`UpOK`).

`Suites_proofs` proves of `Flash`, `Kernels` and `Platform`, for any number of tests
of each, any versions, requests and polls, any history of commits, settings of
memory hotplug and rounds of the kexec loop:

| Theorem | States |
|---|---|
| `TypeCorrect` | `[]AllTypeOK` |
| `FlashedIsPassed` | `PassedIsFlashed` |
| `KernelsTrue` | `PassedIsTrue`: what a passing test says, and what it leaves on the command line |
| `PutsBack` | `PassedPutsBack`: what a passing test leaves changed, and that op-test knows where the machine is, after any tests in any order |

*Assumptions*: those of `Flash`; `KernelsAssumption`: a bisection has two commits, and
the settings are different, as those of `test_settings` are (`OpTestDlpar.py:336`);
`PlatformAssumption`: the tests of `PlatformSuite` are sequences of steps with
arguments that `Platform` knows; and, of `PutsBack` alone, `FootprintAssumption`: what
the sweep finds of a test `Bounds` it.  The last two speak of the 201 tests and of no
parameter; TLC evaluates them on each (`Suite_tests`).  *Argument.*
The suites share no variable, so a step of one is a step of its module and leaves
the others alone (`AllNextMoves`); the invariant is that of the three together.

- `FlashedIsPassed`.  What the test flashes is named by what it found: `OnlyOwn`
  says that from the sweep to the upload of a PNOR image no other is left but
  those on the list to be deleted, and `OnlyStaged` that since `/tmp/images` was
  emptied nothing can become active but the test's own image and those that
  appeared since (`Alike`), though the one that was picked may be an earlier test's;
  `StillActive` that nothing makes an active image inactive under a BMC test.
- `KernelsTrue`, what a test says.  `BisectInv`: until a commit is judged by
  something else the first bad one is between the marks; `head` moves only between
  them, so a mark moves to a commit that was rightly judged.  `LookedInv`: what an
  update goes by is what the command line lacks, until the machine comes up again.
  `FaultedInv`: the fault of OpTestKuepKuap was made on the argument.
- `KernelsTrue`, what it leaves.  The update that removes the argument changes nothing where
  the running system lacks it, so the proof must know that the boot loader then
  lacks it as well: `FaultedInv` says so of OpTestKuepKuap, and `PluggedInv` of
  DlparMemHotplug, whose settings follow one another: the system that runs has
  the setting of the round before, or was booted with what the boot loader has
  now.  It has to except the first of several rounds, in which the settings of
  an earlier test that failed may still be there: they go with the second, since
  a setting replaces all others (`SystemInv`: never two at once), and a round that
  is the only one has no other settings to find.
  `SystemInv` also relates what kexec has loaded to the command line it was loaded
  on, for that is what a reboot may enter.
- `PutsBack`.  What earlier tests have changed may be anything, and decides of the
  way of a test only where it asks for it (`unless`, the power policy, the image
  that is refused).  `InFootprint`: as long as nothing has failed, a test is in one
  of the configurations of its footprint for what it found and asks for, and all
  that is changed is what it found and does not ask for, or is the configuration's
  `own`; if op-test knew when the test began, and it found no `bootme`, the
  configuration is not `"lost"`, and `"refused"` only if such an image was found.
  Each action of `Platform` leads to a configuration of `After` (a lemma for each:
  `GotoStateKeeps`, `PowerKeeps`...), the machine's to one of `MachineMoves`, so by
  `Bounds` to the footprint again or to a good end.  A `goto_state()` that raises
  without being caught ends in failure whatever it did, so only the places where it
  is caught need `GivenUp`; a test that has failed does not pass any more
  (`FailedKeeps`).

TLC checked the invariants of `Flash` and `Kernels` on the bounds of `Suite_tests`, those of
the kernels with one and three settings too, before they were proved.

*Only model-checked*: what a proof cannot do here, the sweep of each test of
`Platform`, whose steps TLC goes through (`FootprintAssumption`); and all liveness
(`GotoTerminates`, `LockWaitsOnlyForCommands`, `CallsEnd`, `WaitEnds`,
`TestsEnd`, `DumpTestsEnd`, `AllTestsEnd`), which the prover does not handle here.

## 6. Not modelled

Listed with reasons in `PROJECT.json`: the Qemu and Mambo branches of the state
machine, the service processors' command wrappers, the simulators, Cronus, the
installation of distributions, the options, the logger.  Most of `testcases/` is sequences of
commands whose outputs are compared, with no control of their own beyond what
the modules above have; the tests with control of their own that are modelled
are the dump, migration, flash, kernel and platform tests.  Of the scripts of
`Platform` the values that a command writes or prints are not modelled, so
that a test's assertion on them is right is not shown.  Tests not read yet:
OpTestHostboot, OpTestIPMIReprovision, IpmiTorture, testRestAPI,
DeviceTreeValidation, LightPathDiagnostics, Crashtool, PciSlotLocCodes, and the
small Opal and Petitboot ones.  What a later module will take up is
in the plan.
