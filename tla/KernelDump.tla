----------------------------- MODULE KernelDump -----------------------------
(***************************************************************************)
(* The dump tests of an LPAR, one after the other: OptestKernelDump's      *)
(* setup_test(), kernel_crash() and verify_dump_file(), with the thread    *)
(* OpTestUtil.monitor_hmc_console() that each kernel_crash() starts and    *)
(* HMCConsole.connect() that it calls.  The thread shares two events with  *)
(* the test, and with every other such thread the console object and the   *)
(* virtual terminal of the LPAR, of which the HMC hands out one.           *)
(*                                                                         *)
(* A test is named by its number.  The number also names what the test     *)
(* starts: its monitor, the pty the monitor spawns, the watchdog it arms,  *)
(* the dump restart it asks for and the dump that its crash leaves.        *)
(***************************************************************************)
EXTENDS Naturals, FiniteSets

CONSTANTS
    Last,       \* the number of tests
    Kinds,      \* the crash_type the tests use
    Retries     \* max_retries of the monitor's connect

Tests == 1 .. Last
Nobody == 0

VARIABLES
    test,       \* the test that runs
    pc,         \* where it is
    kind,       \* the crash_type of each test
    content,    \* crash_content: the dumps the test knows to be old
    result,     \* what kernel_crash() did, until the next test
    found,      \* the dump verify_dump_file() was content with, until then
    host,       \* the LPAR
    cause,      \* the test whose trigger crashed it, until it reboots
    armed,      \* the watchdogs that run on it
    pending,    \* the dump restarts that the HMC has yet to make
    dumps,      \* /var/crash
    since,      \* the tests whose crash came since the test listed its dumps
    mpc,        \* the monitors
    tries,      \* their attempts to connect
    holds,      \* console_pty of each monitor
    stop,       \* stop_console events that are set
    ready,      \* ready_console events that are set
    seen,       \* what each monitor saw of a reboot
    pty,        \* HMCConsole.pty
    connected,  \* HMCConsole.state
    open,       \* the ptys that are alive
    vterm       \* the pty with the LPAR's virtual terminal

main == <<test, pc, kind, content, result, found>>
machine == <<host, cause, armed, pending, dumps, since>>
monitor == <<mpc, tries, holds, ready, seen>>
console == <<pty, connected, open, vterm>>
vars == <<main, machine, monitor, stop, console>>

Talking == {"clean", "list", "prepare", "check", "verify"}
Watching == {"deactivate", "connect", "open", "watch", "release"}

TypeOK ==
    /\ test \in 1 .. Last + 1
    /\ pc \in Talking \cup {"begin", "ready", "trigger", "over", "hung"}
    /\ kind \in [Tests -> Kinds \cup {"none"}]
    /\ content \subseteq Tests
    /\ result \in {"none", "refused", "setup", "console", "KDUMPKERNEL", "INVALID"}
    /\ found \in Tests \cup {Nobody}
    /\ host \in {"up", "down", "booting"}
    /\ cause \in Tests \cup {Nobody}
    /\ armed \subseteq Tests
    /\ pending \subseteq Tests
    /\ dumps \subseteq Tests
    /\ since \subseteq Tests
    /\ mpc \in [Tests -> Watching \cup {"none", "done"}]
    /\ tries \in [Tests -> 0 .. Retries - 1]
    /\ holds \in [Tests -> Tests \cup {Nobody}]
    /\ stop \subseteq Tests
    /\ ready \subseteq Tests
    /\ seen \in [Tests -> {"nothing", "reboot", "login"}]
    /\ pty \in Tests \cup {Nobody}
    /\ connected \in BOOLEAN
    /\ open \subseteq Tests
    /\ vterm \in Tests \cup {Nobody}

Init ==
    /\ test = 1
    /\ pc = IF Last = 0 THEN "over" ELSE "clean"
    /\ kind = [t \in Tests |-> "none"]
    /\ content = {}
    /\ result = "none"
    /\ found = Nobody
    /\ host = "up"
    /\ cause = Nobody
    /\ armed = {}
    /\ pending = {}
    /\ dumps = {}
    /\ since = {}
    /\ mpc = [t \in Tests |-> "none"]
    /\ tries = [t \in Tests |-> 0]
    /\ holds = [t \in Tests |-> Nobody]
    /\ stop = {}
    /\ ready = {}
    /\ seen = [t \in Tests |-> "nothing"]
    /\ pty = Nobody
    /\ connected = FALSE
    /\ open = {}
    /\ vterm = Nobody

\* A command over ssh fails whenever the LPAR is not up, and may fail then.
Reachable == host = "up"

\* The test is over, passed or not, and the next one begins, with its own list.
EndTest ==
    /\ test' = test + 1
    /\ content' = {}
    /\ pc' = IF test = Last THEN "over" ELSE "clean"

-----------------------------------------------------------------------------
\* setup_test()

\* A failure to remove the old dumps is not fatal.
Clean ==
    /\ pc = "clean"
    /\ \/ Reachable /\ dumps' = {}
       \/ UNCHANGED dumps
    /\ result' = "none"
    /\ found' = Nobody
    /\ pc' = "list"
    /\ UNCHANGED <<test, kind, content, host, cause, armed, pending, since,
                   monitor, stop, console>>

List ==
    /\ pc = "list"
    /\ \/ /\ Reachable
          /\ content' = dumps
          /\ since' = {}
          /\ pc' = "begin"
          /\ UNCHANGED test
       \/ EndTest /\ UNCHANGED since
    /\ UNCHANGED <<kind, result, found, host, cause, armed, pending, dumps,
                   monitor, stop, console>>

-----------------------------------------------------------------------------
\* kernel_crash()

\* The state the HMC gives of the LPAR lets the test start, or not.
Begin ==
    /\ pc = "begin"
    /\ \/ /\ \E k \in Kinds : kind' = [kind EXCEPT ![test] = k]
          /\ mpc' = [mpc EXCEPT ![test] = "deactivate"]
          /\ pc' = "prepare"
          /\ UNCHANGED <<test, content, result>>
       \/ /\ result' = "refused"
          /\ EndTest
          /\ UNCHANGED <<kind, mpc>>
    /\ UNCHANGED <<found, machine, tries, holds, ready, seen, stop, console>>

\* Whatever a command raises leaves kernel_crash(), and the monitor running.
Prepare ==
    /\ pc = "prepare"
    /\ \/ /\ Reachable
          /\ pc' = "ready"
          /\ UNCHANGED <<test, content, result>>
       \/ /\ result' = "setup"
          /\ EndTest
    /\ UNCHANGED <<kind, found, machine, monitor, stop, console>>

ConsoleReady ==
    /\ pc = "ready"
    /\ test \in ready
    /\ pc' = "trigger"
    /\ UNCHANGED <<test, kind, content, result, found, machine, monitor, stop,
                   console>>

StopsNothing == UNCHANGED stop
StopsMonitor == stop' = stop \cup {test}

\* ready_console.wait() is over: only a dump restart needs the console.
ConsoleLate ==
    /\ pc = "ready"
    /\ test \notin ready
    /\ \/ /\ kind[test] # "hmc"
          /\ pc' = "trigger"
          /\ UNCHANGED <<test, content, result, stop>>
       \/ /\ kind[test] = "hmc"
          /\ IF mpc[test] = "done" THEN UNCHANGED stop ELSE StopsMonitor
          /\ result' = "console"
          /\ EndTest
    /\ UNCHANGED <<kind, found, machine, monitor, console>>

\* The flags a monitor sets: crash_detected and boot_detected at the lines
\* of a crash as well as of a boot, for both name the kernel and a crash
\* (crashkernel), and login_prompt_detected at the prompt after them, if port
\* 22 is open by then.
KernelLines == [nothing |-> {"reboot"}, reboot |-> {"reboot"}, login |-> {"login"}]
LoginLines == [nothing |-> {"nothing"}, reboot |-> {"reboot", "login"}, login |-> {"login"}]

\* One of those that read the pty with the terminal gets the lines, if any.
Readers == {m \in Tests : mpc[m] = "watch" /\ holds[m] = vterm /\ vterm \in open}

Prints(lines) ==
    \/ UNCHANGED seen
    \/ \E m \in Readers : \E s \in lines[seen[m]] : seen' = [seen EXCEPT ![m] = s]

\* Processes, the watchdogs among them, end with the LPAR's kernel.
Crashes(t) ==
    /\ host' = "down"
    /\ cause' = t
    /\ since' = since \cup {t}
    /\ armed' = {}
    /\ Prints(KernelLines)

\* The trigger is sent, and every failure to send it ignored, that of a
\* command that the HMC has taken among them.
Trigger ==
    /\ pc = "trigger"
    /\ pc' = "check"
    /\ \/ /\ kind[test] = "echo_c"
          /\ Reachable
          /\ Crashes(test)
          /\ UNCHANGED pending
       \/ /\ kind[test] = "watchdog"
          /\ Reachable
          /\ armed' = armed \cup {test}
          /\ UNCHANGED <<host, cause, since, pending, seen>>
       \/ /\ kind[test] = "hmc"
          /\ pending' = pending \cup {test}
          /\ UNCHANGED <<host, cause, since, armed, seen>>
       \/ UNCHANGED <<host, cause, since, armed, pending, seen>>
    /\ UNCHANGED <<test, kind, content, result, found, dumps, mpc, tries, holds,
                   ready, stop, console>>

\* The first answer over ssh is taken for the end of the reboot.
SSHAvailable ==
    /\ pc = "check"
    /\ Reachable
    /\ StopsMonitor
    /\ result' = "KDUMPKERNEL"
    /\ pc' = "verify"
    /\ UNCHANGED <<test, kind, content, found, machine, monitor, console>>

\* max_wait_seconds are over; the monitor is not told.
SSHTimeout ==
    /\ pc = "check"
    /\ result' = "INVALID"
    /\ pc' = "verify"
    /\ UNCHANGED <<test, kind, content, found, machine, monitor, stop, console>>

\* verify_dump_file() looks into one of the directories that are new, and
\* removes it; an incomplete dump fails the test.
EveryDump == dumps
New == dumps \ content

Verify ==
    /\ pc = "verify"
    /\ EndTest
    /\ \/ /\ result = "KDUMPKERNEL"
          /\ Reachable
          /\ \E d \in New :
                /\ dumps' = dumps \ {d}
                /\ found' = d
       \/ /\ result = "KDUMPKERNEL"
          /\ Reachable
          /\ dumps' = dumps \/ \E d \in New : dumps' = dumps \ {d}
          /\ UNCHANGED found
       \/ UNCHANGED <<dumps, found>>
    /\ UNCHANGED <<kind, result, host, cause, armed, pending, since, monitor,
                   stop, console>>

-----------------------------------------------------------------------------
\* monitor_hmc_console() and HMCConsole.connect()

Goes(m, to) == mpc' = [mpc EXCEPT ![m] = to]

\* deactivate_lpar_console() is an rmvterm, which takes the terminal from
\* whoever has it; its failures are ignored.
Rmvterm == vterm' \in {vterm, Nobody}

Deactivate(m) ==
    /\ mpc[m] = "deactivate"
    /\ Rmvterm
    /\ Goes(m, "connect")
    /\ UNCHANGED <<main, machine, tries, holds, ready, seen, stop, pty,
                   connected, open>>

\* The count of the tries ends with the loop of which it is.
EndTries(m) == tries' = [tries EXCEPT ![m] = 0]
Connected(m) == Goes(m, "watch") /\ EndTries(m)

\* The cached pty is used again while it is alive.
Reuse(m) ==
    /\ mpc[m] = "connect"
    /\ connected
    /\ pty \in open
    /\ holds' = [holds EXCEPT ![m] = pty]
    /\ ready' = ready \cup {m}
    /\ Connected(m)
    /\ UNCHANGED <<main, machine, seen, stop, console>>

\* A broken or disconnected one is replaced, and the terminal freed again.
Connect(m) ==
    /\ mpc[m] = "connect"
    /\ ~(connected /\ pty \in open)
    /\ connected' = FALSE
    /\ pty' = m
    /\ open' = open \cup {m}
    /\ vterm' \in {vterm, Nobody} \ {m}
    /\ Goes(m, "open")
    /\ UNCHANGED <<main, machine, tries, holds, ready, seen, stop>>

\* mkvterm is typed into, and its answer read from, what self.pty then is.
Mkvterm(m) ==
    /\ mpc[m] = "open"
    /\ vterm = Nobody
    /\ pty \in open
    /\ vterm' = pty
    /\ connected' = TRUE
    /\ holds' = [holds EXCEPT ![m] = pty]
    /\ ready' = ready \cup {m}
    /\ Connected(m)
    /\ UNCHANGED <<main, machine, seen, stop, pty, open>>

LastTry(m) == tries[m] + 1 = Retries

MkvtermFails(m) ==
    /\ mpc[m] = "open"
    /\ connected' = FALSE
    /\ \/ LastTry(m) /\ EndTries(m) /\ Goes(m, "release")
       \/ ~LastTry(m) /\ tries' = [tries EXCEPT ![m] = @ + 1] /\ Goes(m, "deactivate")
    /\ UNCHANGED <<main, machine, holds, ready, seen, stop, pty, open, vterm>>

SawReboot(m) == seen[m] = "login"
Ended(m) == m \in stop \/ seen[m] = "login"

\* The monitor ends when it is told to, or when it saw the login prompt of
\* a reboot; it goes on after every error.  Its pty is closed, and then the
\* terminal freed, whoever has it by then.
WatchEnds(m) ==
    /\ mpc[m] = "watch"
    /\ Ended(m)
    /\ open' = open \ {holds[m]}
    /\ Goes(m, "release")
    /\ UNCHANGED <<main, machine, tries, holds, ready, seen, stop, pty,
                   connected, vterm>>

\* The thread's variables end with it.
Release(m) ==
    /\ mpc[m] = "release"
    /\ Rmvterm
    /\ Goes(m, "done")
    /\ holds' = [holds EXCEPT ![m] = Nobody]
    /\ seen' = [seen EXCEPT ![m] = "nothing"]
    /\ UNCHANGED <<main, machine, tries, ready, stop, pty, connected, open>>

-----------------------------------------------------------------------------
\* the LPAR

\* A command under way when the LPAR crashes may never get the exit status
\* it waits for without a timeout.
AtCommand == pc \in Talking \/ (pc = "trigger" /\ kind[test] # "hmc")

LateCrash(t) ==
    /\ Crashes(t)
    /\ pc' = pc \/ (AtCommand /\ pc' = "hung")
    /\ UNCHANGED <<test, kind, content, result, found, dumps, mpc, tries, holds,
                   ready, stop, console>>

WatchdogFires(t) ==
    /\ t \in armed
    /\ Reachable
    /\ LateCrash(t)
    /\ UNCHANGED pending

\* A dump restart takes effect in its own time, also on an LPAR that boots.
DumpRestarts(t) ==
    /\ t \in pending
    /\ pending' = pending \ {t}
    /\ LateCrash(t)

\* The capture kernel saves a dump, or fails to, and reboots.
DumpAndReboot ==
    /\ host = "down"
    /\ host' = "booting"
    /\ cause' = Nobody
    /\ dumps' = dumps \/ dumps' = dumps \cup {cause}
    /\ Prints(KernelLines)
    /\ UNCHANGED <<main, armed, pending, since, mpc, tries, holds, ready, stop,
                   console>>

BootsUp ==
    /\ host = "booting"
    /\ host' = "up"
    /\ Prints(LoginLines)
    /\ UNCHANGED <<main, cause, armed, pending, dumps, since, mpc, tries, holds,
                   ready, stop, console>>

-----------------------------------------------------------------------------
Main ==
    \/ Clean \/ List \/ Begin \/ Prepare \/ ConsoleReady \/ ConsoleLate
    \/ Trigger \/ SSHAvailable \/ SSHTimeout \/ Verify

Monitor(m) ==
    \/ Deactivate(m) \/ Reuse(m) \/ Connect(m) \/ Mkvterm(m)
    \/ MkvtermFails(m) \/ WatchEnds(m) \/ Release(m)

Host ==
    \/ DumpAndReboot \/ BootsUp
    \/ \E t \in Tests : WatchdogFires(t) \/ DumpRestarts(t)

Next == Main \/ Host \/ \E m \in Tests : Monitor(m)

\* The test and its monitors run, every wait of theirs has a timeout (but
\* for the one of a hung command); the LPAR may stay down.  Each of their
\* steps goes on to another place.
Fairness == WF_pc(Main) /\ \A m \in Tests : WF_mpc(Monitor(m))

Spec == Init /\ [][Next]_vars /\ Fairness

-----------------------------------------------------------------------------
Late == {"watchdog", "hmc"}

(* A test passes on a dump that came of a crash after it listed the old     *)
(* ones: its own crash, or one that a test before it asked the HMC or a     *)
(* watchdog for and that came late (setup_test, verify_dump_file).          *)
OwnDump ==
    found # Nobody =>
        /\ found \in since
        /\ found = test - 1 \/ (found < test - 1 /\ kind[found] \in Late)

(* What setup_test()'s comment has it clean up for, "for proper test        *)
(* isolation": no test passes on another's dump.                            *)
DumpIsolation == found # Nobody => found = test - 1

(* When its test is over, a monitor is on its way out, was told to stop, or *)
(* the LPAR did not answer: the failed command of the preparation, and the  *)
(* timeout of the SSH checks, forget it (kernel_crash).                     *)
OnlyFailuresForget ==
    \A t \in Tests :
        /\ t = test - 1
        /\ pc \in {"clean", "over"}
        /\ mpc[t] \in Watching
        /\ t \notin stop
        => result \in {"setup", "INVALID"}

(* The tests come to their end, unless a late crash meets a command that     *)
(* runs on the LPAR (run_command_direct waits for the status for ever), and  *)
(* a monitor that was told to stop does, wherever it is told.                *)
TestsEnd ==
    <>[](/\ pc = "over" \/ (pc = "hung" /\ \E t \in Tests : kind[t] \in Late)
         /\ \A m \in stop : mpc[m] = "done")
=============================================================================
