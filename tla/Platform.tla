------------------------------ MODULE Platform ------------------------------
(***************************************************************************)
(* Tests that move or reconfigure the machine themselves, one after        *)
(* another on one machine.  op-test knows where the machine is only from   *)
(* goto_state() and from what tests tell it by set_state(); what a test    *)
(* has changed stays, until somebody takes it back, the kernel that held   *)
(* it is gone, or the power is cycled.                                     *)
(*                                                                         *)
(* goto_state() is one step here (the module OpTestSystem has its parts):  *)
(* it arrives, or raises and leaves things as they are, or where it was on *)
(* its way.                                                                *)
(***************************************************************************)
EXTENDS Naturals, Sequences, FiniteSets

CONSTANTS
    Programs,           \* the tests: a function to what Scripts!Test() makes
    Volatile,           \* changes that the running kernel holds,
    Cured,              \* and those that a power cycle takes back
    Refusing,           \* and those with which the firmware may end a boot
    Careless,           \* the tests that move the machine and do not tell
    LeavesBehind,       \* what each test leaves changed when it passes
    Last,               \* how many tests a run has,
    Followers           \* of these all but the first

Skip == 1000

VARIABLES
    left, test, at, outcome,    \* the tests to run; the running one and its step
    state, stop,                \* op-test's OpTestSystem
    host, changed,              \* the machine, and what tests have changed on it
    found, knew                 \* history: what the test found changed, and
                                \* whether op-test was right when it began

vars == <<left, test, at, outcome, state, stop, host, changed, found, knew>>

Hosts == {"off", "ipl", "petitboot", "os", "rebooting", "halting"}
Up == {"petitboot", "os", "rebooting", "halting"}
States == {"UNKNOWN", "UNKNOWN_BAD", "OFF", "IPLing", "PETITBOOT",
           "PETITBOOT_SHELL", "BOOTING", "OS", "POWERING_OFF"}

Steps == Programs[test].steps
InTearDown == at >= Programs[test].tearDown
InBody == at >= Programs[test].body /\ ~InTearDown

\* What op-test believes is so.
Agrees(s, h) ==
    CASE s = "OFF" -> h = "off"
      [] s = "OS" -> h = "os"
      [] s \in {"PETITBOOT", "PETITBOOT_SHELL"} -> h = "petitboot"
      [] s \in {"IPLing", "BOOTING"} -> h \notin {"off", "halting"}
      [] s = "POWERING_OFF" -> h \in {"halting", "off"}
      [] OTHER -> TRUE

TypeOK ==
    /\ left \in 0 .. Last
    /\ test # "none" => test \in DOMAIN Programs /\ at \in 1 .. Len(Steps)
    /\ outcome \in {"none", "passed", "failed", "skipped"}
    /\ state \in States /\ stop \in BOOLEAN
    /\ host \in Hosts
    /\ knew \in BOOLEAN

Init ==
    /\ left = Last /\ test = "none" /\ at = 0 /\ outcome = "none"
    /\ state = "UNKNOWN" /\ stop = FALSE
    /\ host \in {"off", "petitboot", "os"}
    /\ changed = {} /\ found = {} /\ knew = TRUE

-----------------------------------------------------------------------------
\* unittest: setUp(), the test, tearDown().

BeginTest ==
    /\ test = "none" /\ left > 0 /\ left' = left - 1
    /\ test' \in IF left = Last THEN DOMAIN Programs ELSE Followers
    /\ at' = 1
    /\ outcome' = "none"
    /\ found' = changed /\ knew' = Agrees(state, host)
    /\ UNCHANGED <<state, stop, host, changed>>

EndsWith(how) == test' = "none" /\ at' = 0 /\ outcome' = how

\* The first outcome that is not a pass stays.
SoFar(how) == IF outcome = "none" THEN how ELSE outcome

GoesTo(i, how) ==
    IF i > Len(Steps) THEN EndsWith(IF how = "none" THEN "passed" ELSE how)
    ELSE at' = i /\ outcome' = how /\ UNCHANGED test

Leaves(how) ==
    IF at < Programs[test].body THEN EndsWith(how)
    ELSE IF InTearDown THEN EndsWith("failed")
    ELSE GoesTo(Programs[test].tearDown, SoFar(how))

KeepsTest == UNCHANGED <<left, found, knew>>
Runs(op) == test # "none" /\ Steps[at].op = op
Is(op) == Runs(op) /\ KeepsTest
Arg == Steps[at].arg

GoesOn == GoesTo(at + 1, outcome)
Raises ==
    \E e \in Steps[at].els :
        CASE e = 0 -> Leaves("failed")
          [] e = Skip -> Leaves("skipped")
          [] OTHER -> GoesTo(at + e, outcome)

Control ==
    /\ \/ Is("fails") /\ Raises
       \/ Is("fork") /\ (GoesOn \/ GoesTo(at + Steps[at].n, outcome))
       \/ Is("jump") /\ GoesTo(at + Steps[at].n, outcome)
       \/ Is("unless") /\ GoesTo(at + (IF Arg \in changed THEN 1 ELSE Steps[at].n),
                                 outcome)
       \/ Is("unlessin") /\ GoesTo(at + (IF Arg = state THEN 1 ELSE Steps[at].n),
                                   outcome)
    /\ UNCHANGED <<state, stop, host, changed>>

-----------------------------------------------------------------------------
\* goto_state()

\* What a boot, and a power cycle, leave of changes.
Booted(changes) == changes \ Volatile
Cycled(changes) == changes \ (Volatile \cup Cured)

HostOf(t) == CASE t = "OFF" -> "off" [] t = "OS" -> "os" [] OTHER -> "petitboot"
PETITBOOTs == {"PETITBOOT", "PETITBOOT_SHELL"}

Leaving(t, s) == s # t /\ ~(s \in PETITBOOTs /\ t \in PETITBOOTs)

\* From a belief s and a machine at h: run_<state>() does not touch the power, for
\* the machine is there, or believed to be.
Stands(t, s, h) ==
    \/ s = t /\ t # "PETITBOOT"
    \/ s = "PETITBOOT_SHELL" /\ t = "PETITBOOT"
    \/ s = "PETITBOOT" /\ t \in PETITBOOTs /\ h \in {"petitboot", "os"}
    \/ s = "UNKNOWN" /\ t # "OFF" /\ h = HostOf(t)
    \/ s \in {"IPLing", "OFF"} /\ t \in PETITBOOTs /\ h = "petitboot"
    \/ s = "BOOTING" /\ t = "OS" /\ h = "os"

\* The boot goes on, or begins with a reboot: typed before, or by run_REBOOT().
Boots(t, s, h) ==
    /\ t # "OFF"
    /\ \/ s = "OFF" /\ h \in {"off", "ipl", "rebooting", "petitboot"}
       \/ s = "IPLing" /\ h \in {"ipl", "rebooting", "petitboot"}
       \/ /\ s \in {"PETITBOOT", "BOOTING"} /\ t = "OS"
          /\ h \in {"ipl", "rebooting", "petitboot"}
       \/ s = "UNKNOWN" /\ h \notin {"off", "halting"}

\* The power goes off on the way.  POWERING_OFF waits for what was asked for.
PowerCycles(t, s, h) ==
    /\ Leaving(t, s)
    /\ s = "POWERING_OFF" => h \in {"halting", "off"}

\* The machine is at t, without its power having been touched.
StandsOrBoots(t) ==
    \/ Stands(t, state, host) /\ UNCHANGED <<host, changed>>
    \/ Boots(t, state, host) /\ host' = HostOf(t) /\ changed' = Booted(changed)

TakesForGranted(t) == state' = t /\ UNCHANGED <<stop, host, changed>>
Arrives(t) ==
    /\ state' = t /\ UNCHANGED stop
    /\ \/ StandsOrBoots(t)
       \/ PowerCycles(t, state, host) /\ host' = HostOf(t) /\ changed' = Cycled(changed)

\* The states, from s on, whose handler may raise: of the last one, or with the check
\* of the NVRAM after it, the state is t already.
Through(t, s) ==
    {"UNKNOWN", "UNKNOWN_BAD", "POWERING_OFF"}
      \cup (IF t = "OFF" THEN {} ELSE {"OFF", "IPLing", t})
      \cup (IF t \in PETITBOOTs THEN {"PETITBOOT"} ELSE {})
      \cup (IF s = "BOOTING" THEN {"OS"} ELSE {})

\* Where a machine that was at h may be then: a power-off is not heeded, or not yet;
\* a power-on fails, or its answer is lost; Hostboot shuts down, or what it logged
\* cannot be read; no shell answers.
HalfWay(s, h) ==
    CASE s \in {"UNKNOWN", "UNKNOWN_BAD"} -> Hosts
      [] s = "POWERING_OFF" -> {h, "halting", "off"}
      [] s = "OFF" -> {"off", "ipl"}
      [] s = "IPLing" -> {"off", "ipl", "petitboot"}
      [] OTHER -> {HostOf(s)}

\* The states in which the power goes off on the way from s: without an answer
\* op-test stays in them.
PoweringOff(t, s) ==
    CASE s \in {"OS", "PETITBOOT_SHELL"} -> {s}
      [] s \in {"IPLing", "PETITBOOT"} /\ t = "OFF" -> {s}
      [] s = "BOOTING" /\ t # "OS" -> {"OS"}
      [] OTHER -> {}

\* What is left of a goto_state() that raised: what op-test believes, and where the
\* machine is.
GivenUp(t, s, h) ==
    {p \in States \X Hosts :
        \/ p[1] \in Through(t, s) /\ p[2] \in HalfWay(p[1], h)
        \/ p[1] \in PoweringOff(t, s) /\ p[2] \in {"halting", "off"}}

\* What the way from h to m takes back at least.
Kept(changes, h, m) ==
    IF m \in {h, "halting", "rebooting"} THEN changes
    ELSE IF m = "off" THEN Cycled(changes) ELSE Booted(changes)

\* A reached limit and a crash seen stop op-test; a power-off that raises does not.
GivesUp(t) ==
    /\ Leaving(t, state)
    /\ \E p \in GivenUp(t, state, host) : state' = p[1] /\ host' = p[2]
    /\ stop' \in IF state' \in {"UNKNOWN", "UNKNOWN_BAD"} THEN BOOLEAN ELSE {stop}
    /\ changed' \in {Kept(changed, host, host'), Cycled(changed)}

\* Detection does not ask whether op-test has stopped, and may reboot.
Detects(t) ==
    /\ stop /\ state = "UNKNOWN" /\ UNCHANGED stop
    /\ \/ t # "OFF" /\ state' = t /\ StandsOrBoots(t)
       \/ /\ t # "OFF" /\ host \in {"petitboot", "os"} /\ host' = "rebooting"
          /\ UNCHANGED <<state, changed>>

GotoState ==
    /\ Is("goto")
    /\ \/ ~stop /\ Arrives(Arg) /\ GoesOn
       \/ ~stop /\ GivesUp(Arg) /\ Raises
       \/ Detects(Arg) /\ Raises
       \/ UNCHANGED <<state, stop, host, changed>> /\ Raises

SetState ==
    /\ \/ Is("tells") /\ state' = Arg /\ UNCHANGED stop
       \/ Is("unstop") /\ stop' = FALSE /\ UNCHANGED state
    /\ GoesOn /\ UNCHANGED <<host, changed>>

-----------------------------------------------------------------------------
\* Commands: over the console, ssh, or to the BMC; "any" is whatever answers.

Reaches(way, h) ==
    CASE way = "console" -> h \in Up
      [] way = "ssh" -> h \in Up \ {"petitboot"}
      [] way \in {"bmc", "any"} -> TRUE

Run ==
    /\ Is("runs")
    /\ (Reaches(Arg, host) /\ GoesOn) \/ Raises
    /\ UNCHANGED <<state, stop, host, changed>>

\* A command that fails has done its work, or not.
Changes(to) ==
    /\ \/ changed' = to /\ (GoesOn \/ Raises)
       \/ UNCHANGED changed /\ Raises
    /\ UNCHANGED <<state, stop, host>>

Change ==
    \/ Is("sets") /\ Reaches(Steps[at].way, host) /\ Changes(changed \cup {Arg})
    \/ Is("clears") /\ Reaches(Steps[at].way, host) /\ Changes(changed \ {Arg})
    \/ /\ Is("sets") \/ Is("clears")
       /\ ~Reaches(Steps[at].way, host) /\ Raises /\ UNCHANGED <<state, stop, host, changed>>

Check ==
    /\ Is("checks")
    /\ (Arg \notin changed /\ GoesOn) \/ Raises
    /\ UNCHANGED <<state, stop, host, changed>>

\* The power by way of the BMC; it refuses with an exception.
Powered(how, h) ==
    CASE how = "on" -> IF h = "off" THEN "ipl" ELSE h
      [] how = "off" -> "off"
      [] how = "soft" -> IF h = "ipl" THEN "off"
                         ELSE IF h \in {"petitboot", "os"} THEN "halting" ELSE h
      [] how = "cycle" -> IF h = "off" THEN h ELSE "ipl"
CutsPower(how, h) == how = "off" \/ (how = "cycle" /\ h # "off")

Power ==
    /\ Is("powers") /\ UNCHANGED <<state, stop>>
    /\ \/ UNCHANGED <<host, changed>> /\ Raises
       \/ /\ GoesOn /\ host' = Powered(Arg, host)
          /\ changed' = IF CutsPower(Arg, host) THEN Cycled(changed) ELSE changed

\* A BMC that restarts may apply the power policy it was given.
ResetBMC ==
    /\ Is("resets") /\ UNCHANGED <<state, stop, changed>>
    /\ \/ UNCHANGED host /\ Raises
       \/ /\ GoesOn
          /\ host' \in IF host = "off" /\ "policy" \in changed THEN {host, "ipl"}
                       ELSE {host}

\* What is typed may be lost; a checkstop asks nobody.
Obeys(op, h) == h \in IF op = "types" THEN {"petitboot", "os"} ELSE {"os"}
GoingTo(how) ==
    CASE how = "reboot" -> "rebooting" [] how = "off" -> "halting"
      [] how = "checkstop" -> "ipl"

Reboot ==
    /\ Is("types") \/ Is("commands")
    /\ \/ /\ Obeys(Steps[at].op, host)
          /\ host' = GoingTo(Arg) /\ (GoesOn \/ Raises)
          /\ changed' = IF Arg = "checkstop" THEN Booted(changed) ELSE changed
       \/ Runs("types") /\ UNCHANGED <<host, changed>> /\ GoesOn
       \/ UNCHANGED <<host, changed>> /\ Raises
    /\ UNCHANGED <<state, stop>>

\* The wait may end before; a host that goes down still answers a ping.
Shown(what, h) ==
    CASE what = "off" -> h = "off"
      [] what = "os" -> h = "os"
      [] what = "ping" -> h \in {"os", "rebooting", "halting"}
      [] what = "runtime" -> h \in Up
      [] what = "rebooting" -> h \in {"rebooting", "ipl"}
      [] what = "halting" -> h \in {"halting", "off"}

See ==
    /\ Is("sees")
    /\ (Shown(Arg, host) /\ GoesOn) \/ Raises
    /\ UNCHANGED <<state, stop, host, changed>>

\* A loop without end, until the machine does not answer a ping.
Online == Shown("ping", host)
Await == Is("awaits") /\ ~Online /\ GoesOn /\ UNCHANGED <<state, stop, host, changed>>

Command == Run \/ Change \/ Check \/ Power \/ ResetBMC \/ Reboot \/ See \/ Await

-----------------------------------------------------------------------------
\* The machine and the network, outside the repository.

\* HTX reboots a machine again and again that it was told to.
Machine ==
    /\ \/ host = "os" /\ "bootme" \in changed /\ host' = "rebooting" /\ UNCHANGED changed
       \/ host = "rebooting" /\ host' = "ipl" /\ changed' = Booted(changed)
       \/ host = "halting" /\ host' = "off" /\ changed' = Cycled(changed)
       \/ host = "ipl" /\ host' \in {"petitboot", "os"} /\ UNCHANGED changed
       \/ host = "ipl" /\ changed \cap Refusing # {} /\ host' = "off"
          /\ changed' = Cycled(changed)
    /\ UNCHANGED <<left, test, at, outcome, state, stop, found, knew>>

\* Three pings are lost on the way to a machine that would answer.
PingsLost == Is("awaits") /\ Online /\ GoesOn /\ UNCHANGED <<state, stop, host, changed>>

OpTest == BeginTest \/ Control \/ GotoState \/ SetState \/ Command
Next == OpTest \/ Machine \/ PingsLost

\* Every command of op-test, and every wait but one, has a timeout; that one sees when
\* the machine is gone, and nothing is promised of the machine or of the pings.
Spec == Init /\ [][Next]_vars /\ WF_vars(OpTest)
-----------------------------------------------------------------------------
Passes == test # "none" /\ test' = "none" /\ outcome' = "passed"

\* A test that passes leaves op-test knowing where the machine is, unless it is
\* one that moves the machine and does not tell, or the power policy of an earlier
\* one lets the BMC power on, or the HTX of an earlier one reboots the machine; and
\* unless it leaves a boot to the firmware, which may end it for what an earlier one
\* has left.
PassedKnows ==
    [][Passes /\ knew /\ test \notin Careless /\ found \cap {"policy", "bootme"} = {}
         => \/ Agrees(state', host')
            \/ state' \in {"IPLing", "BOOTING"} /\ found \cap Refusing # {}]_vars

\* What a test that passes has changed it has put back, but for what it is known
\* to leave; a configuration that it found changed it copies as the original.
PassedLeaves ==
    [][Passes =>
         changed' \subseteq found \cup LeavesBehind[test]
                       \cup {c \in {"backup"} : "kdumpconf" \in found}]_vars

\* All the tests come to an end, whatever the machine does, or one waits for ever for
\* a machine that HTX should reboot: it answers pings again and again.
Done == left = 0 /\ test = "none"
Ended == Done \/ Runs("awaits")
Answers == Done \/ Online
TestsEnd == <>[]Ended /\ []<>Answers
=============================================================================
