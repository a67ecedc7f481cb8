---------------------------- MODULE OpTestSystem ----------------------------
(***************************************************************************)
(* The state machine of common/OpTestSystem.py: goto_state(), the handlers *)
(* run_OFF .. run_POWERING_OFF it dispatches to, and run_DETECT(), driving *)
(* a machine that moves on its own while op-test only THINKS it knows      *)
(* where it is.  This is the system behind a BMC (class OpTestSystem); the *)
(* detection over ssh answers None there, so only the console is modelled. *)
(*                                                                         *)
(* One action is one handler call together with the code goto_state() runs *)
(* after it.  A wait (wait_for_it) ends in any way the console allows: a   *)
(* timeout is always possible, a prompt is seen only if it is there.       *)
(***************************************************************************)
EXTENDS Naturals

CONSTANTS
    Targets,            \* the states tests pass to goto_state()
    InitialWatermark,   \* ipl_watermark and booting_watermark at the start
    KillCord,           \* kill_cord, the ceiling of both watermarks
    InitialStates,      \* host_state of the configuration: where op-test starts
    MachineCrashes,     \* TRUE: the machine may crash on its own
    TestsMoveMachine    \* TRUE: tests reboot or power the machine themselves

OpSystemState == {"UNKNOWN", "OFF", "IPLing", "PETITBOOT", "PETITBOOT_SHELL",
                  "BOOTING", "OS", "POWERING_OFF", "UNKNOWN_BAD"}

ASSUME TargetsAssumption ==
    Targets \subseteq {"OFF", "OS", "PETITBOOT", "PETITBOOT_SHELL"}
ASSUME WatermarkAssumption ==
    /\ InitialWatermark \in Nat /\ KillCord \in Nat
    /\ InitialWatermark <= KillCord
ASSUME InitialStatesAssumption == InitialStates \subseteq OpSystemState
ASSUME EnvironmentAssumption ==
    MachineCrashes \in BOOLEAN /\ TestsMoveMachine \in BOOLEAN

VARIABLES
    \* the OpTestSystem object
    state, stop, target, previous_state,
    PS1_set,            \* PS1_set, SUDO_set and LOGIN_set, set together: = 1
    block_setup_term, detect_counter, never_rebooted,
    ipl_watermark, booting_watermark,
    \* where goto_state() is: not running, in run_DETECT, in the wait of
    \* run_REBOOT, at the head of its loop, before run_OFF's second power-on,
    \* in check_nvram_options
    pc, never_unknown,
    \* the machine: where it is, its boot override, and whether the shell it
    \* shows on the console is one op-test has logged in to and set up
    host, bootdev, prompt,
    \* history: how the last goto_state() ended, power-ons and re-IPLs granted
    \* in the current one, reboots of all detections, and whether the machine
    \* moved without op-test's knowledge: on its own or by a test ("untold"),
    \* by a power command of op-test's that had no answer ("lost"), and in
    \* either case "told" once op-test knows
    returned, ipls, spent, reboots, drift

tracking == <<previous_state, PS1_set>>
detection == <<detect_counter, never_rebooted>>
watermarks == <<ipl_watermark, booting_watermark>>
machine == <<host, bootdev, prompt>>
history == <<ipls, spent, reboots>>
vars == <<state, stop, target, tracking, block_setup_term, detection,
          watermarks, pc, never_unknown, machine, returned, history, drift>>

HostStates == {"off", "stopping", "ipl", "countdown", "menu", "shell",
               "boot", "os", "crashed"}

TypeOK ==
    /\ state \in OpSystemState
    /\ previous_state \in OpSystemState \cup {"None"}
    /\ target \in Targets \cup {"None"}
    /\ pc \in {"idle", "detect", "reboot", "loop", "again", "nvram"}
    /\ pc # "idle" => target \in Targets
    /\ stop \in BOOLEAN /\ PS1_set \in BOOLEAN /\ block_setup_term \in BOOLEAN
    /\ never_rebooted \in BOOLEAN /\ never_unknown \in BOOLEAN /\ prompt \in BOOLEAN
    /\ detect_counter \in 0..3
    /\ ipl_watermark \in InitialWatermark..KillCord
    /\ booting_watermark \in InitialWatermark..KillCord
    /\ host \in HostStates
    /\ bootdev \in {"default", "setup"}
    /\ returned \in {"none", "ok", "raised"}
    /\ ipls \in Nat /\ spent \in Nat /\ reboots \in Nat
    /\ drift \in {"none", "told", "lost", "untold"}

\* What the machine is when op-test starts agrees with the state it was given.
Agrees(s, h) ==
    CASE s = "OFF" -> h = "off"
      [] s = "OS" -> h = "os"
      [] s = "POWERING_OFF" -> h \in {"stopping", "off"}
      [] s = "PETITBOOT_SHELL" -> h = "shell"
      [] s = "PETITBOOT" -> h \in {"countdown", "menu"}
      [] s \in {"IPLing", "BOOTING"} -> h \notin {"off", "stopping"}
      [] OTHER -> TRUE

Init ==
    /\ state \in InitialStates /\ stop = FALSE /\ target = "None"
    /\ previous_state = "None" /\ PS1_set = FALSE /\ block_setup_term = FALSE
    /\ detect_counter = 0 /\ never_rebooted = TRUE
    /\ ipl_watermark = InitialWatermark /\ booting_watermark = InitialWatermark
    /\ pc = "idle" /\ never_unknown = FALSE
    /\ host \in {h \in HostStates : Agrees(state, h)}
    /\ bootdev \in {"default", "setup"} /\ prompt = FALSE
    /\ returned = "none" /\ ipls = 0 /\ spent = 0 /\ reboots = 0
    /\ drift = "none"

-----------------------------------------------------------------------------
(* The machine and the boot loader, outside the repository.                *)

HostMoves(h) ==
    /\ host' = h
    /\ UNCHANGED <<state, stop, target, tracking, block_setup_term, detection,
                   watermarks, pc, never_unknown, bootdev, returned, history>>

HostStops  == host = "stopping" /\ HostMoves("off") /\ UNCHANGED <<prompt,
                                                                   drift>>
HostIPLs   == /\ host = "ipl"
              /\ HostMoves(IF bootdev = "setup" THEN "menu" ELSE "countdown")
              /\ UNCHANGED <<prompt, drift>>
HostAutoBoots == host = "countdown" /\ HostMoves("boot") /\ UNCHANGED <<prompt,
                                                                        drift>>
HostBoots  == host = "boot" /\ HostMoves("os") /\ UNCHANGED <<prompt, drift>>

\* A checkstop, a panic, a failed boot; some of them end in a reboot.
HostCrashes ==
    /\ MachineCrashes
    /\ host \in {"ipl", "shell", "boot", "os"}
    /\ HostMoves("crashed") /\ prompt' = FALSE /\ drift' = "untold"
HostReIPLs == host = "crashed" /\ HostMoves("ipl") /\ UNCHANGED <<prompt,
                                                                  drift>>

Machine == HostStops \/ HostIPLs \/ HostAutoBoots \/ HostBoots
              \/ HostCrashes \/ HostReIPLs

\* What op-test's commands do to it.
PoweredOff == IF host = "off" THEN "off" ELSE "stopping"
PoweredOn == IF host = "off" THEN "ipl" ELSE host
BootdevFor(t) == IF t = "OS" THEN "default" ELSE "setup"
Rebooted(h) == IF h \in {"shell", "os"} THEN "ipl" ELSE h

\* What a reader of the console can find there.
Menu == {"countdown", "menu"}
AtPrompt(h, p) == h = "shell" \/ (h = "os" /\ p)
Shows(h, p) ==
    CASE h \in Menu -> {"petitboot", "timeout"}
      [] AtPrompt(h, p) -> {"prompt", "timeout"}
      [] h = "os" /\ ~p -> {"login", "timeout"}
      [] OTHER -> {"timeout"}

-----------------------------------------------------------------------------
(* How a handler ends, and what goto_state() does next.                    *)

\* state moved to one in which op-test no longer claims to know the machine
Told(s) == IF drift # "none" /\ s \in {"UNKNOWN", "UNKNOWN_BAD"}
           THEN "told" ELSE drift

\* op-test looked at the machine, or what it now believes was just seen.
Seen == IF drift = "none" THEN "none" ELSE "told"

\* A command that had no answer, and moved the machine all the same.
Unanswered == IF host' = host \/ drift = "untold" THEN drift ELSE "lost"

\* block in case the system is not on or up
UnblockedAsBefore == UNCHANGED block_setup_term
Blocks == block_setup_term' = TRUE

\* The handler returned s, leaving PS1_set = ps1 and previous_state = prev.
Returns(s, ps1, prev) ==
    /\ state' = s /\ previous_state' = s
    /\ PS1_set' = (ps1 /\ prev = s)
    /\ never_unknown' = (never_unknown \/ state # "UNKNOWN")
    /\ \/ /\ s = target /\ s \in {"PETITBOOT_SHELL", "OS"}
          /\ pc' = "nvram" /\ UNCHANGED <<stop, returned>>
       \/ /\ s = target /\ s \notin {"PETITBOOT_SHELL", "OS"}
          /\ pc' = "idle" /\ returned' = "ok" /\ UNCHANGED stop
       \/ /\ s # target /\ s = "UNKNOWN" /\ never_unknown'
          /\ pc' = "idle" /\ returned' = "raised" /\ stop' = TRUE
       \/ /\ s # target /\ ~(s = "UNKNOWN" /\ never_unknown')
          /\ pc' = "loop" /\ UNCHANGED <<stop, returned>>

\* An exception leaves goto_state(), with state = s and stop = b.
Raises(s, b) ==
    /\ state' = s /\ stop' = b /\ pc' = "idle" /\ returned' = "raised"
    /\ drift' = Told(s)

HandlerRaises(s, b) ==
    Raises(s, b) /\ never_unknown' = (never_unknown \/ state # "UNKNOWN")

\* A power command without its answer leaves goto_state() with an exception,
\* the state as it was.
PowerFails ==
    /\ pc' = "idle" /\ returned' = "raised" /\ drift' = Unanswered
    /\ never_unknown' = (never_unknown \/ state # "UNKNOWN")
    /\ UNCHANGED <<state, stop>>

HandlerIgnoringStop(s) == pc = "loop" /\ state = s
Handler(s) == pc = "loop" /\ ~stop /\ state = s
HandlerFrame == UNCHANGED <<target, detection, reboots>>

\* sys_power_off() worked, and the handler returns POWERING_OFF; or it raised,
\* which it does on every output without the text it looks for: the BMC may
\* have done nothing, or have acted and only its answer was lost.
PowersOff ==
    \/ /\ host' = PoweredOff /\ prompt' = FALSE /\ drift' = "none"
       /\ Returns("POWERING_OFF", PS1_set, previous_state)
       /\ UNCHANGED <<bootdev, watermarks, ipls, spent>>
    \/ /\ host' \in {host, PoweredOff} /\ prompt' = (prompt /\ host' = host)
       /\ PowerFails
       /\ UNCHANGED <<bootdev, tracking, watermarks, ipls, spent>>

-----------------------------------------------------------------------------
(* Entering goto_state() and detecting where the machine is.               *)

\* run_DETECT counts its calls over the whole run; past 3 it no longer matters.
CountedPerCall == 1
Counted == IF detect_counter < 3 THEN detect_counter + 1 ELSE 3

GotoState(t) ==
    /\ pc = "idle"
    /\ target' = t /\ Blocks /\ never_unknown' = FALSE
    /\ returned' = "none" /\ ipls' = 0 /\ spent' = 0
    /\ \/ state # "UNKNOWN" /\ pc' = "loop" /\ UNCHANGED detect_counter
       \/ /\ state = "UNKNOWN"
          /\ detect_counter' = Counted
          /\ pc' = IF detect_counter' >= 3 THEN "loop" ELSE "detect"
    /\ UNCHANGED <<state, stop, tracking, never_rebooted, watermarks, machine,
                   reboots, drift>>

\* What get_console() may do to the shell and to PS1_set: check_set_term()
\* logs in and sets the prompt unless it is blocked or believed done.
Consoles(blocked) ==
    {<<PS1_set, prompt>>} \cup
    (IF ~blocked /\ ~PS1_set /\ state # "PETITBOOT" /\ host \in {"shell", "os"}
     THEN {<<TRUE, TRUE>>} ELSE {})

\* run_DETECT's loop after detect_target() answered s, state being st.
Detected(s, st) ==
    /\ Blocks /\ never_rebooted' = FALSE
    /\ detect_counter' = detect_counter + 1
    /\ \/ /\ s = "UNKNOWN" /\ detect_counter' <= 2
          /\ pc' = "detect" /\ state' = st
       \/ /\ ~(s = "UNKNOWN" /\ detect_counter' <= 2)
          /\ pc' = "loop" /\ state' = s
    /\ UNCHANGED returned

\* The machine is at h, its shell p and PS1_set ps1: an answer without reboot.
Answers(s, h, p, ps1) ==
    /\ Detected(s, state)
    /\ host' = h /\ prompt' = p /\ PS1_set' = ps1
    /\ drift' = Seen
    /\ UNCHANGED <<stop, bootdev, reboots>>

DetectRaises(s, h, p, ps1) ==
    /\ Raises(s, stop)
    /\ host' = h /\ prompt' = p /\ PS1_set' = ps1
    /\ block_setup_term' = FALSE
    /\ UNCHANGED <<detection, bootdev, reboots>>

\* A shell op-test comes to: set up now, or believed to be already.
SetUp(p, ps1) == p \/ ~ps1

\* run_REBOOT from h: get_console() logs in unless PS1_set says it is done, the
\* boot override and the tracking are set, and reboot is typed; the echo of
\* the command may not come, which raises out of the detection.
RebootKeepsPrompt(ps1) == PS1_set' = ps1 /\ Blocks
RebootClears(ps1) == PS1_set' = FALSE /\ Blocks

RunREBOOT(h, p, ps1) ==
  LET p2 == SetUp(p, ps1) IN
    /\ bootdev' = BootdevFor(target)
    /\ RebootClears(ps1)
    /\ reboots' = reboots + 1
    /\ \/ AtPrompt(h, p2) /\ host' = Rebooted(h) /\ prompt' = FALSE /\ drift' = "none"
       \/ host' = h /\ prompt' = p2 /\ drift' = Told(state)
    /\ \/ pc' = "reboot" /\ UNCHANGED returned
       \/ pc' = "idle" /\ returned' = "raised"
    /\ UNCHANGED <<state, stop, detection>>

\* petitboot_exit_to_shell() sends x; it works if a shell answers.
FromMenu(h) == IF h \in Menu THEN "shell" ELSE h
\* exit_petitboot_shell() types exit; whether Petitboot shows up or not, a
\* second failure is swallowed and the caller goes on.
FromShell(h) == IF h = "shell" THEN {"menu", "shell"} ELSE {h}

\* detect_target's branch on the Petitboot menu ...
DetectAtMenu(h, p, ps1) ==
    \/ target = "PETITBOOT" /\ Answers("PETITBOOT", h, p, ps1) /\ UNCHANGED previous_state
    \/ /\ target = "PETITBOOT_SHELL"
       /\ \/ Answers("PETITBOOT_SHELL", FromMenu(h), SetUp(p, ps1), TRUE)
                /\ previous_state' = "PETITBOOT_SHELL"
          \/ DetectRaises(state, FromMenu(h), p, ps1) /\ UNCHANGED previous_state
    \/ /\ target = "OS" /\ never_rebooted
       /\ \/ RunREBOOT(FromMenu(h), SetUp(p, ps1), TRUE) /\ previous_state' = "PETITBOOT_SHELL"
          \/ DetectRaises(state, FromMenu(h), p, ps1) /\ UNCHANGED previous_state
    \/ /\ target = "OFF" \/ (target = "OS" /\ ~never_rebooted)
       /\ Answers("UNKNOWN", h, p, ps1) /\ UNCHANGED previous_state

\* ... on a shell prompt, where check_kernel() tells which kernel runs, or
\* UNKNOWN when it gets no answer ...
DetectAtPrompt(h, p, ps1) ==
    LET kernel == IF h = "shell" THEN "PETITBOOT_SHELL" ELSE "OS" IN
    \E detect_state \in {kernel, "UNKNOWN"} :
      /\ previous_state' = IF detect_state = "UNKNOWN" THEN previous_state ELSE detect_state
      /\ \/ detect_state = target /\ Answers(target, h, p, ps1)
         \/ /\ detect_state = "PETITBOOT_SHELL" /\ target = "PETITBOOT"
            /\ \E h2 \in FromShell(h), ps2 \in BOOLEAN :
                 Answers("PETITBOOT", h2, h2 = h /\ (p \/ ps2), h2 = h /\ ps2)
         \/ /\ never_rebooted /\ target # "OFF" /\ detect_state # target
            /\ ~(detect_state = "PETITBOOT_SHELL" /\ target = "PETITBOOT")
            /\ RunREBOOT(h, p, ps1) \/ DetectRaises(state, h, p, ps1)
         \/ /\ ~never_rebooted /\ target = "PETITBOOT_SHELL" /\ detect_state # target
            /\ Answers("PETITBOOT_SHELL", h, p, ps1)
         \/ /\ detect_state # target
            /\ \/ target = "OFF"
               \/ ~never_rebooted /\ target = "OS"
               \/ ~never_rebooted /\ target = "PETITBOOT" /\ detect_state # "PETITBOOT_SHELL"
            /\ Answers("UNKNOWN", h, p, ps1)

\* ... and on a login prompt; run_REBOOT logs in to type its command.
DetectAtLogin(h, p, ps1) ==
    \/ target = "OS" /\ Answers("OS", h, p, ps1)
    \/ /\ target \in {"PETITBOOT", "PETITBOOT_SHELL"} /\ never_rebooted
       /\ RunREBOOT(h, p, ps1) \/ DetectRaises(state, h, p, ps1)
    \/ target = "OFF" /\ Answers("UNKNOWN", h, p, ps1)
    \/ target # "OS" /\ ~never_rebooted /\ Answers("UNKNOWN", h, p, ps1)

DetectTarget ==
    /\ pc = "detect"
    /\ UNCHANGED <<target, never_unknown, watermarks, ipls, spent>>
    /\ \/ host = "crashed" /\ DetectRaises("UNKNOWN_BAD", host, prompt, PS1_set)
             /\ UNCHANGED previous_state
       \/ DetectRaises(state, host, prompt, PS1_set) /\ UNCHANGED previous_state
       \/ \E con \in Consoles(FALSE) : LET ps1 == con[1]  p == con[2]
                                          h == IF host \in Menu THEN "menu" ELSE host IN
          \/ "petitboot" \in Shows(h, p) /\ DetectAtMenu(h, p, ps1)
          \/ "prompt" \in Shows(h, p) /\ DetectAtPrompt(h, p, ps1)
          \/ "login" \in Shows(h, p) /\ DetectAtLogin(h, p, ps1) /\ UNCHANGED previous_state
          \/ Answers("UNKNOWN", h, p, ps1) /\ UNCHANGED previous_state

\* run_REBOOT's wait: whatever ends it, what its callbacks raised included,
\* is caught, and detect_target() answers UNKNOWN.
RebootWaits ==
    /\ pc = "reboot"
    /\ \/ Detected("UNKNOWN", state) /\ UNCHANGED stop
       \/ /\ host = "crashed"
          /\ Detected("UNKNOWN", "UNKNOWN_BAD") /\ stop' \in {stop, TRUE}
    /\ drift' = Seen
    /\ UNCHANGED <<target, tracking, watermarks, never_unknown, machine,
                   history>>

-----------------------------------------------------------------------------
(* The loop of goto_state() and its handlers.                              *)

Stopping ==
    /\ pc = "loop" /\ stop
    /\ Raises(state, stop)
    /\ UNCHANGED <<target, tracking, block_setup_term, detection, watermarks,
                   never_unknown, machine, history>>

RunUNKNOWN ==
    /\ Handler("UNKNOWN") \/ Handler("UNKNOWN_BAD")
    /\ Blocks
    /\ PowersOff /\ HandlerFrame

\* The power command was answered: the machine is on, or was already.
PoweredUp ==
    /\ host' = PoweredOn /\ ipls' = ipls + 1
    /\ Returns("IPLing", PS1_set, previous_state)
    /\ drift' = IF drift = "lost" THEN "told" ELSE drift

\* run_OFF sets the boot override, which may raise, and switches the power on;
\* sys_power_on() turns a missing answer into FW_FAILED, whatever the BMC did.
PowersOn ==
    /\ UNCHANGED prompt
    /\ \/ PoweredUp /\ bootdev' = BootdevFor(target)
       \/ /\ host' \in {host, PoweredOn} /\ drift' = Unanswered
          /\ bootdev' = BootdevFor(target) /\ pc' = "again"
          /\ UNCHANGED <<state, stop, tracking, never_unknown, returned, ipls>>
       \/ /\ HandlerRaises(state, stop)
          /\ bootdev' \in {bootdev, BootdevFor(target)}
          /\ UNCHANGED <<host, tracking, ipls>>

RunOFF ==
    /\ Handler("OFF")
    /\ Blocks
    /\ \/ /\ target = "OFF"
          /\ Returns("OFF", PS1_set, previous_state)
          /\ UNCHANGED <<machine, ipls, drift>>
       \/ target # "OFF" /\ PowersOn
    /\ UNCHANGED <<watermarks, spent>> /\ HandlerFrame

\* Only retry once: the second try may find the machine the first one started.
RunOFFAgain ==
    /\ pc = "again"
    /\ \/ PoweredUp
       \/ host' \in {host, PoweredOn} /\ PowerFails /\ UNCHANGED <<tracking, ipls>>
    /\ UNCHANGED <<prompt, bootdev, block_setup_term, watermarks, spent>>
    /\ HandlerFrame

\* WaitForIt: a longer wait is granted and the machine is re-IPLed, or the
\* kill cord is reached and op-test gives up.
RetryFromOFF(watermark) == IF watermark < KillCord THEN "OFF" ELSE "UNKNOWN"
Retry(watermark) == IF watermark < KillCord THEN "UNKNOWN_BAD" ELSE "UNKNOWN"

SameWatermark(watermark) == watermark
LongerWatermark(watermark) == watermark + 1
Raised(watermark) == IF watermark < KillCord THEN watermark + 1 ELSE watermark

Overdue(watermark) ==
    /\ Returns(Retry(watermark), PS1_set, previous_state)
    /\ drift' = Told(Retry(watermark))
    /\ spent' = IF watermark < KillCord THEN spent + 1 ELSE spent
    /\ UNCHANGED machine

\* Any other exception of a boot wait: a crash seen on the console, or the
\* console itself failing.
BootFails ==
    /\ HandlerRaises("UNKNOWN_BAD", TRUE)
    /\ UNCHANGED <<tracking, machine, watermarks, spent>>

RunIPLing ==
    /\ Handler("IPLing")
    /\ Blocks
    /\ \/ target = "OFF" /\ PowersOff
       \/ /\ target # "OFF"
          /\ \/ /\ host \in Menu \/ host = "shell"
                /\ Returns("PETITBOOT", PS1_set, previous_state) /\ drift' = drift
                /\ UNCHANGED <<machine, watermarks, spent>>
             \/ /\ Overdue(ipl_watermark)
                /\ ipl_watermark' = Raised(ipl_watermark) /\ UNCHANGED booting_watermark
             \/ BootFails
          /\ UNCHANGED ipls
    /\ HandlerFrame

\* petitboot_exit_to_shell() did not get a prompt, or saw the crash.
ExitToShellFails ==
    /\ \/ HandlerRaises(state, stop)
       \/ host = "crashed" /\ HandlerRaises("UNKNOWN_BAD", stop)
    /\ host' \in {host, FromMenu(host)} /\ Blocks
    /\ UNCHANGED <<tracking, bootdev, prompt>>

RunPETITBOOT ==
    /\ Handler("PETITBOOT")
    /\ \/ /\ target \in {"PETITBOOT", "PETITBOOT_SHELL"}
          /\ \/ ExitToShellFails
             \/ LET h == FromMenu(host) IN
                /\ AtPrompt(h, prompt)
                /\ block_setup_term' = FALSE /\ UNCHANGED <<bootdev, drift>>
                /\ \/ /\ target = "PETITBOOT" /\ host' \in FromShell(h)
                      /\ prompt' = (host' # "menu" /\ SetUp(prompt, PS1_set))
                      /\ Returns("PETITBOOT", FALSE, "PETITBOOT_SHELL")
                   \/ /\ target = "PETITBOOT_SHELL" /\ host' = h
                      /\ prompt' = SetUp(prompt, PS1_set)
                      /\ Returns("PETITBOOT_SHELL", TRUE, "PETITBOOT_SHELL")
          /\ UNCHANGED <<watermarks, ipls, spent>>
       \/ target = "OFF" /\ Blocks /\ PowersOff
       \/ /\ target = "OS" /\ Blocks
          /\ Returns("BOOTING", PS1_set, previous_state)
          /\ UNCHANGED <<machine, watermarks, ipls, spent, drift>>
    /\ HandlerFrame

RunPETITBOOTSHELL ==
    /\ Handler("PETITBOOT_SHELL")
    /\ \/ /\ target = "PETITBOOT_SHELL" /\ UNCHANGED <<host, bootdev, drift>>
          /\ \/ /\ AtPrompt(host, prompt) /\ prompt' = SetUp(prompt, PS1_set)
                /\ block_setup_term' = FALSE
                /\ Returns("PETITBOOT_SHELL", TRUE, "PETITBOOT_SHELL")
             \/ /\ Blocks /\ UNCHANGED prompt
                /\ Returns("PETITBOOT_SHELL", PS1_set, previous_state)
          /\ UNCHANGED <<watermarks, ipls, spent>>
       \/ /\ target \in {"PETITBOOT", "PETITBOOT_SHELL"} /\ Blocks
          /\ \/ HandlerRaises(state, stop)
             \/ host = "crashed" /\ HandlerRaises("UNKNOWN_BAD", stop)
          /\ UNCHANGED <<tracking, machine, watermarks, ipls, spent>>
       \/ /\ target = "PETITBOOT" /\ Blocks
          /\ host' \in FromShell(host) /\ prompt' = (prompt /\ host' = host)
          /\ Returns("PETITBOOT", FALSE, previous_state)
          /\ UNCHANGED <<bootdev, drift, watermarks, ipls, spent>>
       \/ target \notin {"PETITBOOT", "PETITBOOT_SHELL"}
             /\ Blocks /\ PowersOff
    /\ HandlerFrame

RunBOOTING ==
    /\ Handler("BOOTING")
    /\ \/ /\ host = "os" /\ block_setup_term' = FALSE
          /\ Returns("OS", PS1_set, previous_state)
          /\ UNCHANGED <<machine, watermarks, spent, drift>>
       \/ /\ Blocks
          /\ \/ /\ Overdue(booting_watermark)
                /\ booting_watermark' = Raised(booting_watermark) /\ UNCHANGED ipl_watermark
             \/ BootFails
    /\ UNCHANGED ipls /\ HandlerFrame

RunOS ==
    /\ Handler("OS")
    /\ block_setup_term' = FALSE
    /\ \/ /\ target = "OS"
          /\ Returns("OS", PS1_set, previous_state)
          /\ UNCHANGED <<machine, watermarks, ipls, spent, drift>>
       \/ target # "OS" /\ PowersOff
    /\ HandlerFrame

\* The power status is polled until it reads off, or time is up.
StandbyUnchecked == TRUE
Standby == host = "off"

StandbyRetried == Returns("POWERING_OFF", PS1_set, previous_state) /\ UNCHANGED drift
StandbyTimeout == HandlerRaises(state, stop) /\ UNCHANGED tracking

RunPOWERINGOFF ==
    /\ Handler("POWERING_OFF")
    /\ Blocks
    /\ \/ /\ Standby /\ drift' = "none"
          /\ Returns("OFF", FALSE, previous_state)
       \/ StandbyTimeout
    /\ UNCHANGED <<machine, watermarks, ipls, spent>> /\ HandlerFrame

\* check_nvram_options(), once per run of op-test, on the console: a first
\* failure is swallowed, a later one leaves goto_state().
CheckNvram ==
    /\ pc = "nvram" /\ pc' = "idle"
    /\ \/ /\ \E con \in Consoles(block_setup_term) :
                PS1_set' = con[1] /\ prompt' = con[2]
          /\ returned' \in {"ok", "raised"} /\ UNCHANGED <<state, drift>>
       \/ /\ host = "crashed" /\ UNCHANGED <<PS1_set, prompt>>
          /\ state' = "UNKNOWN_BAD" /\ drift' = Told(state')
          /\ returned' \in {"ok", "raised"}
    /\ UNCHANGED <<stop, target, previous_state, block_setup_term, detection,
                   watermarks, never_unknown, host, bootdev, history>>

-----------------------------------------------------------------------------
(* What tests do between two calls of goto_state().                        *)

TestFrame == UNCHANGED <<target, previous_state, block_setup_term, detection,
                         watermarks, pc, never_unknown, bootdev, history>>

\* A command on the console; OPexpect sees a crash and marks the system.
TestRunsCommand ==
    /\ pc = "idle" /\ TestFrame /\ UNCHANGED <<stop, host>>
    /\ \/ /\ \E con \in Consoles(block_setup_term) :
                PS1_set' = con[1] /\ prompt' = con[2]
          /\ UNCHANGED <<state, returned, drift>>
       \/ /\ host = "crashed" /\ state' = "UNKNOWN_BAD" /\ drift' = Told(state')
          /\ returned' = "none" /\ UNCHANGED <<PS1_set, prompt>>

\* A test that reboots the OS, or switches the power through the BMC.
TestMovesMachine ==
    /\ TestsMoveMachine /\ pc = "idle" /\ TestFrame
    /\ \/ host \in {"os", "shell"} /\ host' \in {"ipl", "stopping"}
       \/ host = "off" /\ host' = "ipl"
    /\ prompt' = FALSE /\ drift' = "untold"
    /\ UNCHANGED <<state, stop, PS1_set, returned>>

\* It tells op-test by set_state(), and knows what it says.
SetState(s) ==
    /\ TestsMoveMachine /\ pc = "idle" /\ TestFrame
    /\ s \in {"UNKNOWN", "UNKNOWN_BAD", "OFF", "POWERING_OFF", "IPLing", "OS"}
    /\ Agrees(s, host)
    /\ state' = s /\ returned' = "none"
    /\ drift' = Seen
    /\ UNCHANGED <<stop, PS1_set, host, prompt>>

\* OpTestHMIHandling restarts the machine and clears the stop flag with it.
TestClearsStop ==
    /\ TestsMoveMachine /\ pc = "idle" /\ stop /\ TestFrame
    /\ stop' = FALSE /\ state' = "UNKNOWN_BAD" /\ returned' = "none"
    /\ drift' = Told(state') /\ UNCHANGED <<PS1_set, host, prompt>>

-----------------------------------------------------------------------------

Goto == \/ DetectTarget \/ RebootWaits \/ Stopping \/ CheckNvram
        \/ RunUNKNOWN \/ RunOFF \/ RunOFFAgain \/ RunIPLing \/ RunPETITBOOT
        \/ RunPETITBOOTSHELL \/ RunBOOTING \/ RunOS \/ RunPOWERINGOFF

Test == \/ \E t \in Targets : GotoState(t)
        \/ TestRunsCommand \/ TestMovesMachine \/ TestClearsStop
        \/ \E s \in OpSystemState : SetState(s)

Next == Goto \/ Test \/ Machine

\* Every wait of goto_state() has a timeout, so its thread goes on; the
\* machine and the tests owe nothing.
Spec == Init /\ [][Next]_vars /\ WF_vars(Goto)

-----------------------------------------------------------------------------
(* Properties.                                                             *)

\* Whatever the machine does, one goto_state() re-IPLs it only as often as the
\* two watermarks grant below the kill cord, once more for the IPL asked for:
\* no boot loop runs for ever (run_IPLing, run_BOOTING, kill_cord).
ReIPLBound ==
    /\ spent <= 2 * (KillCord - InitialWatermark)
    /\ ipls <= spent + 1

\* Unless the machine moved behind op-test's back, the state op-test believes
\* in is where the machine is: a goto_state() that returns OS or OFF is right,
\* whichever of detection, recovery and retries it came through.  When only the
\* answer of a power command was lost, the state is wrong in one way: the
\* machine is where that command sent it, up if OFF is still believed and down
\* otherwise; and POWERING_OFF, from which OFF is concluded, is never believed
\* on the strength of such a command.
GoingDown == {"stopping", "off"}
StateAgrees ==
    /\ drift \in {"none", "told"} /\ state \in {"OFF", "OS", "POWERING_OFF"}
          => Agrees(state, host)
    /\ drift = "lost" =>
          state # "POWERING_OFF" /\ (state = "OFF" <=> host \notin GoingDown)

\* PS1_set = 1 means the shell on the console is one op-test set up, across
\* every power-off, reboot and menu exit that goto_state() itself performs:
\* the clearing by previous_state, run_REBOOT, try_exit and standby leaves no
\* path on which a command would be sent to a console not logged in.  (While
\* the machine goes down the flag may lag until standby is confirmed.)
NoStalePrompt ==
    drift = "none" /\ PS1_set /\ host \notin {"stopping", "off"} => prompt

\* After goto_state(), a console connection may log in exactly when there is a
\* system to log in to: unblocked in the OS, blocked when it gave up on the way.
ConsoleGate ==
    /\ returned = "ok" /\ state = "OS" => ~block_setup_term
    /\ returned = "raised" /\ state \in {"OFF", "POWERING_OFF", "IPLing", "BOOTING"}
          => block_setup_term

\* Detection never gets into a reboot loop: over all the calls of a run it
\* types reboot at most twice (a second time only if the first raised before
\* never_rebooted was cleared).
DetectionReboots == reboots <= 2

\* Once stop is set no goto_state() switches the power.
StoppedNeverPowers ==
    [][stop /\ pc # "idle" => /\ ipls' = ipls
                              /\ host' = "stopping" => host = "stopping"]_vars

\* A power-on that is answered is one whose IPL comes: op-test never applies
\* power to a machine going down, where it would be lost; it was off, seen so
\* in standby, or is one that an earlier power-on of op-test's has started
\* without its answer getting through (run_OFF's second try, or a later call).
PowerOnTakes ==
    [][ipls' > ipls => \/ host = "off" \/ drift = "untold"
                       \/ drift = "lost" /\ host \notin GoingDown]_vars

\* goto_state() returns or raises, on every machine however broken.
GotoTerminates == (pc # "idle") ~> (pc = "idle")

=============================================================================
