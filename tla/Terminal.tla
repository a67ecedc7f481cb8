------------------------------ MODULE Terminal ------------------------------
(***************************************************************************)
(* One command at a time on one console: OpTestUtil.run_command() with its *)
(* retries, the get_console() and connect() of the console classes, the    *)
(* login, prompt and sudo that setup_term() brings a line to, and the two  *)
(* recoveries, set_PS1()'s and try_sendcontrol()'s.                        *)
(*                                                                         *)
(* A console is an ssh session, with a shell of its own for each           *)
(* connection ("ssh", port 22), or a line of the machine that outlives its *)
(* connections: the console that a BMC offers over ssh ("host2200", port   *)
(* 2200) or over IPMI ("sol"), or the virtual terminal of a partition that *)
(* an HMC offers ("hmc").  The flags PS1_set, LOGIN_set and SUDO_set are   *)
(* kept in the console object for the first, in the system for the others. *)
(* Any expect() may time out, find its session gone, or raise because the  *)
(* kernel crashed.                                                         *)
(***************************************************************************)
EXTENDS Integers

CONSTANTS
    Consoles,       \* the kinds of console
    Asking,         \* the consoles whose commands may ask for a password
    Looks,          \* whether detection looks at the console, quietly
    Retries,        \* the retry of run_command()
    Recoveries,     \* the counter of try_recover(), 3
    Reconnects      \* how often get_console() reconnects, 120

ASSUME ConsolesAssumption ==
    Consoles \subseteq {"ssh", "host2200", "sol", "hmc"} /\ Asking \subseteq Consoles
ASSUME LooksAssumption == Looks \in BOOLEAN
ASSUME CountsAssumption ==
    Retries \in Nat /\ Recoveries \in Nat \ {0} /\ Reconnects \in Nat

VARIABLES
    console,    \* the console, one of Consoles
    pc,         \* what the caller does
    from,       \* whom get_console() returns to
    via,        \* whom connect() returns to
    who,        \* whom set_PS1() returns to
    attempt,    \* run_command: counter
    typed,      \* how often the command was typed since run_command()
    tries,      \* the connects of get_console()'s loop, or of try_sendcontrol()
    inner,      \* the connects of the recovery in set_PS1()
    conn,       \* the console's state is CONNECTED
    alive,      \* the session of its pty lives
    line,       \* what is at the other end, or the prompt of its shell
    flags,      \* which of PS1_set and SUDO_set are 1; LOGIN_set is with PS1_set;
                \* "unseen" when they are 1 although nobody saw a prompt
    own,        \* block_setup_term of the console: None (-1), 0 or 1
    sysblock,   \* block_setup_term of the system
    petitboot,  \* the system's state is PETITBOOT
    quiet,      \* setup_term_quiet
    disable,    \* setup_term_disable
    shadowed,   \* the setters of the block flags are overwritten
    result      \* how the last call ended

call == <<from, attempt, typed, result>>
session == <<conn, alive, line, flags>>
blocks == <<own, sysblock, shadowed>>
modes == <<petitboot, quiet, disable>>

vars == <<console, pc, via, who, tries, inner, call, session, blocks, modes>>

AllSet == {"PS1", "SUDO"}
Shells == {"shell", "ssh prompt", "console prompt"}

Connecting == {"console", "connect", "vterm", "back"}
SettingUp == {"setup", "setup2", "login", "ps1", "reconnect", "lastconnect", "sudo"}
Commanding == {"type", "typed", "password", "control", "rescued"}

TypeOK ==
    /\ console \in Consoles
    /\ pc \in {"idle"} \cup Connecting \cup SettingUp \cup Commanding
    /\ from \in {"type", "control", "look"}
    /\ via \in {"check", "open", "loop", "rescue"}
    /\ who \in {"login", "shell", "sudo"}
    /\ attempt \in 0 .. Retries
    /\ typed \in 0 .. Retries + 1
    /\ tries \in 0 .. Recoveries - 1 \/ tries \in 0 .. Reconnects
    /\ inner \in 0 .. Recoveries
    /\ conn \in BOOLEAN /\ alive \in BOOLEAN
    /\ line \in Shells \cup {"login", "menu"}
    /\ flags \subseteq AllSet \cup {"unseen"}
    /\ own \in -1 .. 1
    /\ sysblock \in 0 .. 1
    /\ petitboot \in BOOLEAN /\ quiet \in BOOLEAN /\ disable \in BOOLEAN
    /\ shadowed \in BOOLEAN
    /\ result \in {"none", "ok", "failed", "raised"}

Init ==
    /\ console \in Consoles
    /\ pc = "idle" /\ from = "type" /\ via = "check" /\ who = "shell"
    /\ attempt = 0 /\ typed = 0 /\ tries = 0 /\ inner = 0
    /\ conn = FALSE /\ alive = FALSE
    /\ line = IF console = "ssh" THEN "shell" ELSE "login"
    /\ flags = {}
    /\ own = -1 /\ sysblock = 1 /\ shadowed = FALSE
    /\ petitboot = FALSE /\ quiet = FALSE /\ disable = FALSE
    /\ result = "none"

-----------------------------------------------------------------------------
\* The console classes

IsSSH == console \in {"ssh", "host2200"}
HMC == console = "hmc"
OwnSession == console = "ssh"

\* The prompt setup_term() sets, and the one run_command() expects.
PromptSet == IF OwnSession THEN "ssh prompt" ELSE "console prompt"
PromptExpected == IF IsSSH THEN "ssh prompt" ELSE "console prompt"

AllOf(set) == AllSet \subseteq set
Ready == AllOf(flags)

\* clear_state() in close() and connect() clears the console's own flags.
KeptFlags == flags
Cleared == IF OwnSession THEN {} ELSE flags

Closed ==
    /\ conn' = FALSE
    /\ alive' = FALSE
    /\ UNCHANGED line

\* OPexpect.spawn() of ssh or of "sol activate"; ssh gets a new shell.
Spawned ==
    /\ conn' = TRUE
    /\ alive' \in BOOLEAN
    /\ line' = IF OwnSession THEN "shell" ELSE line

\* A SOL session that does not become operational leaves the state CONNECTED.
NotSpawned ==
    /\ conn' \in (IF IsSSH THEN {FALSE} ELSE BOOLEAN)
    /\ alive' = FALSE
    /\ UNCHANGED line

-----------------------------------------------------------------------------
\* run_command() and how it ends

Idles(res) ==
    /\ pc' = "idle"
    /\ result' = res
    /\ UNCHANGED <<from, attempt, typed>>

\* An exception other than CommandFailed.
Raises == Idles("raised")

\* A CommandFailed, which run_command() retries.
Counted == attempt + 1

Fails ==
    IF from = "look" THEN Raises
    ELSE IF attempt = Retries THEN Idles("failed")
    ELSE /\ attempt' = Counted
         /\ pc' = "console"
         /\ from' = "type"
         /\ UNCHANGED <<typed, result>>

RunCommand ==
    /\ pc = "idle"
    /\ pc' = "console"
    /\ from' = "type"
    /\ attempt' = 0 /\ typed' = 0 /\ result' = "none"
    /\ UNCHANGED <<console, via, who, tries, inner, session, blocks, modes>>

\* Detection gets the console of the system with exceptions turned off.
Look ==
    /\ pc = "idle"
    /\ Looks /\ ~OwnSession
    /\ pc' = "console"
    /\ from' = "look"
    /\ quiet' = TRUE /\ disable' = FALSE
    /\ sysblock' = 0
    /\ attempt' = 0 /\ typed' = 0 /\ result' = "none"
    /\ UNCHANGED <<console, via, who, tries, inner, session, own, shadowed,
                   petitboot>>

\* Between two calls the state machine blocks and unblocks the setup.
StateMachine ==
    /\ pc = "idle"
    /\ sysblock' \in 0 .. 1
    /\ petitboot' \in BOOLEAN
    /\ UNCHANGED <<console, pc, via, who, tries, inner, call, session, own,
                   shadowed, quiet, disable>>

\* The machine reboots between two calls: its line starts anew, with the
\* flags cleared by the state machine, and its ssh sessions end.
Reboots ==
    /\ pc = "idle"
    /\ IF OwnSession
       THEN /\ alive' = FALSE
            /\ UNCHANGED <<line, flags>>
       ELSE /\ line' \in {"login", "shell", "menu"}
            /\ flags' = {}
            /\ UNCHANGED alive
    /\ UNCHANGED <<console, pc, via, who, tries, inner, call, conn, blocks,
                   modes>>

-----------------------------------------------------------------------------
\* get_console() and connect()

Delivers ==
    IF from = "look"
    THEN /\ Idles("ok")
         /\ quiet' = FALSE /\ disable' = FALSE
         /\ UNCHANGED petitboot
    ELSE /\ pc' = from
         /\ UNCHANGED <<call, modes>>

AtLogin == alive /\ line = "login"
AtShell == alive /\ line \in Shells
AtMenu == alive /\ line = "menu"
Cheated == AllSet \cup {"unseen"}

\* check_set_term(); setup_term() returns at once when it is blocked.
Blocked == IF IsSSH /\ own # -1 THEN own = 1 ELSE sysblock = 1
ChecksPS1(set) == IF "PS1" \in set \/ Blocked \/ petitboot THEN "back" ELSE "setup"
CheckSetTerm(set) == IF AllOf(set) \/ Blocked \/ petitboot THEN "back" ELSE "setup"

\* A console of an HMC is taken to live while its state is CONNECTED.
GetConsole ==
    /\ pc = "console"
    /\ tries' = 0
    /\ IF conn /\ (alive \/ HMC)
       THEN pc' = CheckSetTerm(flags) /\ via' = "check"
       ELSE pc' = "connect" /\ via' = IF conn THEN "loop" ELSE "open"
    /\ UNCHANGED <<console, who, inner, call, session, blocks, modes>>

Connect ==
    /\ pc = "connect"
    /\ flags' = Cleared
    /\ \/ /\ Spawned
          /\ pc' = IF ~HMC THEN CheckSetTerm(Cleared)
                   ELSE IF via = "rescue" THEN "back" ELSE "vterm"
          /\ UNCHANGED call
       \/ /\ NotSpawned
          /\ Fails \/ (HMC /\ Raises)
    /\ UNCHANGED <<console, via, who, tries, inner, blocks, modes>>

\* HMCConsole.get_console() looks for a login and then for a prompt of its own;
\* if there is neither, get_login_prompt() sets all flags "to cheat system".
Vterm ==
    /\ pc = "vterm"
    /\ via' = "check"
    /\ \/ /\ AtLogin
          /\ flags' \in {{}, flags}
          /\ pc' = CheckSetTerm(flags')
          /\ UNCHANGED <<call, line>>
       \/ /\ AtShell
          /\ line' = "console prompt"
          /\ flags' = flags \ {"unseen"}
          /\ pc' = CheckSetTerm(flags')
          /\ UNCHANGED call
       \/ /\ alive
          /\ line' \in {line, IF AtShell THEN "console prompt" ELSE line}
          /\ flags' = Cheated
          /\ pc' = CheckSetTerm(flags')
          /\ UNCHANGED call
       \/ /\ ~alive
          /\ Raises
          /\ UNCHANGED <<flags, line>>
    /\ UNCHANGED <<console, who, tries, inner, conn, alive, blocks, modes>>

NotAgain == tries
Again == IF via = "loop" THEN tries + 1 ELSE 0

\* The loop of get_console() goes on until the session lives, or too long; a
\* session of ssh that was opened at once is not checked again.
Back ==
    /\ pc = "back"
    /\ \/ /\ via = "rescue"
          /\ pc' = "rescued"
          /\ UNCHANGED <<via, tries, call, modes>>
       \/ /\ via = "check" \/ (via = "open" /\ IsSSH /\ alive)
          /\ Delivers
          /\ UNCHANGED <<via, tries>>
       \/ /\ via = "loop" => tries < Reconnects
          /\ via = "open" => ~IsSSH
          /\ via \in {"open", "loop"} /\ alive
          /\ pc' = CheckSetTerm(flags)
          /\ via' = "check"
          /\ UNCHANGED <<tries, call, modes>>
       \/ /\ via = "loop" => tries < Reconnects
          /\ via \in {"open", "loop"} /\ ~alive
          /\ pc' = "connect"
          /\ via' = "loop"
          /\ tries' = Again
          /\ UNCHANGED <<call, modes>>
       \/ /\ via = "loop" /\ tries = Reconnects
          /\ Raises
          /\ UNCHANGED <<via, tries, modes>>
    /\ UNCHANGED <<console, who, inner, session, blocks>>

-----------------------------------------------------------------------------
\* setup_term(): what its two looks at the line lead to

SetsUp ==
    \/ /\ AtLogin
       /\ pc' = "login"
       /\ UNCHANGED who
    \/ /\ AtShell
       /\ pc' = "ps1"
       /\ who' = "shell"

\* The first look: the end of the session is an error even when quiet.
SetupTerm ==
    /\ pc = "setup"
    /\ \/ /\ SetsUp
          /\ UNCHANGED <<call, session>>
       \/ /\ AtMenu
          /\ pc' = "back"
          /\ UNCHANGED <<who, call, session>>
       \/ /\ ~alive
          /\ Closed
          /\ flags' = Cleared
          /\ Raises
          /\ UNCHANGED who
       \/ /\ pc' = "setup2"
          /\ UNCHANGED <<who, call, session>>
    /\ UNCHANGED <<console, via, tries, inner, blocks, modes>>

\* The second look, where Petitboot is an error too (its index is 7, and
\* the code tests for 6).
SetupTermAgain ==
    /\ pc = "setup2"
    /\ \/ /\ SetsUp
          /\ UNCHANGED <<call, session>>
       \/ /\ quiet
          /\ pc' = "back"
          /\ UNCHANGED <<who, call, session>>
       \/ /\ ~quiet
          /\ Closed
          /\ flags' = Cleared
          /\ Raises
          /\ UNCHANGED who
    /\ UNCHANGED <<console, via, tries, inner, blocks, modes>>

\* A step of the setup fails: an exception, or -1 when quiet; the steps of a
\* setup that is disabled do nothing and return -1.
Abandons ==
    IF quiet
    THEN /\ disable' = TRUE
         /\ pc' = "back"
         /\ flags' = {}
         /\ UNCHANGED call
    ELSE /\ Raises
         /\ UNCHANGED <<flags, disable>>

Disabled ==
    /\ disable
    /\ pc' = "back"
    /\ flags' = {}
    /\ UNCHANGED <<who, call, line, disable>>

\* get_login(), its second try included
GetLogin ==
    /\ pc = "login"
    /\ \/ Disabled
       \/ /\ ~disable
          /\ AtLogin
          /\ line' = "shell"
          /\ who' = "login"
          /\ pc' = "ps1"
          /\ UNCHANGED <<call, flags, disable>>
       \/ /\ ~disable
          /\ Abandons
          /\ UNCHANGED <<who, line>>
    /\ UNCHANGED <<console, via, tries, inner, conn, alive, blocks, petitboot,
                   quiet>>

\* get_sudo(): root already, or a new shell whose prompt is not set
GetSudo ==
    /\ pc = "sudo"
    /\ \/ /\ AtShell
          /\ flags' = AllSet
          /\ pc' = "back"
          /\ UNCHANGED <<who, call, line, disable>>
       \/ /\ AtShell
          /\ line' \in {line, "shell"}
          /\ who' = "sudo"
          /\ pc' = "ps1"
          /\ UNCHANGED <<call, flags, disable>>
       \/ /\ Abandons
          /\ UNCHANGED <<who, line>>
    /\ UNCHANGED <<console, via, tries, inner, conn, alive, blocks, petitboot,
                   quiet>>

-----------------------------------------------------------------------------
\* set_PS1() and the recovery in it

\* A failure closes the console, blocks the setup and reconnects.  Once a
\* recovery has overwritten the setters the next one cannot call them.
SetPS1 ==
    /\ pc = "ps1"
    /\ \/ /\ Disabled
          /\ UNCHANGED <<inner, conn, alive, blocks>>
       \/ /\ ~disable
          /\ AtShell
          /\ line' = PromptSet
          /\ IF who = "sudo"
             THEN flags' = AllSet /\ pc' = "back"
             ELSE flags' = flags \cup {"PS1"} /\ pc' = "sudo"
          /\ UNCHANGED <<who, inner, call, conn, alive, blocks, disable>>
       \/ /\ ~disable
          /\ Closed
          /\ flags' = Cleared
          /\ IF shadowed
             THEN /\ Raises
                  /\ UNCHANGED <<inner, blocks>>
             ELSE /\ sysblock' = 1 /\ own' = 1
                  /\ inner' = 1
                  /\ pc' = "reconnect"
                  /\ UNCHANGED <<call, shadowed>>
          /\ UNCHANGED <<who, disable>>
    /\ UNCHANGED <<console, via, tries, petitboot, quiet>>

\* set_PS1() fails for good.  Of its callers get_sudo() goes on with a pty
\* that is closed, and raises; after the others the setup is disabled.
Unprompted ==
    IF quiet
    THEN /\ disable' = TRUE
         /\ IF who = "sudo"
            THEN Raises /\ flags' = Cleared
            ELSE pc' = "back" /\ flags' = {} /\ UNCHANGED call
    ELSE /\ Raises
         /\ flags' = Cleared
         /\ UNCHANGED disable

OneTryMore == inner <= Recoveries
TriesLeft == inner < Recoveries

\* try_recover(), whose connects set up nothing
TryRecover ==
    /\ pc = "reconnect"
    /\ \/ /\ NotSpawned
          /\ flags' = Cleared
          /\ Fails \/ (HMC /\ Raises)
          /\ UNCHANGED <<inner, disable>>
       \/ /\ Spawned
          /\ alive'
          /\ flags' = Cleared
          /\ pc' = "lastconnect" /\ UNCHANGED call
          /\ UNCHANGED <<inner, disable>>
       \/ /\ Closed
          /\ TriesLeft
          /\ inner' = inner + 1
          /\ flags' = Cleared
          /\ UNCHANGED <<pc, call, disable>>
       \/ /\ Closed
          /\ ~TriesLeft
          /\ Unprompted
          /\ UNCHANGED inner
    /\ UNCHANGED <<console, via, who, tries, blocks, petitboot, quiet>>

\* The recovered console is connected once more, the setters of the blocks
\* are overwritten where they were to be called, and the prompt is set.  The
\* caller then goes on with the pty that was closed, and raises.
LastTry ==
    /\ pc = "lastconnect"
    /\ \/ /\ NotSpawned
          /\ HMC => ~alive
          /\ flags' = Cleared
          /\ Fails \/ (HMC /\ Raises)
          /\ UNCHANGED <<shadowed, disable>>
       \/ /\ conn' = TRUE /\ alive' = TRUE
          /\ OwnSession \/ line \in Shells
          /\ line' = PromptSet
          /\ flags' = IF who = "sudo" THEN Cleared ELSE Cleared \cup {"PS1"}
          /\ shadowed' = TRUE
          /\ Raises
          /\ UNCHANGED disable
       \/ /\ Spawned
          /\ shadowed' = TRUE
          /\ Unprompted
    /\ UNCHANGED <<console, via, who, tries, inner, own, sysblock, petitboot,
                   quiet>>

-----------------------------------------------------------------------------
\* try_command() and try_sendcontrol()

Answers == alive /\ line = PromptExpected

\* The end of a session is meant to reconnect and to type the command again
\* (lines 2100 to 2122), but expect() returns an index, and no index is the
\* class EOF or TIMEOUT.
TypesAgain == IF alive THEN 1 ELSE 2
TypesOnce == 1

TypeCommand ==
    /\ pc = "type"
    /\ typed' = typed + TypesOnce
    /\ pc' = "typed"
    /\ UNCHANGED <<console, from, via, who, attempt, tries, inner, result,
                   session, blocks, modes>>

\* The prompt, and with it the exit status; a request for a password; a
\* timeout; or the end of the session.
ExpectPrompt ==
    /\ pc = "typed"
    /\ \/ /\ Answers
          /\ Idles("ok") \/ Fails
          /\ UNCHANGED session
       \/ /\ alive /\ console \in Asking
          /\ pc' = "password"
          /\ UNCHANGED <<call, session>>
       \/ /\ pc' = "console"
          /\ from' = "control"
          /\ UNCHANGED <<attempt, typed, result, session>>
       \/ /\ ~alive
          /\ Closed
          /\ flags' = Cleared
          /\ Fails
    /\ UNCHANGED <<console, via, who, tries, inner, blocks, modes>>

\* handle_password() and retry_password(): what has the password is a new
\* shell, whose prompt set_env() sets, to that of a console.
HandlePassword ==
    /\ pc = "password"
    /\ \/ /\ alive
          /\ line' = "console prompt"
          /\ Idles("ok") \/ Raises
          /\ UNCHANGED <<conn, alive, flags>>
       \/ /\ Fails
          /\ UNCHANGED session
       \/ /\ ~alive
          /\ Closed
          /\ flags' = Cleared
          /\ Raises
    /\ UNCHANGED <<console, via, who, tries, inner, blocks, modes>>

\* try_sendcontrol(): a shell that answers ^C has no output to give; without
\* one the console is closed and connected again, setup included.
TrySendcontrol ==
    /\ pc = "control"
    /\ \/ /\ AtShell
          /\ Fails
          /\ UNCHANGED <<via, tries, session>>
       \/ /\ Closed
          /\ flags' = Cleared
          /\ pc' = "connect"
          /\ via' = "rescue"
          /\ tries' = 0
          /\ UNCHANGED call
    /\ UNCHANGED <<console, who, inner, blocks, modes>>

\* try_recover(): its success is a CommandFailed, its failure is not.
Rescued ==
    /\ pc = "rescued"
    /\ \/ /\ alive
          /\ Fails
          /\ UNCHANGED <<tries, session>>
       \/ /\ Closed
          /\ flags' = Cleared
          /\ \/ /\ tries + 1 < Recoveries
                /\ tries' = tries + 1
                /\ pc' = "connect"
                /\ UNCHANGED call
             \/ /\ tries + 1 >= Recoveries
                /\ Raises
                /\ UNCHANGED tries
    /\ UNCHANGED <<console, via, who, inner, blocks, modes>>

\* The kernel crashes under an expect(): the exception ends the call, unless
\* it is raised in close().
KernelDies ==
    /\ pc \in {"vterm", "setup", "setup2", "login", "ps1", "sudo", "typed", "password", "control", "rescued"}
    /\ Raises
    /\ UNCHANGED <<console, via, who, tries, inner, session, blocks, modes>>

Drops ==
    /\ alive
    /\ alive' = FALSE
    /\ UNCHANGED <<console, pc, via, who, tries, inner, call, conn, line, flags,
                   blocks, modes>>

-----------------------------------------------------------------------------
Step ==
    \/ GetConsole \/ Connect \/ Vterm \/ Back
    \/ SetupTerm \/ SetupTermAgain \/ GetLogin \/ GetSudo
    \/ SetPS1 \/ TryRecover \/ LastTry
    \/ TypeCommand \/ ExpectPrompt \/ HandlePassword \/ TrySendcontrol \/ Rescued

Next == RunCommand \/ Look \/ StateMachine \/ Reboots \/ Step \/ KernelDies \/ Drops

\* Every expect() has a timeout, and every loop runs on.
Spec == Init /\ [][Next]_vars /\ WF_vars(Step)

-----------------------------------------------------------------------------
(* A console whose flags say that its prompt is set and its shell is       *)
(* root's is at the prompt run_command() waits for, whatever recovery,     *)
(* failed setup or reconnect came before (check_set_term, set_PS1); unless *)
(* the console of an HMC set the flags without a prompt.                   *)
PromptTracked ==
    pc \in {"idle", "type"} /\ Ready /\ "unseen" \notin flags
        => line = PromptExpected

(* A command is typed on a line that was not set up only when the setup is *)
(* blocked or quiet, or the line is Petitboot's (setup_term).              *)
UnreadyIsExcused ==
    pc = "type" => Ready \/ Blocked \/ petitboot \/ quiet \/ line = "menu"

(* A call types its command once for each attempt, and no attempt that     *)
(* lost its console types it again (run_command, try_command).             *)
OncePerAttempt == typed <= attempt + 1

(* run_command() returns or raises, whatever its sessions do: its retries, *)
(* reconnects and recoveries are counted across each other.                *)
CallsEnd == pc # "idle" ~> pc = "idle"

(* What set_PS1() says of the blocks it sets, "they'll get reset": where   *)
(* the state machine allows the setup, a command is typed on a line that   *)
(* is set up.                                                              *)
SetUpAgain ==
    pc = "type" /\ sysblock = 0 /\ ~petitboot /\ ~quiet /\ line # "menu" => Ready
=============================================================================
