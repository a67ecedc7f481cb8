--------------------------- MODULE Terminal_proofs ---------------------------
(***************************************************************************)
(* What a command on a console is promised, for every set of consoles and  *)
(* every number of retries, recoveries and reconnects: how often it is     *)
(* typed, on which lines, and what the flags say of the line it leaves.    *)
(***************************************************************************)
EXTENDS Terminal, TLAPS

-----------------------------------------------------------------------------
(* How often a command is typed.                                           *)

\* The three parts of TypeOK: the call, the return addresses and counters of
\* the functions it is in, and the console.
CallOK ==
    /\ pc \in {"idle"} \cup Connecting \cup SettingUp \cup Commanding
    /\ from \in {"type", "control", "look"}
    /\ attempt \in 0 .. Retries
    /\ typed \in 0 .. Retries + 1
    /\ result \in {"none", "ok", "failed", "raised"}

PlaceOK ==
    /\ via \in {"check", "open", "loop", "rescue"}
    /\ who \in {"login", "shell", "sudo"}
    /\ tries \in 0 .. Recoveries - 1 \/ tries \in 0 .. Reconnects
    /\ inner \in 0 .. Recoveries

LineOK ==
    /\ console \in Consoles
    /\ conn \in BOOLEAN /\ alive \in BOOLEAN
    /\ line \in Shells \cup {"login", "menu"}
    /\ flags \subseteq AllSet \cup {"unseen"}
    /\ own \in -1 .. 1
    /\ sysblock \in 0 .. 1
    /\ petitboot \in BOOLEAN /\ quiet \in BOOLEAN /\ disable \in BOOLEAN
    /\ shadowed \in BOOLEAN

LEMMA Parts == (TypeOK <=> CallOK /\ PlaceOK /\ LineOK)
               /\ (TypeOK' <=> CallOK' /\ PlaceOK' /\ LineOK')
  BY Zenon DEF TypeOK, CallOK, PlaceOK, LineOK

\* While a call is on its way to type its command, the attempts before this one
\* have typed it at most once each; whoever else asked for the console, the
\* recovery of try_sendcontrol(), never gets to type it.
Once ==
    /\ OncePerAttempt
    /\ pc \notin {"idle", "typed", "password"} /\ from = "type" => typed <= attempt
    /\ pc = "type" => from = "type"

\* What a step of a call does to its counters, whichever function it is in.
OnTheWay ==
    /\ pc \notin {"idle", "type", "typed", "password"} /\ UNCHANGED call
    /\ \/ pc' \in Connecting \cup SettingUp \cup {"rescued"}
       \/ pc' = from /\ from \in {"type", "control"}
Expects ==
    /\ pc = "typed"
    /\ \/ pc' = "password" /\ UNCHANGED call
       \/ pc' = "console" /\ from' = "control" /\ UNCHANGED <<attempt, typed, result>>
Ends == Idles("ok") \/ Idles("failed") \/ Idles("raised")

LEMMA StepCounts ==
    ASSUME CallOK, Step PROVE OnTheWay \/ TypeCommand \/ Expects \/ Fails \/ Ends
<1> USE DEF OnTheWay, Connecting, SettingUp
<1>1. CASE GetConsole
  BY <1>1 DEF GetConsole, CheckSetTerm
<1>2. CASE Connect
  BY <1>2 DEF Connect, CheckSetTerm, Raises, Ends
<1>3. CASE Vterm
  BY <1>3 DEF Vterm, CheckSetTerm, Raises, Ends
<1>4. CASE Back
  BY <1>4 DEF Back, CheckSetTerm, Delivers, Raises, Ends, CallOK
<1>5. CASE SetupTerm \/ SetupTermAgain
  BY <1>5 DEF SetupTerm, SetupTermAgain, SetsUp, Raises, Ends
<1>6. CASE GetLogin \/ GetSudo
  BY <1>6 DEF GetLogin, GetSudo, Disabled, Abandons, Raises, Ends
<1>7. CASE SetPS1
  BY <1>7 DEF SetPS1, Disabled, Raises, Ends
<1>8. CASE TryRecover
  BY <1>8 DEF TryRecover, Unprompted, Raises, Ends
<1>9. CASE LastTry
  BY <1>9 DEF LastTry, Unprompted, Raises, Ends
<1>10. CASE ExpectPrompt
  BY <1>10 DEF ExpectPrompt, Expects, Ends
<1>11. CASE HandlePassword
  BY <1>11 DEF HandlePassword, Raises, Ends
<1>12. CASE TrySendcontrol \/ Rescued
  BY <1>12 DEF TrySendcontrol, Rescued, Raises, Ends
<1>13. QED
  BY <1>1, <1>2, <1>3, <1>4, <1>5, <1>6, <1>7, <1>8, <1>9, <1>10, <1>11, <1>12 DEF Step

LEMMA CountersStep ==
    ASSUME CallOK, Once, Step PROVE CallOK' /\ Once'
<1> USE DEF CallOK, Once, OncePerAttempt, call
<1>1. CASE OnTheWay
  BY <1>1 DEF OnTheWay, Connecting, SettingUp, Commanding
<1>2. CASE TypeCommand
  BY <1>2, CountsAssumption DEF TypeCommand, TypesOnce, Commanding
<1>3. CASE Expects
  BY <1>3 DEF Expects, Connecting, Commanding
<1>4. CASE Ends
  BY <1>4 DEF Ends, Idles
<1>5. CASE Fails
  BY <1>5, CountsAssumption DEF Fails, Raises, Idles, Counted, Connecting
<1>6. QED BY <1>1, <1>2, <1>3, <1>4, <1>5, StepCounts

-----------------------------------------------------------------------------
(* Where the call is, and the console.                                     *)

LEMMA PlaceStep ==
    ASSUME PlaceOK, Step PROVE PlaceOK'
<1> USE CountsAssumption DEF PlaceOK
<1>1. CASE GetConsole
  BY <1>1 DEF GetConsole
<1>2. CASE Vterm
  BY <1>2 DEF Vterm
<1>3. CASE Back
  BY <1>3 DEF Back, Again
<1>4. CASE SetupTerm \/ SetupTermAgain
  BY <1>4 DEF SetupTerm, SetupTermAgain, SetsUp
<1>5. CASE GetLogin \/ GetSudo
  BY <1>5 DEF GetLogin, GetSudo, Disabled
<1>6. CASE SetPS1
  BY <1>6 DEF SetPS1, Disabled
<1>7. CASE TryRecover
  BY <1>7 DEF TryRecover, TriesLeft
<1>8. CASE TrySendcontrol
  BY <1>8 DEF TrySendcontrol
<1>9. CASE Rescued
  BY <1>9 DEF Rescued
<1>10. CASE Connect \/ LastTry \/ TypeCommand \/ ExpectPrompt \/ HandlePassword
  BY <1>10 DEF Connect, LastTry, TypeCommand, ExpectPrompt, HandlePassword
<1>11. QED
  BY <1>1, <1>2, <1>3, <1>4, <1>5, <1>6, <1>7, <1>8, <1>9, <1>10 DEF Step

\* Closing and opening a session, however it ends, keeps the console in type.
LEMMA SessionTypes ==
    ASSUME LineOK
    PROVE  /\ Closed \/ Spawned \/ NotSpawned =>
                /\ conn' \in BOOLEAN /\ alive' \in BOOLEAN
                /\ line' \in Shells \cup {"login", "menu"}
           /\ Cleared \subseteq AllSet \cup {"unseen"}
           /\ PromptSet \in Shells
  BY DEF LineOK, Closed, Spawned, NotSpawned, Cleared, PromptSet, Shells

\* The endings of a failed setup leave the flags in type.
LEMMA AbandonTypes ==
    ASSUME LineOK
    PROVE  /\ Abandons \/ Disabled \/ Unprompted =>
                flags' \subseteq AllSet \cup {"unseen"} /\ disable' \in BOOLEAN
  BY SessionTypes DEF LineOK, Abandons, Disabled, Unprompted

LEMMA LineStep ==
    ASSUME LineOK, Step PROVE LineOK'
<1> USE SessionTypes, AbandonTypes DEF session, blocks, modes
<1>1. CASE GetConsole \/ TypeCommand
  BY <1>1 DEF GetConsole, TypeCommand, LineOK
<1>2. CASE Connect
  BY <1>2 DEF Connect, LineOK
<1>3. CASE Vterm
  BY <1>3 DEF Vterm, Cheated, AllSet, Shells, LineOK
<1>4. CASE Back
  BY <1>4 DEF Back, Delivers, LineOK
<1>5. CASE SetupTerm
  BY <1>5 DEF SetupTerm, LineOK
<1>6. CASE SetupTermAgain
  BY <1>6 DEF SetupTermAgain, LineOK
<1>7. CASE GetLogin
  <2>1. flags' \subseteq AllSet \cup {"unseen"} /\ line' \in {line, "shell"}
    BY <1>7 DEF GetLogin, Abandons, Disabled, LineOK
  <2>2. disable' \in BOOLEAN
    BY <1>7 DEF GetLogin, LineOK
  <2>3. QED BY <1>7, <2>1, <2>2 DEF GetLogin, Shells, LineOK
<1>8. CASE GetSudo
  BY <1>8 DEF GetSudo, Shells, LineOK
<1>9. CASE SetPS1
  <2>1. flags' \subseteq AllSet \cup {"unseen"}
    BY <1>9 DEF SetPS1, Disabled, AllSet, LineOK
  <2>2. line' \in {line, PromptSet} /\ disable' \in BOOLEAN
    BY <1>9 DEF SetPS1, Disabled, Closed, LineOK
  <2>3. conn' \in BOOLEAN /\ alive' \in BOOLEAN
    BY <1>9 DEF SetPS1, Closed, LineOK
  <2>4. own' \in -1 .. 1 /\ sysblock' \in 0 .. 1 /\ shadowed' \in BOOLEAN
    BY <1>9 DEF SetPS1, LineOK
  <2>5. QED BY <1>9, <2>1, <2>2, <2>3, <2>4 DEF SetPS1, LineOK
<1>10. CASE TryRecover
  BY <1>10 DEF TryRecover, LineOK
<1>11. CASE LastTry
  BY <1>11 DEF LastTry, AllSet, LineOK
<1>12. CASE ExpectPrompt
  BY <1>12 DEF ExpectPrompt, LineOK
<1>13. CASE HandlePassword
  BY <1>13 DEF HandlePassword, Shells, LineOK
<1>14. CASE TrySendcontrol
  BY <1>14 DEF TrySendcontrol, LineOK
<1>15. CASE Rescued
  BY <1>15 DEF Rescued, LineOK
<1>16. QED
  BY <1>1, <1>2, <1>3, <1>4, <1>5, <1>6, <1>7, <1>8, <1>9, <1>10, <1>11, <1>12, <1>13,
     <1>14, <1>15 DEF Step

-----------------------------------------------------------------------------
(* Types, and how often a command is typed                                 *)

\* What is not a step of a call: a new one, the world around it, or nothing.
Around == RunCommand \/ Look \/ StateMachine \/ Reboots \/ KernelDies \/ Drops
          \/ UNCHANGED vars

LEMMA AroundCounts ==
    ASSUME TypeOK, Once, Around PROVE TypeOK' /\ Once'
<1>0. CallOK /\ PlaceOK /\ LineOK BY Parts
<1> USE <1>0, CountsAssumption DEF Once, OncePerAttempt, call, session, blocks, modes
<1>1. CASE RunCommand
  <2>1. CallOK' BY <1>1 DEF RunCommand, CallOK, Connecting
  <2>2. PlaceOK' /\ LineOK' BY <1>1 DEF RunCommand, PlaceOK, LineOK
  <2>3. Once' BY <1>1 DEF RunCommand
  <2>4. QED BY <2>1, <2>2, <2>3, Parts
<1>2. CASE Look
  <2>1. CallOK' BY <1>2 DEF Look, CallOK, Connecting
  <2>2. PlaceOK' BY <1>2 DEF Look, PlaceOK
  <2>3. quiet' \in BOOLEAN /\ disable' \in BOOLEAN /\ petitboot' \in BOOLEAN
    BY <1>2, Zenon DEF Look, LineOK
  <2>4. LineOK' BY <1>2, <2>3 DEF Look, LineOK
  <2>5. Once' BY <1>2 DEF Look
  <2>6. QED BY <2>1, <2>2, <2>4, <2>5, Parts
<1>3. CASE StateMachine
  <2>1. CallOK' /\ PlaceOK' BY <1>3 DEF StateMachine, CallOK, PlaceOK
  <2>2. LineOK' BY <1>3 DEF StateMachine, LineOK
  <2>3. Once' BY <1>3 DEF StateMachine
  <2>4. QED BY <2>1, <2>2, <2>3, Parts
<1>4. CASE Reboots
  <2>1. CallOK' /\ PlaceOK' BY <1>4 DEF Reboots, CallOK, PlaceOK
  <2>2. LineOK' BY <1>4 DEF Reboots, LineOK, Shells
  <2>3. Once' BY <1>4 DEF Reboots
  <2>4. QED BY <2>1, <2>2, <2>3, Parts
<1>5. CASE KernelDies
  <2>1. CallOK' BY <1>5 DEF KernelDies, Raises, Idles, CallOK
  <2>2. PlaceOK' /\ LineOK' BY <1>5 DEF KernelDies, PlaceOK, LineOK
  <2>3. Once' BY <1>5 DEF KernelDies, Raises, Idles
  <2>4. QED BY <2>1, <2>2, <2>3, Parts
<1>6. CASE Drops
  <2>1. CallOK' /\ PlaceOK' BY <1>6 DEF Drops, CallOK, PlaceOK
  <2>2. LineOK' BY <1>6 DEF Drops, LineOK
  <2>3. Once' BY <1>6 DEF Drops
  <2>4. QED BY <2>1, <2>2, <2>3, Parts
<1>7. CASE UNCHANGED vars
  <2>1. CallOK' /\ PlaceOK' BY <1>7 DEF vars, CallOK, PlaceOK
  <2>2. LineOK' BY <1>7 DEF vars, LineOK
  <2>3. Once' BY <1>7 DEF vars
  <2>4. QED BY <2>1, <2>2, <2>3, Parts
<1>8. QED
  BY <1>1, <1>2, <1>3, <1>4, <1>5, <1>6, <1>7 DEF Around

LEMMA CountsStep ==
    ASSUME TypeOK, Once, [Next]_vars PROVE TypeOK' /\ Once'
<1>1. CASE Step
  BY <1>1, Parts, CountersStep, PlaceStep, LineStep
<1>2. CASE Around
  BY <1>2, AroundCounts
<1>3. QED BY <1>1, <1>2 DEF Next, Around

LEMMA CountsInit == Init => TypeOK /\ Once
<1> SUFFICES ASSUME Init PROVE TypeOK /\ Once
  OBVIOUS
<1> USE CountsAssumption DEF Init
<1>1. CallOK BY DEF CallOK
<1>2. PlaceOK BY DEF PlaceOK
<1>3. LineOK
  <2>1. /\ conn \in BOOLEAN /\ alive \in BOOLEAN /\ petitboot \in BOOLEAN
        /\ quiet \in BOOLEAN /\ disable \in BOOLEAN /\ shadowed \in BOOLEAN
    BY Zenon
  <2>2. QED BY <2>1 DEF LineOK, Shells
<1>4. Once BY DEF Once, OncePerAttempt
<1>5. QED BY <1>1, <1>2, <1>3, <1>4, Parts

LEMMA Counts == Spec => [](TypeOK /\ Once)
<1>1. Init => TypeOK /\ Once BY CountsInit
<1>2. TypeOK /\ Once /\ [Next]_vars => (TypeOK /\ Once)' BY CountsStep
<1>3. QED BY <1>1, <1>2, PTL DEF Spec

\* Whatever a console does, a call keeps its counters within retry, and its
\* attempts, recoveries and reconnects within what the code makes of them.
THEOREM TypeCorrect == Spec => []TypeOK
  BY Counts, PTL

\* However many retries, recoveries and reconnects a call goes through, across
\* run_command(), try_sendcontrol() and get_console(), it types its command at
\* most once for each attempt.
THEOREM TypedOncePerAttempt == Spec => []OncePerAttempt
<1>1. Once => OncePerAttempt BY DEF Once
<1>2. QED BY <1>1, Counts, PTL

-----------------------------------------------------------------------------
(* On which lines a command is typed                                       *)

\* What excuses a line that was not set up, from setup_term() to the caller of
\* get_console(): the recovery of try_sendcontrol() alone is not asked.
Excused == Ready \/ Blocked \/ petitboot \/ quiet \/ line = "menu"

Excuses ==
    /\ disable => quiet
    /\ pc = "back" => via = "rescue" \/ Excused
    /\ pc = "type" => Excused

\* check_set_term() sets up what nothing excuses.
LEMMA Checked ==
    /\ CheckSetTerm(flags) = "back" => Excused
    /\ flags' = Cleared /\ UNCHANGED <<console, blocks, modes>> =>
            (CheckSetTerm(Cleared) = "back" => Excused')
    /\ UNCHANGED <<console, blocks, modes>> =>
            (CheckSetTerm(flags') = "back" => Excused')
    /\ \A set : CheckSetTerm(set) \in {"back", "setup"}
  BY DEF CheckSetTerm, Excused, Ready, AllOf, Blocked, IsSSH, blocks, modes

\* A setup that is abandoned is quiet.
LEMMA AbandonedQuietly ==
    ASSUME disable => quiet, UNCHANGED quiet,
           Abandons \/ Disabled \/ Unprompted
    PROVE  (disable' => quiet') /\ pc' # "type" /\ (pc' = "back" => Excused')
  BY Zenon DEF Abandons, Disabled, Unprompted, Raises, Idles, Excused

LEMMA FailsAnew == Fails \/ Raises => pc' \in {"idle", "console"}
  BY DEF Fails, Raises, Idles

LEMMA ExcusesStep ==
    ASSUME CallOK, Excuses, Step PROVE Excuses'
<1> DEFINE Elsewhere == pc' \notin {"back", "type"} /\ UNCHANGED modes
           Lands == UNCHANGED modes /\ pc' # "type" /\ (pc' = "back" => Excused')
<1>0. /\ Elsewhere => Excuses'
      /\ Lands => Excuses'
      /\ pc' \notin {"back", "type"} /\ (disable' => quiet') => Excuses'
  BY DEF Excuses, modes
<1> HIDE DEF Elsewhere, Lands
<1>1. CASE GetConsole
  <2>1. CheckSetTerm(flags) = "back" => Excused'
    BY <1>1, Checked DEF GetConsole, session, blocks, modes, Excused, Ready, AllOf, Blocked, IsSSH
  <2>2. Lands BY <1>1, <2>1, Checked DEF GetConsole, Lands
  <2>3. QED BY <1>0, <2>2
<1>2. CASE Connect
  <2>1. CASE pc' = "back" /\ via = "rescue"
    BY <1>2, <2>1 DEF Connect, Excuses, modes
  <2>2. CASE ~(pc' = "back" /\ via = "rescue")
    <3>1. Lands BY <1>2, <2>2, FailsAnew, Checked DEF Connect, Lands, blocks, modes
    <3>2. QED BY <1>0, <3>1
  <2>3. QED BY <2>1, <2>2
<1>3. CASE Vterm
  <2>1. Lands BY <1>3, FailsAnew, Checked DEF Vterm, Lands, blocks, modes
  <2>2. QED BY <1>0, <2>1
<1>4. CASE Back
  <2>0. UNCHANGED <<console, session, blocks>> BY <1>4 DEF Back
  <2>1. CASE UNCHANGED modes
    <3>1. Excused' <=> Excused
      BY <2>0, <2>1 DEF Excused, Ready, AllOf, Blocked, IsSSH, session, blocks, modes
    <3>2. CASE via \in {"check", "open"} /\ Delivers
      BY <1>4, <3>1, <3>2, <2>1 DEF Back, Delivers, Excuses, modes, CallOK, Idles
    <3>3. CASE pc' = CheckSetTerm(flags)
      <4>1. Lands BY <3>1, <3>3, <2>1, Checked DEF Lands
      <4>2. QED BY <1>0, <4>1
    <3>4. CASE Raises \/ pc' \in {"connect", "rescued"}
      <4>1. Elsewhere BY <3>4, <2>1, FailsAnew DEF Elsewhere
      <4>2. QED BY <1>0, <4>1
    <3>5. QED BY <1>4, <3>2, <3>3, <3>4 DEF Back
  <2>2. CASE ~ UNCHANGED modes
    <3>1. pc' = "idle" /\ disable' = FALSE
      BY <1>4, <2>2 DEF Back, Delivers, Idles
    <3>2. QED BY <1>0, <3>1
  <2>3. QED BY <2>1, <2>2
<1>5. CASE SetupTerm
  <2>1. Lands BY <1>5, FailsAnew DEF SetupTerm, SetsUp, AtMenu, session, modes, Lands, Excused
  <2>2. QED BY <1>0, <2>1
<1>6. CASE SetupTermAgain
  <2>1. Lands BY <1>6, FailsAnew, Zenon DEF SetupTermAgain, SetsUp, modes, Lands, Excused
  <2>2. QED BY <1>0, <2>1
<1>7. CASE GetLogin
  <2>1. CASE Disabled \/ Abandons
    BY <1>7, <2>1, AbandonedQuietly DEF GetLogin, Excuses
  <2>2. CASE pc' = "ps1" /\ UNCHANGED disable
    BY <1>7, <2>2 DEF GetLogin, Excuses
  <2>3. QED BY <1>7, <2>1, <2>2 DEF GetLogin
<1>8. CASE GetSudo
  <2>1. CASE Abandons
    BY <1>8, <2>1, AbandonedQuietly DEF GetSudo, Excuses
  <2>2. CASE pc' = "ps1" /\ UNCHANGED disable
    BY <1>8, <2>2 DEF GetSudo, Excuses
  <2>3. CASE pc' = "back" /\ flags' = AllSet /\ UNCHANGED disable
    BY <1>8, <2>3 DEF GetSudo, Excuses, Excused, Ready, AllOf
  <2>4. QED BY <1>8, <2>1, <2>2, <2>3 DEF GetSudo
<1>9. CASE SetPS1
  <2>1. CASE Disabled
    BY <1>9, <2>1, AbandonedQuietly DEF SetPS1, Excuses
  <2>2. CASE pc' \in {"sudo", "reconnect"} \/ Raises
    BY <1>9, <2>2, <1>0, FailsAnew DEF SetPS1, Excuses, Disabled
  <2>3. CASE pc' = "back" /\ flags' = AllSet /\ UNCHANGED disable
    BY <1>9, <2>3 DEF SetPS1, Excuses, Excused, Ready, AllOf
  <2>4. QED BY <1>9, <2>1, <2>2, <2>3 DEF SetPS1
<1>10. CASE TryRecover
  <2>1. CASE Unprompted
    BY <1>10, <2>1, AbandonedQuietly DEF TryRecover, Excuses
  <2>2. CASE ~Unprompted
    BY <1>10, <2>2, FailsAnew DEF TryRecover, Excuses
  <2>3. QED BY <2>1, <2>2
<1>11. CASE LastTry
  <2>1. CASE Unprompted
    BY <1>11, <2>1, AbandonedQuietly DEF LastTry, Excuses
  <2>2. CASE ~Unprompted
    BY <1>11, <2>2, FailsAnew DEF LastTry, Excuses
  <2>3. QED BY <2>1, <2>2
<1>12. CASE TypeCommand \/ ExpectPrompt \/ HandlePassword \/ TrySendcontrol \/ Rescued
  <2>1. Elsewhere
    BY <1>12, FailsAnew
    DEF TypeCommand, ExpectPrompt, HandlePassword, TrySendcontrol, Rescued, Idles, Elsewhere
  <2>2. QED BY <1>0, <2>1
<1>13. QED
  BY <1>1, <1>2, <1>3, <1>4, <1>5, <1>6, <1>7, <1>8, <1>9, <1>10, <1>11, <1>12 DEF Step

LEMMA ExcusesKept ==
    ASSUME TypeOK, Excuses, [Next]_vars PROVE Excuses'
<1>1. CASE Step
  BY <1>1, Parts, ExcusesStep
<1>2. CASE RunCommand \/ KernelDies
  BY <1>2, FailsAnew DEF RunCommand, KernelDies, Excuses, modes
<1>3. CASE Look
  BY <1>3 DEF Look, Excuses
<1>4. CASE StateMachine \/ Reboots
  BY <1>4 DEF StateMachine, Reboots, Excuses, modes
<1>5. CASE Drops \/ UNCHANGED vars
  <2>1. UNCHANGED <<console, pc, via, line, flags, blocks, modes>>
    BY <1>5 DEF Drops, vars, session
  <2>2. QED
    BY <2>1 DEF Excuses, Excused, Ready, AllOf, Blocked, IsSSH, blocks, modes
<1>6. QED BY <1>1, <1>2, <1>3, <1>4, <1>5 DEF Next

\* Whatever console, retries and recoveries: a command is typed on a line that
\* was not set up only where the setup is blocked or quiet, or in Petitboot.
THEOREM UnreadyExcused == Spec => []UnreadyIsExcused
<1>1. Init => Excuses BY DEF Init, Excuses
<1>2. TypeOK /\ Excuses /\ [Next]_vars => Excuses' BY ExcusesKept
<1>3. Excuses => UnreadyIsExcused BY DEF Excuses, Excused, UnreadyIsExcused
<1>4. QED BY <1>1, <1>2, <1>3, TypeCorrect, PTL DEF Spec

-----------------------------------------------------------------------------
(* What the flags say of the prompt                                        *)

\* The prompt that is set is the one that is expected: not so on a console at
\* port 2200, nor in the shell that an ssh session's password opens.
PromptsAgree == "host2200" \notin Consoles /\ "ssh" \notin Asking

LEMMA Agree ==
    ASSUME PromptsAgree, LineOK
    PROVE  /\ PromptSet = PromptExpected
           /\ HMC \/ console \in Asking => PromptExpected = "console prompt"
           /\ PromptSet # "shell"
  BY DEF PromptsAgree, LineOK, PromptSet, PromptExpected, HMC, IsSSH, OwnSession

\* The flags never say more than the line: on the way through setup_term() they
\* are not all set, and SUDO_set is never set alone.
Tracked == Ready /\ "unseen" \notin flags => line = PromptExpected

Prompts ==
    /\ Tracked
    /\ "SUDO" \in flags => "PS1" \in flags
    /\ pc \in SettingUp => ~Ready
    /\ pc = "sudo" => line = PromptSet
    /\ pc = "password" => console \in Asking
    /\ pc = "vterm" => HMC

\* Clearing the flags of a console, or all flags, leaves nothing to say.
LEMMA ClearedSays ==
    ASSUME Prompts, UNCHANGED console
    PROVE  /\ flags' = {} => Tracked' /\ ~Ready' /\ "SUDO" \notin flags'
           /\ flags' \in {flags, Cleared} =>
                /\ "SUDO" \in flags' => "PS1" \in flags'
                /\ Ready' => Ready /\ UNCHANGED flags
           /\ flags' \in {flags, Cleared} /\ UNCHANGED line => Tracked'
           /\ Spawned /\ flags' = Cleared => Tracked'
  BY DEF Prompts, Tracked, Cleared, Spawned, Ready, AllOf, AllSet, PromptExpected, IsSSH, OwnSession

\* The prompt may change while the flags do not say that it is set.
LEMMA Unsaid ==
    ASSUME ~Ready' \/ "unseen" \in flags' PROVE Tracked'
  BY DEF Tracked, Ready, AllOf

LEMMA Setups ==
    /\ Idles("ok") \/ Raises \/ Fails => pc' \in {"idle", "console"}
    /\ \A set : CheckSetTerm(set) \in {"back", "setup"}
    /\ \A set : CheckSetTerm(set) = "setup" => ~AllOf(set)
  BY DEF Fails, Raises, Idles, CheckSetTerm

\* A step of the setup that fails or gives up keeps the flags or clears them.
LEMMA GivenUp ==
    ASSUME Abandons \/ Disabled \/ Unprompted
    PROVE  pc' \in {"idle", "back"} /\ flags' \in {flags, Cleared, {}}
  BY DEF Abandons, Disabled, Unprompted, Raises, Idles

LEMMA Says ==
    ASSUME Prompts, UNCHANGED console, flags' \in {flags, Cleared, {}},
           UNCHANGED line \/ (Spawned /\ flags' = Cleared),
           \/ pc' \in {"idle", "console", "connect", "back", "control", "type", "typed", "rescued"}
           \/ pc' \in SettingUp \ {"sudo"} /\ ~Ready
    PROVE  Prompts'
  BY ClearedSays DEF Prompts, SettingUp

LEMMA PromptsStep ==
    ASSUME PromptsAgree, CallOK, LineOK, Prompts, Step PROVE Prompts'
<1> USE DEF session
<1>1. CASE GetConsole
  BY <1>1, Says, Setups DEF GetConsole, SettingUp, Ready
<1>2. CASE Connect
  <2>1. Tracked' BY <1>2, ClearedSays DEF Connect, NotSpawned
  <2>2. "SUDO" \in flags' => "PS1" \in flags' BY <1>2, ClearedSays DEF Connect
  <2>3. pc' \in {"idle", "console", "back", "setup", "vterm"} BY <1>2, Setups DEF Connect
  <2>4. pc' = "setup" => ~Ready' BY <1>2, Setups DEF Connect, Ready
  <2>5. pc' = "vterm" => HMC' BY <1>2, Setups DEF Connect, HMC
  <2>6. QED BY <2>1, <2>2, <2>3, <2>4, <2>5 DEF Prompts, SettingUp
<1>3. CASE Vterm
  <2>1. HMC BY <1>3 DEF Vterm, Prompts
  <2>2. Tracked'
    <3>1. CASE flags' \in {{}, flags} /\ UNCHANGED <<line, console>>
      BY <3>1, ClearedSays
    <3>2. CASE line' = "console prompt" /\ UNCHANGED console
      BY <2>1, <3>2, Agree DEF Tracked, PromptExpected, IsSSH
    <3>3. CASE "unseen" \in flags'
      BY <3>3, Unsaid
    <3>4. QED BY <1>3, <3>1, <3>2, <3>3 DEF Vterm, Cheated
  <2>3. "SUDO" \in flags' => "PS1" \in flags'
    BY <1>3 DEF Vterm, Cheated, AllSet, Prompts
  <2>4. pc' = "idle" \/ pc' = CheckSetTerm(flags')
    BY <1>3 DEF Vterm, Raises, Idles
  <2>5. CheckSetTerm(flags') \in {"back", "setup"} BY Setups
  <2>6. CheckSetTerm(flags') = "setup" => ~Ready' BY Setups DEF Ready
  <2>7. QED BY <2>2, <2>3, <2>4, <2>5, <2>6 DEF Prompts, SettingUp
<1>4. CASE Back
  <2>1. pc' \in {"idle", "connect", "back", "control", "type", "rescued"} \/ (pc' = "setup" /\ ~Ready)
    <3>1. CASE pc' = CheckSetTerm(flags)
      BY <3>1, Setups DEF Ready
    <3>2. CASE Delivers
      BY <3>2 DEF Delivers, Idles, CallOK
    <3>3. QED BY <1>4, <3>1, <3>2 DEF Back, Raises, Idles
  <2>2. QED BY <1>4, <2>1, Says DEF Back, SettingUp
<1>5. CASE SetupTerm
  BY <1>5, Says, Setups DEF SetupTerm, SetsUp, Closed, SettingUp, Prompts
<1>6. CASE SetupTermAgain
  BY <1>6, Says, Setups DEF SetupTermAgain, SetsUp, Closed, SettingUp, Prompts
<1>7. CASE GetLogin
  <2>1. CASE Disabled \/ Abandons
    BY <1>7, <2>1, GivenUp, Says DEF GetLogin, Disabled
  <2>2. CASE pc' = "ps1" /\ UNCHANGED flags
    <3>1. ~Ready' BY <1>7, <2>2 DEF GetLogin, Prompts, SettingUp, Ready
    <3>2. QED BY <1>7, <2>2, <3>1, Unsaid DEF GetLogin, Prompts, SettingUp
  <2>3. QED BY <1>7, <2>1, <2>2 DEF GetLogin
<1>8. CASE GetSudo
  <2>1. CASE Abandons
    BY <1>8, <2>1, GivenUp, Says DEF GetSudo, AllSet
  <2>2. CASE pc' = "ps1" /\ UNCHANGED flags
    <3>1. ~Ready' BY <1>8, <2>2 DEF GetSudo, Prompts, SettingUp, Ready
    <3>2. QED BY <1>8, <2>2, <3>1, Unsaid DEF GetSudo, Prompts, SettingUp
  <2>3. CASE pc' = "back" /\ flags' = AllSet /\ UNCHANGED line
    <3>1. line' = PromptExpected' 
      BY <1>8, <2>3, Agree DEF GetSudo, Prompts, PromptExpected, IsSSH
    <3>2. QED BY <2>3, <3>1 DEF Prompts, Tracked, AllSet, SettingUp
  <2>4. QED BY <1>8, <2>1, <2>2, <2>3 DEF GetSudo
<1>9. CASE SetPS1
  <2>0. UNCHANGED console /\ ~Ready BY <1>9 DEF SetPS1, Prompts, SettingUp
  <2>1. CASE Disabled
    BY <2>0, <2>1, GivenUp, Says DEF Disabled
  <2>2. CASE line' = PromptSet /\ flags' = AllSet /\ pc' = "back"
    <3>1. line' = PromptExpected'
      BY <2>0, <2>2, Agree DEF PromptExpected, IsSSH
    <3>2. QED BY <2>2, <3>1 DEF Prompts, Tracked, AllSet, SettingUp
  <2>3. CASE line' = PromptSet /\ flags' = flags \cup {"PS1"} /\ pc' = "sudo"
    <3>1. "SUDO" \notin flags'
      BY <2>0, <2>3 DEF Prompts, Ready, AllOf, AllSet
    <3>2. ~Ready' BY <3>1 DEF Ready, AllOf, AllSet
    <3>3. line' = PromptSet' BY <2>0, <2>3 DEF PromptSet, OwnSession
    <3>4. QED BY <2>3, <3>1, <3>2, <3>3, Unsaid DEF Prompts
  <2>4. CASE Closed /\ flags' = Cleared /\ (Raises \/ pc' = "reconnect")
    BY <2>0, <2>4, Says, Setups DEF Closed, SettingUp
  <2>5. QED BY <1>9, <2>1, <2>2, <2>3, <2>4 DEF SetPS1
<1>10. CASE TryRecover
  <2>0. UNCHANGED console /\ ~Ready BY <1>10 DEF TryRecover, Prompts, SettingUp
  <2>1. CASE Unprompted
    BY <1>10, <2>0, <2>1, GivenUp, Says DEF TryRecover, NotSpawned, Closed, Unprompted
  <2>2. CASE flags' = Cleared /\ (UNCHANGED line \/ Spawned)
             /\ pc' \in {"idle", "console", "reconnect", "lastconnect"}
    BY <2>0, <2>2, Says DEF SettingUp
  <2>3. QED BY <1>10, <2>1, <2>2, Setups DEF TryRecover, NotSpawned, Closed
<1>11. CASE LastTry
  <2>0. UNCHANGED console /\ ~Ready BY <1>11 DEF LastTry, Prompts, SettingUp
  <2>1. CASE NotSpawned /\ flags' = Cleared /\ (Fails \/ Raises)
    BY <2>0, <2>1, Setups, Says DEF NotSpawned
  <2>2. CASE flags' \in {Cleared, Cleared \cup {"PS1"}} /\ Raises
    <3>1. "SUDO" \notin flags' \/ UNCHANGED flags
      BY <2>0, <2>2 DEF Prompts, Ready, AllOf, AllSet, Cleared
    <3>2. ~Ready' BY <2>0, <3>1 DEF Ready, AllOf, AllSet
    <3>3. QED BY <2>0, <2>2, <3>1, <3>2, Unsaid, Setups DEF Prompts, SettingUp
  <2>3. CASE Spawned /\ Unprompted
    <3>1. flags' = Cleared \/ flags' = {} \/ UNCHANGED flags
      BY <2>3, GivenUp
    <3>2. ~Ready' BY <2>0, <3>1, ClearedSays DEF Ready
    <3>3. "SUDO" \in flags' => "PS1" \in flags' BY <2>0, <3>1, ClearedSays
    <3>4. QED BY <2>3, <3>2, <3>3, Unsaid, GivenUp DEF Prompts, SettingUp
  <2>4. QED BY <1>11, <2>1, <2>2, <2>3 DEF LastTry
<1>12. CASE TypeCommand \/ TrySendcontrol \/ Rescued
  BY <1>12, Says, Setups
  DEF TypeCommand, TrySendcontrol, Rescued, Closed
<1>13. CASE ExpectPrompt
  <2>1. CASE pc' = "password" /\ console \in Asking /\ UNCHANGED <<line, flags, console>>
    BY <2>1, ClearedSays DEF Prompts, SettingUp
  <2>2. CASE pc' # "password"
    BY <1>13, <2>2, Says, Setups DEF ExpectPrompt, Closed
  <2>3. QED BY <1>13, <2>1, <2>2, Setups DEF ExpectPrompt
<1>14. CASE HandlePassword
  <2>1. CASE line' = "console prompt"
    BY <1>14, <2>1, Agree, Setups, ClearedSays
    DEF HandlePassword, Prompts, Tracked, PromptExpected, IsSSH, SettingUp, Closed
  <2>2. CASE UNCHANGED line
    BY <1>14, <2>2, Says, Setups DEF HandlePassword, Closed
  <2>3. QED BY <1>14, <2>1, <2>2 DEF HandlePassword, Closed
<1>15. QED
  BY <1>1, <1>2, <1>3, <1>4, <1>5, <1>6, <1>7, <1>8, <1>9, <1>10, <1>11, <1>12, <1>13,
     <1>14 DEF Step

LEMMA PromptsKept ==
    ASSUME PromptsAgree, TypeOK, Prompts, [Next]_vars PROVE Prompts'
<1>1. CASE Step
  BY <1>1, Parts, PromptsStep
<1>2. CASE RunCommand \/ Look \/ KernelDies
  BY <1>2, Says, Setups DEF RunCommand, Look, KernelDies, session
<1>3. CASE StateMachine \/ (Reboots /\ OwnSession)
  BY <1>3, Says DEF StateMachine, Reboots, session
<1>4. CASE Reboots /\ ~OwnSession
  BY <1>4, ClearedSays DEF Reboots, Prompts, SettingUp
<1>5. CASE Drops \/ UNCHANGED vars
  <2>1. UNCHANGED <<console, pc, line, flags>>
    BY <1>5 DEF Drops, vars, session
  <2>2. QED
    BY <2>1 DEF Prompts, Tracked, Ready, AllOf, PromptExpected, PromptSet, IsSSH, OwnSession, HMC
<1>6. QED BY <1>1, <1>2, <1>3, <1>4, <1>5 DEF Next

\* A console whose flags say that its prompt is set is at the prompt that
\* run_command() waits for, through every recovery, failed setup, password and
\* reconnect, where both sides name the same prompt.
THEOREM PromptTracking ==
    ASSUME PromptsAgree PROVE Spec => []PromptTracked
<1>1. Init => Prompts
  BY DEF Init, Prompts, Tracked, Ready, AllOf, AllSet, SettingUp
<1>2. TypeOK /\ Prompts /\ [Next]_vars => Prompts' BY PromptsKept
<1>3. Prompts => PromptTracked BY DEF Prompts, Tracked, PromptTracked
<1>4. QED BY <1>1, <1>2, <1>3, TypeCorrect, PTL DEF Spec

=============================================================================
