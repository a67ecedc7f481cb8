------------------------ MODULE OpTestSystem_proofs ------------------------
(***************************************************************************)
(* What OpTestSystem promises for every set of targets, every watermark    *)
(* and every kill cord.  Each bound is proved from an inductive invariant  *)
(* that says where in goto_state() the resource it counts may be spent.    *)
(***************************************************************************)
EXTENDS OpTestSystem, TLAPS

-----------------------------------------------------------------------------
(* Types.                                                                  *)

\* TypeOK with its flags spelled out, the form the provers work with.
Flag(b) == b = TRUE \/ b = FALSE
Typing ==
    /\ state \in OpSystemState
    /\ previous_state \in OpSystemState \cup {"None"}
    /\ target \in Targets \cup {"None"}
    /\ pc \in {"idle", "detect", "reboot", "loop", "again", "nvram"}
    /\ pc # "idle" => target \in Targets
    /\ Flag(stop) /\ Flag(PS1_set) /\ Flag(block_setup_term)
    /\ Flag(never_rebooted) /\ Flag(never_unknown) /\ Flag(prompt)
    /\ detect_counter \in 0..3
    /\ ipl_watermark \in InitialWatermark..KillCord
    /\ booting_watermark \in InitialWatermark..KillCord
    /\ host \in HostStates
    /\ bootdev \in {"default", "setup"}
    /\ returned \in {"none", "ok", "raised"}
    /\ ipls \in Nat /\ spent \in Nat /\ reboots \in Nat
    /\ drift \in {"none", "told", "lost", "untold"}

LEMMA FlagIsBoolean == \A b : Flag(b) <=> b \in BOOLEAN
  BY Zenon DEF Flag

LEMMA TypingIsTypeOK == (Typing <=> TypeOK) /\ (Typing' <=> TypeOK')
  BY FlagIsBoolean, Zenon DEF Typing, TypeOK

LEMMA InitTyping == Init => Typing
  BY TargetsAssumption, WatermarkAssumption, InitialStatesAssumption
     DEF Init, Typing, Flag, OpSystemState, HostStates, tracking

LEMMA SetUpIsFlag == \A p, ps1 : Flag(SetUp(p, ps1))
  BY Zenon DEF Flag, SetUp

\* The answer of one look at the console keeps the types, whatever it is.
LEMMA AnswersTyping ==
    ASSUME Typing, pc = "detect", detect_counter \in 1..2,
           NEW s \in OpSystemState, NEW h \in HostStates,
           NEW p, Flag(p), NEW ps1, Flag(ps1),
           Answers(s, h, p, ps1), previous_state' \in OpSystemState \cup {"None"},
           UNCHANGED <<target, never_unknown, watermarks, ipls, spent>>
    PROVE  Typing'
  BY WatermarkAssumption
     DEF Answers, Detected, Seen, Blocks, Typing, Flag, watermarks, HostStates, OpSystemState

LEMMA DetectRaisesTyping ==
    ASSUME Typing, pc = "detect",
           NEW s \in OpSystemState, NEW h \in HostStates,
           NEW p, Flag(p), NEW ps1, Flag(ps1),
           DetectRaises(s, h, p, ps1), previous_state' \in OpSystemState \cup {"None"},
           UNCHANGED <<target, never_unknown, watermarks, ipls, spent>>
    PROVE  Typing'
  BY DEF DetectRaises, Raises, Told, Blocks, Typing, Flag, watermarks, detection,
         HostStates, OpSystemState

LEMMA RunREBOOTTyping ==
    ASSUME Typing, pc = "detect",
           NEW h \in HostStates, NEW p, Flag(p), NEW ps1, Flag(ps1),
           RunREBOOT(h, p, ps1), previous_state' \in OpSystemState \cup {"None"},
           UNCHANGED <<target, never_unknown, watermarks, ipls, spent>>
    PROVE  Typing'
  BY SetUpIsFlag DEF RunREBOOT, RebootClears, Rebooted, BootdevFor, Told, Blocks, Typing, Flag,
         watermarks, detection, HostStates, OpSystemState

LEMMA ConsolesFlags ==
    ASSUME Typing, NEW blocked
    PROVE  \A con \in Consoles(blocked) : Flag(con[1]) /\ Flag(con[2])
  BY DEF Consoles, Typing, Flag

LEMMA DetectTyping ==
    ASSUME Typing, DetectTarget, detect_counter \in 1..2 PROVE Typing'
<1> USE AnswersTyping, DetectRaisesTyping, RunREBOOTTyping
<1>1. /\ pc = "detect" /\ target \in Targets
      /\ UNCHANGED <<target, never_unknown, watermarks, ipls, spent>>
  BY DEF DetectTarget, Typing
<1>2. CASE /\ UNCHANGED previous_state
           /\ \/ DetectRaises("UNKNOWN_BAD", host, prompt, PS1_set)
              \/ DetectRaises(state, host, prompt, PS1_set)
  BY <1>1, <1>2 DEF Typing, OpSystemState
<1>3. ASSUME NEW con \in Consoles(FALSE), NEW h \in HostStates,
             \/ DetectAtMenu(h, con[2], con[1])
             \/ DetectAtPrompt(h, con[2], con[1])
             \/ DetectAtLogin(h, con[2], con[1]) /\ UNCHANGED previous_state
             \/ Answers("UNKNOWN", h, con[2], con[1]) /\ UNCHANGED previous_state
      PROVE  Typing'
  <2>0. DEFINE ps1 == con[1]  p == con[2]
  <2>1. Flag(ps1) /\ Flag(p) /\ Flag(TRUE) /\ Flag(SetUp(p, ps1))
    BY ConsolesFlags, SetUpIsFlag DEF Flag
  <2>2. FromMenu(h) \in HostStates /\ (\A h2 \in FromShell(h) : h2 \in HostStates)
    BY DEF FromMenu, FromShell, HostStates
  <2>3. previous_state \in OpSystemState \cup {"None"} /\ state \in OpSystemState
    BY DEF Typing
  <2>4. {"PETITBOOT", "PETITBOOT_SHELL", "OS", "UNKNOWN"} \subseteq OpSystemState
    BY DEF OpSystemState
  <2> HIDE DEF ps1, p
  <2>5. CASE DetectAtMenu(h, p, ps1)
    BY <1>1, <2>1, <2>2, <2>3, <2>4, <2>5 DEF DetectAtMenu
  <2>6. CASE DetectAtPrompt(h, p, ps1)
    <3>1. PICK detect_state \in {IF h = "shell" THEN "PETITBOOT_SHELL" ELSE "OS", "UNKNOWN"} :
            /\ previous_state' = IF detect_state = "UNKNOWN" THEN previous_state ELSE detect_state
            /\ \/ \E s \in OpSystemState : Answers(s, h, p, ps1)
               \/ \E h2 \in FromShell(h), ps2 \in BOOLEAN :
                    Answers("PETITBOOT", h2, h2 = h /\ (p \/ ps2), h2 = h /\ ps2)
               \/ RunREBOOT(h, p, ps1)
               \/ DetectRaises(state, h, p, ps1)
      BY <1>1, <2>4, <2>6, TargetsAssumption DEF DetectAtPrompt
    <3>2. previous_state' \in OpSystemState \cup {"None"}
      BY <2>3, <2>4, <3>1
    <3>3. \A h2, ps2 : Flag(h2 = h /\ (p \/ ps2)) /\ Flag(h2 = h /\ ps2)
      BY Zenon DEF Flag
    <3>4. QED BY <1>1, <2>1, <2>2, <2>3, <2>4, <3>1, <3>2, <3>3
  <2>7. CASE DetectAtLogin(h, p, ps1) /\ UNCHANGED previous_state
    BY <1>1, <2>1, <2>2, <2>3, <2>4, <2>7 DEF DetectAtLogin
  <2>8. CASE Answers("UNKNOWN", h, p, ps1) /\ UNCHANGED previous_state
    BY <1>1, <2>1, <2>2, <2>3, <2>4, <2>8
  <2>9. QED BY <1>3, <2>5, <2>6, <2>7, <2>8 DEF ps1, p
<1>4. (IF host \in Menu THEN "menu" ELSE host) \in HostStates
  BY DEF Typing, HostStates
<1>5. QED BY <1>2, <1>3, <1>4 DEF DetectTarget

LEMMA TypingStep ==
    ASSUME Typing, [Next]_vars,
           pc \in {"detect", "reboot"} => detect_counter \in 1..2
    PROVE  Typing'
<1> USE DEF Typing, Flag, tracking, detection, watermarks, machine, history, Blocks,
            HostStates, OpSystemState
<1>1. CASE DetectTarget
  <2>1. pc = "detect" BY <1>1 DEF DetectTarget
  <2>2. QED BY <1>1, <2>1, DetectTyping
<1>2. CASE RebootWaits
  <2>1. detect_counter \in 1..2 /\ detect_counter' = detect_counter + 1
    BY <1>2 DEF RebootWaits, Detected
  <2>2. stop' = stop \/ stop' = TRUE
    BY <1>2, Zenon DEF RebootWaits
  <2>3. Flag(stop')
    BY <2>2
  <2>4. /\ pc = "reboot" /\ pc' \in {"detect", "loop"}
        /\ state' \in {"UNKNOWN", "UNKNOWN_BAD", state}
        /\ block_setup_term' = TRUE /\ never_rebooted' = FALSE
        /\ drift' = Seen
        /\ UNCHANGED <<target, tracking, watermarks, never_unknown, machine, history,
                       returned>>
    BY <1>2, Zenon DEF RebootWaits, Detected
  <2>5. QED BY <2>1, <2>3, <2>4 DEF Seen
<1>3. CASE Stopping
  BY <1>3 DEF Stopping, Raises, Told
<1>4. CASE CheckNvram
  BY <1>4, ConsolesFlags DEF CheckNvram, Told
<1>5. CASE RunUNKNOWN
  BY <1>5 DEF RunUNKNOWN, PowersOff, PoweredOff, PowerFails, Unanswered, Returns, HandlerRaises, Raises, Told,
              Handler, HandlerFrame
<1>6. CASE RunOFF
  BY <1>6 DEF RunOFF, PowersOn, PoweredUp, PoweredOn, Unanswered, BootdevFor, Returns, HandlerRaises, Raises,
              Told, Handler, HandlerFrame
<1>7. CASE RunIPLing
  BY <1>7, WatermarkAssumption
     DEF RunIPLing, PowersOff, PoweredOff, PowerFails, Unanswered, Overdue, Retry, Raised, BootFails, Returns,
         HandlerRaises, Raises, Told, Handler, HandlerFrame
<1>8. CASE RunPETITBOOT
  BY <1>8 DEF RunPETITBOOT, ExitToShellFails, FromMenu, FromShell, PowersOff, PoweredOff,
              PowerFails, Unanswered,
              Returns, HandlerRaises, Raises, Told, Handler, HandlerFrame
<1>9. CASE RunPETITBOOTSHELL
  BY <1>9 DEF RunPETITBOOTSHELL, FromShell, PowersOff, PoweredOff, PowerFails, Unanswered, Returns,
              HandlerRaises, Raises, Told, Handler, HandlerFrame
<1>10. CASE RunBOOTING
  BY <1>10, WatermarkAssumption
     DEF RunBOOTING, Overdue, Retry, Raised, BootFails, Returns, HandlerRaises, Raises,
         Told, Handler, HandlerFrame
<1>11. CASE RunOS
  BY <1>11 DEF RunOS, PowersOff, PoweredOff, PowerFails, Unanswered, Returns, HandlerRaises, Raises, Told,
               Handler, HandlerFrame
<1>12. CASE RunPOWERINGOFF
  BY <1>12 DEF RunPOWERINGOFF, Standby, StandbyTimeout, Returns, HandlerRaises, Raises,
               Told, Handler, HandlerFrame
<1>13. ASSUME NEW t \in Targets, GotoState(t) PROVE Typing'
  BY <1>13 DEF GotoState, Counted
<1>14. CASE TestRunsCommand
  BY <1>14, ConsolesFlags DEF TestRunsCommand, TestFrame, Told
<1>15. CASE TestMovesMachine
  BY <1>15 DEF TestMovesMachine, TestFrame
<1>16. CASE TestClearsStop
  BY <1>16 DEF TestClearsStop, TestFrame, Told
<1>17. ASSUME NEW s \in OpSystemState, SetState(s) PROVE Typing'
  BY <1>17 DEF SetState, Seen, TestFrame
<1>18. CASE Machine
  BY <1>18 DEF Machine, HostMoves, HostStops, HostIPLs, HostAutoBoots, HostBoots,
               HostCrashes, HostReIPLs
<1>19. CASE UNCHANGED vars
  BY <1>19 DEF vars
<1>20. CASE RunOFFAgain
  BY <1>20 DEF RunOFFAgain, PoweredUp, PoweredOn, PowerFails, Unanswered, Returns,
               HandlerFrame
<1>21. QED
  BY <1>1, <1>2, <1>3, <1>4, <1>5, <1>6, <1>7, <1>8, <1>9, <1>10, <1>11, <1>12, <1>13,
     <1>14, <1>15, <1>16, <1>17, <1>18, <1>19, <1>20 DEF Next, Goto, Test

-----------------------------------------------------------------------------
(* The two accounts.                                                       *)

\* Every grant of a re-IPL is paid by a watermark; a power-on that no grant has
\* paid for yet is an IPL still under way, and detection comes before any.
IPLAccount ==
    /\ spent + 2 * InitialWatermark <= ipl_watermark + booting_watermark
    /\ ipls <= spent + 1
    /\ pc \in {"detect", "reboot"} => ipls = 0
    /\ pc # "idle" /\ target = "OFF" => ipls = 0
    /\ pc = "again" => state = "OFF" /\ target # "OFF" /\ ipls <= spent
    /\ pc = "loop" /\ ipls > spent =>
          state \in {"IPLing", "PETITBOOT"} \/ (state = "BOOTING" /\ target = "OS")

\* While detection may still reboot, each earlier reboot belongs to an earlier
\* call of run_DETECT, and only two calls get as far as looking.
DetectAccount ==
    /\ reboots <= 2
    /\ pc \in {"detect", "reboot"} => detect_counter \in 1..2
    /\ never_rebooted => reboots <= detect_counter
    /\ never_rebooted /\ pc = "detect" => reboots < detect_counter

IInv == Typing /\ IPLAccount /\ DetectAccount

LEMMA InitAccounts == Init => IPLAccount /\ DetectAccount
  BY WatermarkAssumption DEF Init, IPLAccount, DetectAccount, detection, watermarks

\* What one look at the console does to the counters, whatever it finds.
LEMMA DetectCounts ==
    ASSUME DetectTarget
    PROVE  /\ pc = "detect"
           /\ UNCHANGED <<target, watermarks, ipls, spent>>
           /\ \/ /\ detect_counter' = detect_counter + 1 /\ never_rebooted' = FALSE
                 /\ pc' = "detect" => detect_counter' <= 2
                 /\ pc' \in {"detect", "loop"} /\ UNCHANGED reboots
              \/ /\ pc' = "idle" /\ UNCHANGED <<detect_counter, never_rebooted, reboots>>
              \/ /\ never_rebooted /\ reboots' = reboots + 1
                 /\ pc' \in {"idle", "reboot"}
                 /\ UNCHANGED <<detect_counter, never_rebooted>>
<1> DEFINE Counts ==
      \/ /\ detect_counter' = detect_counter + 1 /\ never_rebooted' = FALSE
         /\ pc' = "detect" => detect_counter' <= 2
         /\ pc' \in {"detect", "loop"} /\ UNCHANGED reboots
      \/ /\ pc' = "idle" /\ UNCHANGED <<detect_counter, never_rebooted, reboots>>
      \/ /\ never_rebooted /\ reboots' = reboots + 1
         /\ pc' \in {"idle", "reboot"}
         /\ UNCHANGED <<detect_counter, never_rebooted>>
<1>1. \A s, h, p, ps1 : Answers(s, h, p, ps1) => Counts
  BY DEF Answers, Detected
<1>2. \A s, h, p, ps1 : DetectRaises(s, h, p, ps1) => Counts
  BY DEF DetectRaises, Raises, detection
<1>3. \A h, p, ps1 : never_rebooted /\ RunREBOOT(h, p, ps1) => Counts
  BY DEF RunREBOOT, detection
<1> HIDE DEF Counts
<1>4. \A h, p, ps1 : DetectAtMenu(h, p, ps1) => Counts
  BY <1>1, <1>2, <1>3 DEF DetectAtMenu
<1>5. \A h, p, ps1 : DetectAtPrompt(h, p, ps1) => Counts
  BY <1>1, <1>2, <1>3 DEF DetectAtPrompt
<1>6. \A h, p, ps1 : DetectAtLogin(h, p, ps1) => Counts
  BY <1>1, <1>2, <1>3 DEF DetectAtLogin
<1>7. pc = "detect" /\ UNCHANGED <<target, watermarks, ipls, spent>>
  BY DEF DetectTarget
<1>8. Counts
  BY <1>1, <1>2, <1>4, <1>5, <1>6 DEF DetectTarget
<1>9. QED BY <1>7, <1>8 DEF Counts

LEMMA DetectAccountStep ==
    ASSUME Typing, DetectAccount, [Next]_vars PROVE DetectAccount'
<1> USE DEF DetectAccount
<1>1. CASE DetectTarget
  <2>1. CASE /\ detect_counter' = detect_counter + 1 /\ ~never_rebooted'
             /\ pc' = "detect" => detect_counter' <= 2
             /\ pc' \in {"detect", "loop"} /\ UNCHANGED reboots
    BY <2>1 DEF Typing
  <2>2. CASE pc' = "idle" /\ UNCHANGED <<detect_counter, never_rebooted, reboots>>
    BY <2>2
  <2>3. CASE /\ pc = "detect" /\ never_rebooted /\ reboots' = reboots + 1
             /\ pc' \in {"idle", "reboot"}
             /\ UNCHANGED <<detect_counter, never_rebooted>>
    BY <2>3 DEF Typing
  <2>4. QED BY <1>1, <2>1, <2>2, <2>3, DetectCounts
<1>2. CASE RebootWaits
  <2>1. /\ pc' \in {"detect", "loop"} /\ ~never_rebooted' /\ UNCHANGED reboots
        /\ detect_counter' = detect_counter + 1
        /\ pc' = "detect" => detect_counter' <= 2
    BY <1>2 DEF RebootWaits, Detected, history
  <2>2. QED BY <2>1 DEF Typing
<1>3. ASSUME NEW t \in Targets, GotoState(t) PROVE DetectAccount'
  BY <1>3 DEF GotoState, Counted, Typing
<1>4. CASE Stopping \/ CheckNvram
  BY <1>4 DEF Stopping, CheckNvram, Raises, detection, history, Typing
<1>5. CASE \/ RunUNKNOWN \/ RunOFF \/ RunOFFAgain \/ RunIPLing
           \/ RunPETITBOOT \/ RunPETITBOOTSHELL \/ RunBOOTING \/ RunOS \/ RunPOWERINGOFF
  <2>1. HandlerFrame
    BY <1>5 DEF RunUNKNOWN, RunOFF, RunOFFAgain, RunIPLing, RunPETITBOOT, RunPETITBOOTSHELL,
                RunBOOTING, RunOS, RunPOWERINGOFF
  <2>2. pc' \notin {"detect", "reboot"}
    BY <1>5 DEF RunUNKNOWN, RunOFF, RunOFFAgain, PowersOn, PoweredUp, PowerFails, RunIPLing,
                RunPETITBOOT, ExitToShellFails, RunPETITBOOTSHELL, RunBOOTING, RunOS,
                RunPOWERINGOFF, StandbyTimeout, PowersOff, Overdue, BootFails, Returns, HandlerRaises, Raises
  <2>3. QED BY <2>1, <2>2 DEF HandlerFrame, detection
<1>6. CASE \/ TestRunsCommand \/ TestMovesMachine \/ TestClearsStop \/ Machine
           \/ UNCHANGED vars \/ \E s \in OpSystemState : SetState(s)
  <2>1. UNCHANGED <<detection, reboots, pc>>
    BY <1>6 DEF TestRunsCommand, TestMovesMachine, TestClearsStop, SetState, TestFrame,
                Machine, HostStops, HostIPLs, HostAutoBoots, HostBoots, HostCrashes,
                HostReIPLs, HostMoves, history, vars
  <2>2. QED BY <2>1 DEF detection
<1>7. QED BY <1>1, <1>2, <1>3, <1>4, <1>5, <1>6 DEF Next, Goto, Test

\* A handler that returns s goes on in the loop only if s is not the target,
\* and gives up on a state it came to lose.
LEMMA ReturnsMoves ==
    ASSUME NEW s, NEW ps1, NEW prev, Returns(s, ps1, prev)
    PROVE  /\ state' = s
           /\ pc' \in {"nvram", "idle", "loop"}
           /\ pc' = "loop" => s # target
           /\ pc' = "loop" /\ s = "UNKNOWN" => state = "UNKNOWN"
  BY DEF Returns

LEMMA PowersOffMoves ==
    ASSUME PowersOff
    PROVE  /\ UNCHANGED <<ipl_watermark, booting_watermark, ipls, spent>>
           /\ pc' = "loop" => state' = "POWERING_OFF"
           /\ pc' \in {"nvram", "idle", "loop"}
  BY ReturnsMoves DEF PowersOff, PowerFails, watermarks

LEMMA OverdueMoves ==
    ASSUME NEW w \in Nat, Overdue(w), Typing, state # "UNKNOWN"
    PROVE  /\ Raised(w) = w + (spent' - spent) /\ spent' \in {spent, spent + 1}
           /\ pc' \in {"nvram", "idle", "loop"}
           /\ pc' = "loop" => state' = "UNKNOWN_BAD" /\ spent' = spent + 1
  BY ReturnsMoves, WatermarkAssumption DEF Overdue, Retry, Raised, Typing

LEMMA IPLAccountStep ==
    ASSUME Typing, IPLAccount, [Next]_vars PROVE IPLAccount'
<1> USE DEF IPLAccount
<1> USE WatermarkAssumption
<1>0. /\ ipls \in Nat /\ spent \in Nat
      /\ ipl_watermark \in Nat /\ booting_watermark \in Nat /\ InitialWatermark \in Nat
  BY DEF Typing
<1>1. CASE DetectTarget
  <2>1. /\ pc = "detect" /\ ipls = 0 /\ UNCHANGED <<target, watermarks, ipls, spent>>
        /\ pc' # "again"
    BY <1>1, DetectCounts
  <2>2. QED BY <1>0, <2>1 DEF watermarks
<1>2. CASE RebootWaits
  <2>1. /\ pc = "reboot" /\ pc' \in {"detect", "loop"}
        /\ UNCHANGED <<target, watermarks, ipls, spent>>
    BY <1>2, Zenon DEF RebootWaits, Detected, history
  <2>2. QED BY <1>0, <2>1 DEF watermarks
<1>3. CASE Stopping \/ CheckNvram
  BY <1>0, <1>3 DEF Stopping, CheckNvram, Raises, watermarks, history
<1>4. ASSUME NEW t \in Targets, GotoState(t) PROVE IPLAccount'
  BY <1>0, <1>4 DEF GotoState, watermarks
<1>5. CASE RunUNKNOWN \/ RunOS
  <2>1. pc = "loop" /\ UNCHANGED target /\ state \in {"UNKNOWN", "UNKNOWN_BAD", "OS"}
    BY <1>5 DEF RunUNKNOWN, RunOS, Handler, HandlerFrame
  <2>2. PowersOff \/ (pc' # "loop" /\ UNCHANGED <<watermarks, ipls, spent>>)
    BY <1>5, ReturnsMoves DEF RunUNKNOWN, RunOS
  <2>3. pc' \in {"nvram", "idle", "loop"}
    BY <1>5, ReturnsMoves, PowersOffMoves DEF RunUNKNOWN, RunOS
  <2>4. QED BY <1>0, <2>1, <2>2, <2>3, PowersOffMoves DEF watermarks
<1>6. CASE RunOFF
  <2>1. pc = "loop" /\ state = "OFF" /\ UNCHANGED <<target, watermarks, spent>>
    BY <1>6 DEF RunOFF, Handler, HandlerFrame
  <2>2. CASE target = "OFF"
    <3>1. UNCHANGED ipls /\ pc' \in {"nvram", "idle"}
      BY <1>6, <2>1, <2>2, ReturnsMoves DEF RunOFF, PowersOn
    <3>2. QED BY <1>0, <2>1, <3>1 DEF watermarks
  <2>3. CASE target # "OFF"
    <3>1. /\ pc' \in {"nvram", "idle", "loop", "again"} /\ ipls' \in {ipls, ipls + 1}
          /\ pc' = "loop" => state' = "IPLing"
          /\ pc' = "again" => UNCHANGED <<state, ipls>>
      BY <1>6, <2>3, ReturnsMoves DEF RunOFF, PowersOn, PoweredUp, HandlerRaises, Raises
    <3>2. QED BY <1>0, <2>1, <2>3, <3>1 DEF watermarks
  <2>4. QED BY <2>2, <2>3
<1>7. CASE RunIPLing
  <2>1. pc = "loop" /\ state = "IPLing" /\ UNCHANGED target
    BY <1>7 DEF RunIPLing, Handler, HandlerFrame
  <2>2. CASE target = "OFF"
    BY <1>0, <1>7, <2>1, <2>2, PowersOffMoves DEF RunIPLing
  <2>3. CASE target # "OFF" /\ UNCHANGED <<watermarks, spent>>
    <3>1. UNCHANGED ipls /\ pc' \in {"nvram", "idle", "loop"}
      BY <1>0, <1>7, <2>1, <2>3, ReturnsMoves, OverdueMoves
         DEF RunIPLing, BootFails, HandlerRaises, Raises
    <3>2. pc' = "loop" => state' = "PETITBOOT" \/ spent' = spent + 1
      BY <1>0, <1>7, <2>1, <2>3, ReturnsMoves, OverdueMoves
         DEF RunIPLing, BootFails, HandlerRaises, Raises
    <3>3. QED BY <1>0, <2>1, <2>3, <3>1, <3>2 DEF watermarks
  <2>4. CASE /\ target # "OFF" /\ UNCHANGED <<booting_watermark, ipls>>
             /\ Overdue(ipl_watermark) /\ ipl_watermark' = Raised(ipl_watermark)
    BY <1>0, <2>1, <2>4, OverdueMoves
  <2>5. QED BY <1>7, <2>2, <2>3, <2>4 DEF RunIPLing, BootFails
<1>8. CASE RunPETITBOOT
  <2>1. pc = "loop" /\ state = "PETITBOOT" /\ UNCHANGED target
    BY <1>8 DEF RunPETITBOOT, Handler, HandlerFrame
  <2>2. CASE target = "OFF"
    BY <1>0, <1>8, <2>1, <2>2, PowersOffMoves DEF RunPETITBOOT
  <2>3. CASE target # "OFF"
    <3>1. /\ UNCHANGED <<watermarks, ipls, spent>> /\ pc' \in {"nvram", "idle", "loop"}
          /\ pc' = "loop" => state' = "BOOTING" /\ target = "OS"
      BY <1>8, <2>1, <2>3, ReturnsMoves
         DEF RunPETITBOOT, ExitToShellFails, HandlerRaises, Raises
    <3>2. QED BY <1>0, <2>1, <2>3, <3>1 DEF watermarks
  <2>4. QED BY <2>2, <2>3
<1>9. CASE RunPETITBOOTSHELL
  <2>1. pc = "loop" /\ state = "PETITBOOT_SHELL" /\ UNCHANGED target
    BY <1>9 DEF RunPETITBOOTSHELL, Handler, HandlerFrame
  <2>2. PowersOff \/ (pc' \in {"nvram", "idle"} /\ UNCHANGED <<watermarks, ipls, spent>>)
    BY <1>9, ReturnsMoves DEF RunPETITBOOTSHELL, HandlerRaises, Raises
  <2>3. QED BY <1>0, <2>1, <2>2, PowersOffMoves DEF watermarks
<1>10. CASE RunBOOTING
  <2>1. /\ pc = "loop" /\ state = "BOOTING" /\ UNCHANGED <<target, ipls>>
        /\ target = "OS" \/ ipls <= spent
    BY <1>0, <1>10 DEF RunBOOTING, Handler, HandlerFrame
  <2>2. CASE /\ Overdue(booting_watermark) /\ UNCHANGED ipl_watermark
             /\ booting_watermark' = Raised(booting_watermark)
    BY <1>0, <2>1, <2>2, OverdueMoves
  <2>3. CASE /\ UNCHANGED <<watermarks, spent>>
             /\ Returns("OS", PS1_set, previous_state) \/ BootFails
    <3>1. pc' \in {"nvram", "idle", "loop"} /\ (pc' = "loop" => target # "OS")
      BY <2>3, ReturnsMoves DEF BootFails, HandlerRaises, Raises
    <3>2. QED BY <1>0, <2>1, <2>3, <3>1 DEF watermarks
  <2>4. QED BY <1>10, <2>2, <2>3 DEF RunBOOTING, BootFails
<1>11. CASE RunPOWERINGOFF
  <2>1. /\ pc = "loop" /\ state = "POWERING_OFF" /\ UNCHANGED <<target, watermarks, ipls, spent>>
        /\ pc' \in {"nvram", "idle", "loop"}
    BY <1>11, ReturnsMoves
       DEF RunPOWERINGOFF, StandbyTimeout, HandlerRaises, Raises, Handler, HandlerFrame
  <2>2. QED BY <1>0, <2>1 DEF watermarks
<1>12. CASE \/ TestRunsCommand \/ TestMovesMachine \/ TestClearsStop
            \/ \E s \in OpSystemState : SetState(s)
  <2>1. pc = "idle" /\ UNCHANGED <<target, watermarks, pc, history>>
    BY <1>12 DEF TestRunsCommand, TestMovesMachine, TestClearsStop, SetState, TestFrame
  <2>2. QED BY <1>0, <2>1 DEF watermarks, history
<1>13. CASE Machine \/ UNCHANGED vars
  <2>1. UNCHANGED <<target, watermarks, pc, history, state>>
    BY <1>13 DEF Machine, HostStops, HostIPLs, HostAutoBoots, HostBoots, HostCrashes,
                 HostReIPLs, HostMoves, vars
  <2>2. QED BY <1>0, <2>1 DEF watermarks, history
<1>14. CASE RunOFFAgain
  <2>1. /\ pc = "again" /\ UNCHANGED <<target, watermarks, spent>>
        /\ pc' \in {"nvram", "idle", "loop"} /\ ipls' \in {ipls, ipls + 1}
        /\ pc' = "loop" => state' = "IPLing"
    BY <1>14, ReturnsMoves DEF RunOFFAgain, PoweredUp, PowerFails, HandlerFrame
  <2>2. QED BY <1>0, <2>1 DEF watermarks
<1>15. QED
  BY <1>1, <1>2, <1>3, <1>4, <1>5, <1>6, <1>7, <1>8, <1>9, <1>10, <1>11, <1>12, <1>13,
     <1>14 DEF Next, Goto, Test

-----------------------------------------------------------------------------
(* What op-test believes, and what it may do to the machine.               *)

\* StateAgrees is inductive once detection is known to start from no claim.
Agreement ==
    /\ StateAgrees
    /\ pc \in {"detect", "reboot"} => state \in {"UNKNOWN", "UNKNOWN_BAD"}
    /\ pc = "again" => state = "OFF"

\* Power-ons are counted in run_OFF, and nowhere else but at the start of a call.
LEMMA PowersOnlyInOFF ==
    ASSUME Typing, [Next]_vars, ~RunOFF, ~RunOFFAgain PROVE ~(ipls' > ipls)
<1>0. ipls \in Nat
  BY DEF Typing
<1>1. CASE UNCHANGED ipls
  BY <1>0, <1>1
<1>2. ASSUME NEW t \in Targets, GotoState(t) PROVE ~(ipls' > ipls)
  BY <1>0, <1>2 DEF GotoState
<1>3. CASE DetectTarget
  BY <1>0, <1>3, DetectCounts
<1>4. CASE \/ RunUNKNOWN \/ RunIPLing \/ RunPETITBOOT \/ RunPETITBOOTSHELL \/ RunOS
  <2>1. UNCHANGED ipls
    BY <1>4, PowersOffMoves DEF RunUNKNOWN, RunIPLing, RunPETITBOOT, RunPETITBOOTSHELL, RunOS
  <2>2. QED BY <1>0, <2>1
<1>5. CASE RebootWaits \/ Stopping \/ CheckNvram \/ RunBOOTING \/ RunPOWERINGOFF
  <2>1. UNCHANGED ipls
    BY <1>5 DEF RebootWaits, Stopping, CheckNvram, RunBOOTING, RunPOWERINGOFF, history
  <2>2. QED BY <1>0, <2>1
<1>6. CASE \/ TestRunsCommand \/ TestMovesMachine \/ TestClearsStop \/ Machine
           \/ UNCHANGED vars \/ \E s \in OpSystemState : SetState(s)
  <2>1. UNCHANGED ipls
    BY <1>6 DEF TestRunsCommand, TestMovesMachine, TestClearsStop, SetState, TestFrame,
                Machine, HostStops, HostIPLs, HostAutoBoots, HostBoots, HostCrashes,
                HostReIPLs, HostMoves, history, vars
  <2>2. QED BY <1>0, <2>1
<1>7. QED BY <1>2, <1>3, <1>4, <1>5, <1>6 DEF Next, Goto, Test

\* A look at the console may reboot the machine, and never powers it down.
LEMMA DetectMoves ==
    ASSUME DetectTarget PROVE host' = "stopping" => host = "stopping"
<1> DEFINE Moves(h) == host' = h \/ host' = "ipl"
<1>1. \A s, h, p, ps1 : Answers(s, h, p, ps1) \/ DetectRaises(s, h, p, ps1) => host' = h
  BY DEF Answers, DetectRaises
<1>2. \A h, p, ps1 : RunREBOOT(h, p, ps1) => Moves(h)
  BY DEF RunREBOOT, Rebooted
<1>3. \A h, p, ps1 : DetectAtMenu(h, p, ps1) => Moves(h) \/ Moves(FromMenu(h))
  BY <1>1, <1>2 DEF DetectAtMenu
<1>4. \A h, p, ps1 : DetectAtPrompt(h, p, ps1) => Moves(h) \/ host' \in FromShell(h)
  BY <1>1, <1>2 DEF DetectAtPrompt
<1>5. \A h, p, ps1 : DetectAtLogin(h, p, ps1) => Moves(h)
  BY <1>1, <1>2 DEF DetectAtLogin
<1>6. \/ host' = host
      \/ \E h \in {host, "menu"} :
            Moves(h) \/ Moves(FromMenu(h)) \/ host' \in FromShell(h)
  BY <1>1, <1>3, <1>4, <1>5 DEF DetectTarget
<1>7. QED BY <1>6 DEF FromMenu, FromShell

\* Only two answers claim that the machine runs its OS: a login prompt, and a
\* prompt whose kernel is not Petitboot's.
LEMMA DetectAgrees ==
    ASSUME Typing, Agreement, DetectTarget PROVE Agreement'
<1> DEFINE Claims(s, h) == s = "OS" => h = "os"
<1>0. /\ pc = "detect" /\ state \in {"UNKNOWN", "UNKNOWN_BAD"}
      /\ target \in {"OFF", "OS", "PETITBOOT", "PETITBOOT_SHELL"}
  BY TargetsAssumption DEF DetectTarget, Agreement, Typing
<1>1. ASSUME NEW s, NEW h, NEW p, NEW ps1, Answers(s, h, p, ps1),
             s \in {"UNKNOWN", "OS", "PETITBOOT", "PETITBOOT_SHELL"}, Claims(s, h)
      PROVE  Agreement'
  BY <1>0, <1>1 DEF Answers, Detected, Seen, Agreement, StateAgrees, Agrees
<1>2. ASSUME NEW s \in {"UNKNOWN", "UNKNOWN_BAD"}, NEW h, NEW p, NEW ps1,
             DetectRaises(s, h, p, ps1)
      PROVE  Agreement'
  BY <1>2 DEF DetectRaises, Raises, Told, Agreement, StateAgrees
<1>3. ASSUME NEW h, NEW p, NEW ps1, RunREBOOT(h, p, ps1) PROVE Agreement'
  BY <1>0, <1>3 DEF RunREBOOT, Told, Agreement, StateAgrees
<1>4. ASSUME NEW h, NEW p, NEW ps1, DetectAtMenu(h, p, ps1) PROVE Agreement'
  BY <1>0, <1>1, <1>2, <1>3, <1>4 DEF DetectAtMenu
<1>5. ASSUME NEW h, NEW p, NEW ps1, AtPrompt(h, p), DetectAtPrompt(h, p, ps1)
      PROVE  Agreement'
  <2>1. h \in {"shell", "os"}
    BY <1>5 DEF AtPrompt
  <2>2. PICK detect_state \in {IF h = "shell" THEN "PETITBOOT_SHELL" ELSE "OS", "UNKNOWN"} :
          \/ detect_state = target /\ Answers(target, h, p, ps1)
          \/ \E h2, p2, ps2 : Answers("PETITBOOT", h2, p2, ps2)
          \/ RunREBOOT(h, p, ps1)
          \/ DetectRaises(state, h, p, ps1)
          \/ Answers("PETITBOOT_SHELL", h, p, ps1)
          \/ Answers("UNKNOWN", h, p, ps1)
    BY <1>5, Zenon DEF DetectAtPrompt
  <2>3. CASE detect_state = target /\ Answers(target, h, p, ps1)
    BY <1>0, <1>1, <2>1, <2>2, <2>3
  <2>4. QED BY <1>0, <1>1, <1>2, <1>3, <2>2, <2>3
<1>6. ASSUME NEW h, NEW p, NEW ps1, h = "os", DetectAtLogin(h, p, ps1)
      PROVE  Agreement'
  BY <1>0, <1>1, <1>2, <1>3, <1>6 DEF DetectAtLogin
<1>7. \A h, p : /\ "prompt" \in Shows(h, p) => AtPrompt(h, p)
                /\ "login" \in Shows(h, p) => h = "os"
  BY DEF Shows, AtPrompt, Menu
<1>8. CASE \E con \in Consoles(FALSE) :
             LET ps1 == con[1]  p == con[2]
                 h == IF host \in Menu THEN "menu" ELSE host IN
             \/ DetectAtMenu(h, p, ps1)
             \/ "prompt" \in Shows(h, p) /\ DetectAtPrompt(h, p, ps1)
             \/ "login" \in Shows(h, p) /\ DetectAtLogin(h, p, ps1)
             \/ Answers("UNKNOWN", h, p, ps1)
  BY <1>1, <1>4, <1>5, <1>6, <1>7, <1>8
<1>9. CASE \/ DetectRaises("UNKNOWN_BAD", host, prompt, PS1_set)
           \/ DetectRaises(state, host, prompt, PS1_set)
  BY <1>0, <1>2, <1>9
<1>10. QED BY <1>8, <1>9 DEF DetectTarget

\* A power-on without its answer leaves op-test believing OFF: the machine is
\* off, or went up.
LEMMA UnansweredOn ==
    ASSUME Agreement, state = "OFF", UNCHANGED state, host' \in {host, PoweredOn},
           drift' = Unanswered, pc' \in {"again", "idle"}
    PROVE  Agreement'
<1>1. CASE UNCHANGED host
  BY <1>1 DEF Agreement, StateAgrees, Agrees, Unanswered
<1>2. CASE host' = "ipl" /\ drift' \in {"lost", "untold"}
  BY <1>2 DEF Agreement, StateAgrees, GoingDown
<1>3. QED BY <1>1, <1>2 DEF PoweredOn, Unanswered

LEMMA PoweredUpAgrees ==
    ASSUME PoweredUp PROVE Agreement'
  BY DEF PoweredUp, Returns, Agreement, StateAgrees

\* A handler leaves a claim only where it saw the machine, or did not move it.
LEMMA HandlersAgree ==
    ASSUME Typing, Agreement,
           \/ RunUNKNOWN \/ RunOFF \/ RunOFFAgain \/ RunIPLing \/ RunPETITBOOT
           \/ RunPETITBOOTSHELL \/ RunBOOTING \/ RunOS \/ RunPOWERINGOFF
    PROVE  Agreement'
<1> USE DEF Agreement, StateAgrees, Agrees
<1>0. ASSUME state # "OFF", UNCHANGED drift, pc' \notin {"detect", "reboot", "again"},
             state' \in {"PETITBOOT", "PETITBOOT_SHELL", "BOOTING"},
             host' = host \/ (host \notin GoingDown /\ host' \notin GoingDown)
      PROVE  Agreement'
  BY <1>0
<1> DEFINE Forgets == /\ state' \in {"UNKNOWN", "UNKNOWN_BAD"} /\ drift' = Told(state')
                      /\ pc' # "again"
<1>14. ASSUME Forgets PROVE Agreement'
  BY <1>14 DEF Told
<1>16. ASSUME NEW h PROVE /\ FromMenu(h) = h \/ (h \notin GoingDown /\ FromMenu(h) \notin GoingDown)
                          /\ \A h2 \in FromShell(h) : h2 = h \/ (h \notin GoingDown /\ h2 \notin GoingDown)
  BY DEF FromMenu, FromShell, Menu, GoingDown
<1>1. ASSUME PowersOff, state \notin {"OFF", "POWERING_OFF"} PROVE Agreement'
  BY <1>1 DEF PowersOff, PoweredOff, PowerFails, Unanswered, GoingDown, Returns
<1>2. ASSUME NEW w, Overdue(w) PROVE Agreement'
  BY <1>2, <1>14 DEF Overdue, Retry, Returns
<1>3. ASSUME BootFails PROVE Agreement'
  BY <1>3, <1>14 DEF BootFails, HandlerRaises, Raises
<1>4. CASE RunUNKNOWN
  BY <1>1, <1>4 DEF RunUNKNOWN, Handler
<1>5. CASE RunOFF
  <2>1. state = "OFF" /\ pc = "loop"
    BY <1>5 DEF RunOFF, Handler
  <2>2. CASE target = "OFF"
    BY <1>5, <2>1, <2>2 DEF RunOFF, PowersOn, Returns, machine
  <2>3. CASE PoweredUp
    BY <2>3, PoweredUpAgrees
  <2>4. CASE /\ host' \in {host, PoweredOn} /\ drift' = Unanswered /\ pc' = "again"
             /\ UNCHANGED state
    BY <2>1, <2>4, UnansweredOn
  <2>5. CASE HandlerRaises(state, stop) /\ UNCHANGED host
    BY <2>1, <2>5 DEF HandlerRaises, Raises, Told
  <2>6. QED BY <1>5, <2>2, <2>3, <2>4, <2>5 DEF RunOFF, PowersOn
<1>6. CASE RunIPLing
  <2>1. ASSUME state = "IPLing", UNCHANGED <<machine, drift>>,
               Returns("PETITBOOT", PS1_set, previous_state)
        PROVE  Agreement'
    BY <1>0, <2>1 DEF Returns, machine
  <2>2. QED BY <1>1, <1>2, <1>3, <1>6, <2>1 DEF RunIPLing, Handler
<1>7. CASE RunPETITBOOT
  <2>0. state = "PETITBOOT"
    BY <1>7 DEF RunPETITBOOT, Handler
  <2>1. ASSUME NEW s \in {"PETITBOOT", "PETITBOOT_SHELL", "BOOTING"}, NEW ps1, NEW prev,
               Returns(s, ps1, prev), UNCHANGED drift,
               host' \in {host, FromMenu(host)} \cup FromShell(FromMenu(host))
        PROVE  Agreement'
    <3>1. host' = host \/ (host \notin GoingDown /\ host' \notin GoingDown)
      BY <1>16, <2>1
    <3>2. QED BY <1>0, <2>0, <2>1, <3>1 DEF Returns
  <2>2. ASSUME ExitToShellFails PROVE Agreement'
    <3>1. host' = host \/ (host \notin GoingDown /\ host' \notin GoingDown)
      BY <1>16, <2>2 DEF ExitToShellFails
    <3>2. CASE HandlerRaises(state, stop)
      BY <1>0, <2>0, <3>1, <3>2 DEF HandlerRaises, Raises, Told
    <3>3. CASE HandlerRaises("UNKNOWN_BAD", stop)
      BY <1>14, <3>3 DEF HandlerRaises, Raises
    <3>4. QED BY <2>2, <3>2, <3>3 DEF ExitToShellFails
  <2>3. CASE target \in {"PETITBOOT", "PETITBOOT_SHELL"}
    BY <1>7, <2>1, <2>2, <2>3 DEF RunPETITBOOT
  <2>4. CASE target = "OFF" /\ PowersOff
    BY <1>1, <2>0, <2>4
  <2>5. CASE UNCHANGED <<machine, drift>> /\ Returns("BOOTING", PS1_set, previous_state)
    BY <2>1, <2>5 DEF machine
  <2>6. QED BY <1>7, <2>3, <2>4, <2>5 DEF RunPETITBOOT
<1>8. CASE RunPETITBOOTSHELL
  <2>0. state = "PETITBOOT_SHELL"
    BY <1>8 DEF RunPETITBOOTSHELL, Handler
  <2>1. ASSUME NEW s \in {"PETITBOOT", "PETITBOOT_SHELL"}, NEW ps1, NEW prev,
               Returns(s, ps1, prev), UNCHANGED drift, host' \in {host} \cup FromShell(host)
        PROVE  Agreement'
    <3>1. host' = host \/ (host \notin GoingDown /\ host' \notin GoingDown)
      BY <1>16, <2>1
    <3>2. QED BY <1>0, <2>0, <2>1, <3>1 DEF Returns
  <2>2. ASSUME UNCHANGED host, HandlerRaises(state, stop) \/ HandlerRaises("UNKNOWN_BAD", stop)
        PROVE  Agreement'
    <3>1. CASE HandlerRaises(state, stop)
      BY <1>0, <2>0, <2>2, <3>1 DEF HandlerRaises, Raises, Told
    <3>2. CASE HandlerRaises("UNKNOWN_BAD", stop)
      BY <1>14, <3>2 DEF HandlerRaises, Raises
    <3>3. QED BY <2>2, <3>1, <3>2
  <2>3. QED BY <1>1, <1>8, <2>0, <2>1, <2>2 DEF RunPETITBOOTSHELL, machine
<1>9. CASE RunBOOTING
  <2>1. ASSUME state = "BOOTING", host = "os", UNCHANGED <<machine, drift>>,
               Returns("OS", PS1_set, previous_state)
        PROVE  Agreement'
    BY <2>1 DEF Returns, machine, GoingDown
  <2>2. QED BY <1>2, <1>3, <1>9, <2>1 DEF RunBOOTING, Handler
<1>10. CASE RunOS
  <2>1. ASSUME state = "OS", UNCHANGED <<machine, drift>>,
               Returns("OS", PS1_set, previous_state)
        PROVE  Agreement'
    BY <2>1 DEF Returns, machine
  <2>2. QED BY <1>1, <1>10, <2>1 DEF RunOS, Handler
<1>11. CASE RunPOWERINGOFF
  BY <1>11 DEF RunPOWERINGOFF, Handler, Standby, StandbyTimeout, Returns, HandlerRaises,
               Raises, Told, machine
<1>12. CASE RunOFFAgain
  <2>1. state = "OFF" /\ pc = "again"
    BY <1>12 DEF RunOFFAgain
  <2>2. CASE PoweredUp
    BY <2>2, PoweredUpAgrees
  <2>3. CASE host' \in {host, PoweredOn} /\ PowerFails
    BY <2>1, <2>3, UnansweredOn DEF PowerFails
  <2>4. QED BY <1>12, <2>2, <2>3 DEF RunOFFAgain
<1>13. QED BY <1>4, <1>5, <1>6, <1>7, <1>8, <1>9, <1>10, <1>11, <1>12

LEMMA AgreementStep ==
    ASSUME Typing, Agreement, [Next]_vars PROVE Agreement'
<1> USE DEF Agreement, StateAgrees, Agrees
<1>1. CASE DetectTarget
  BY <1>1, DetectAgrees
<1>2. CASE RebootWaits
  BY <1>2 DEF RebootWaits, Detected, Seen, Told
<1>3. CASE Stopping \/ CheckNvram
  BY <1>3 DEF Stopping, CheckNvram, Raises, Told, machine
<1>4. CASE \/ RunUNKNOWN \/ RunOFF \/ RunOFFAgain \/ RunIPLing
           \/ RunPETITBOOT \/ RunPETITBOOTSHELL \/ RunBOOTING \/ RunOS \/ RunPOWERINGOFF
  BY <1>4, HandlersAgree
<1>5. ASSUME NEW t \in Targets, GotoState(t) PROVE Agreement'
  BY <1>5 DEF GotoState, machine
<1>6. CASE TestRunsCommand \/ TestMovesMachine \/ TestClearsStop
  BY <1>6 DEF TestRunsCommand, TestMovesMachine, TestClearsStop, Told, TestFrame
<1>7. ASSUME NEW s \in OpSystemState, SetState(s) PROVE Agreement'
  BY <1>7 DEF SetState, Seen, TestFrame
<1>8. CASE Machine
  BY <1>8 DEF Machine, HostMoves, HostStops, HostIPLs, HostAutoBoots, HostBoots,
              HostCrashes, HostReIPLs, GoingDown
<1>9. CASE UNCHANGED vars
  BY <1>9 DEF vars, machine
<1>10. QED
  BY <1>1, <1>2, <1>3, <1>4, <1>5, <1>6, <1>7, <1>8, <1>9 DEF Next, Goto, Test

-----------------------------------------------------------------------------
(* The gate of the console's set-up, and the tracking of its prompt.       *)

\* ConsoleGate is inductive once it is known what goto_state() left the gate at
\* on its way: shut while it detects and after a stop, open in the OS.
Gate ==
    /\ ConsoleGate
    /\ pc # "idle" => returned = "none"
    /\ pc \in {"detect", "reboot"} => block_setup_term
    /\ pc # "idle" /\ stop => block_setup_term
    /\ pc = "loop" /\ state \in {"OFF", "IPLing", "BOOTING"} => block_setup_term
    /\ pc = "again" => state = "OFF" /\ ~stop /\ block_setup_term
    /\ pc = "nvram" => state \in {"OS", "PETITBOOT_SHELL"}
    /\ pc = "nvram" /\ state = "OS" => ~block_setup_term

\* The only stale PS1_set op-test keeps is that of a power-off repeated before
\* standby was seen, when previous_state already was POWERING_OFF; and from
\* there the next handler to return clears it.
PromptKept ==
    drift = "none" /\ PS1_set /\ ~prompt =>
        host \in {"stopping", "off"} /\ previous_state = "POWERING_OFF"

\* What one look at the console does to the gate, whatever it finds.
LEMMA DetectGates ==
    ASSUME DetectTarget
    PROVE  /\ pc = "detect"
           /\ \/ /\ pc' \in {"detect", "loop"} /\ block_setup_term' = TRUE
                 /\ UNCHANGED returned
              \/ /\ pc' = "reboot" /\ block_setup_term' = TRUE /\ UNCHANGED returned
              \/ /\ pc' = "idle" /\ returned' = "raised"
                 /\ state' \in {state, "UNKNOWN_BAD"}
<1> DEFINE Gates ==
      \/ /\ pc' \in {"detect", "loop"} /\ block_setup_term' = TRUE
         /\ UNCHANGED returned
      \/ /\ pc' = "reboot" /\ block_setup_term' = TRUE /\ UNCHANGED returned
      \/ /\ pc' = "idle" /\ returned' = "raised"
         /\ state' \in {state, "UNKNOWN_BAD"}
<1>1. \A s, h, p, ps1 : Answers(s, h, p, ps1) => Gates
  BY DEF Answers, Detected, Blocks
<1>2. \A h, p, ps1 : \A s \in {state, "UNKNOWN_BAD"} : DetectRaises(s, h, p, ps1) => Gates
  BY DEF DetectRaises, Raises
<1>3. \A h, p, ps1 : RunREBOOT(h, p, ps1) => Gates
  BY DEF RunREBOOT, RebootClears, Blocks
<1> HIDE DEF Gates
<1>4. \A h, p, ps1 : DetectAtMenu(h, p, ps1) => Gates
  BY <1>1, <1>2, <1>3 DEF DetectAtMenu
<1>5. \A h, p, ps1 : DetectAtPrompt(h, p, ps1) => Gates
  BY <1>1, <1>2, <1>3 DEF DetectAtPrompt
<1>6. \A h, p, ps1 : DetectAtLogin(h, p, ps1) => Gates
  BY <1>1, <1>2, <1>3 DEF DetectAtLogin
<1>7. pc = "detect"
  BY DEF DetectTarget
<1>8. Gates
  BY <1>1, <1>2, <1>4, <1>5, <1>6 DEF DetectTarget
<1>9. QED BY <1>7, <1>8 DEF Gates

\* A handler that returns s at the gate b leaves goto_state() only at its target.
LEMMA ReturnsGates ==
    ASSUME Typing, Gate, pc = "loop", NEW s, NEW ps1, NEW prev, Returns(s, ps1, prev),
           s = "OS" => block_setup_term' = FALSE,
           s \in {"OFF", "IPLing", "BOOTING"} => block_setup_term' = TRUE,
           stop => block_setup_term' = TRUE
    PROVE  Gate'
<1>1. returned = "none"
  BY DEF Gate
<1>2. CASE /\ s = target /\ s \in {"PETITBOOT_SHELL", "OS"}
           /\ pc' = "nvram" /\ UNCHANGED <<stop, returned>>
  BY <1>1, <1>2 DEF Gate, ConsoleGate, Returns
<1>3. CASE /\ s = target /\ s \notin {"PETITBOOT_SHELL", "OS"}
           /\ pc' = "idle" /\ returned' = "ok"
  BY <1>3 DEF Gate, ConsoleGate, Returns
<1>4. CASE s = "UNKNOWN" /\ pc' = "idle" /\ returned' = "raised"
  BY <1>4 DEF Gate, ConsoleGate, Returns
<1>5. CASE pc' = "loop" /\ UNCHANGED <<stop, returned>>
  BY <1>1, <1>5 DEF Gate, ConsoleGate, Returns
<1>6. QED BY <1>2, <1>3, <1>4, <1>5 DEF Returns

\* One that raises does so behind the gate, unless it was in the OS, at
\* Petitboot, or saw the crash.
LEMMA RaisesGates ==
    ASSUME NEW s, NEW b, Raises(s, b),
           s \in {"OFF", "POWERING_OFF", "IPLing", "BOOTING"} => block_setup_term' = TRUE
    PROVE  Gate'
  BY DEF Raises, Gate, ConsoleGate

LEMMA PowersOffGates ==
    ASSUME Typing, Gate, pc = "loop", ~stop, PowersOff,
           state # "OS" => block_setup_term' = TRUE
    PROVE  Gate'
<1>1. CASE Returns("POWERING_OFF", PS1_set, previous_state)
  BY <1>1, ReturnsGates
<1>2. CASE PowerFails
  BY <1>2 DEF PowerFails, Gate, ConsoleGate
<1>3. QED BY <1>1, <1>2 DEF PowersOff

LEMMA HandlersGate ==
    ASSUME Typing, Gate,
           \/ RunUNKNOWN \/ RunOFF \/ RunOFFAgain \/ RunIPLing \/ RunPETITBOOT
           \/ RunPETITBOOTSHELL \/ RunBOOTING \/ RunOS \/ RunPOWERINGOFF
    PROVE  Gate'
<1> USE PowersOffGates, ReturnsGates, RaisesGates DEF Handler, HandlerRaises, Blocks
<1>1. CASE RunUNKNOWN
  BY <1>1 DEF RunUNKNOWN
<1>2. CASE RunOFF
  <2>1. ASSUME PowersOn, pc = "loop", ~stop, state = "OFF", block_setup_term' = TRUE
        PROVE  Gate'
    <3>1. CASE PoweredUp
      BY <2>1, <3>1 DEF PoweredUp
    <3>2. CASE pc' = "again" /\ UNCHANGED <<state, stop, returned>>
      BY <2>1, <3>2 DEF Gate, ConsoleGate
    <3>3. CASE HandlerRaises(state, stop)
      BY <2>1, <3>3
    <3>4. QED BY <2>1, <3>1, <3>2, <3>3 DEF PowersOn
  <2>2. QED BY <1>2, <2>1 DEF RunOFF
<1>3. CASE RunIPLing
  <2>1. ASSUME Overdue(ipl_watermark), pc = "loop", ~stop, block_setup_term' = TRUE PROVE Gate'
    BY <2>1 DEF Overdue, Retry
  <2>2. QED BY <1>3, <2>1 DEF RunIPLing, BootFails
<1>4. CASE RunPETITBOOT
  BY <1>4 DEF RunPETITBOOT, ExitToShellFails
<1>5. CASE RunPETITBOOTSHELL
  BY <1>5 DEF RunPETITBOOTSHELL
<1>6. CASE RunBOOTING
  <2>1. ASSUME Overdue(booting_watermark), pc = "loop", ~stop, block_setup_term' = TRUE PROVE Gate'
    BY <2>1 DEF Overdue, Retry
  <2>2. QED BY <1>6, <2>1 DEF RunBOOTING, BootFails
<1>7. CASE RunOS
  BY <1>7 DEF RunOS
<1>8. CASE RunPOWERINGOFF
  BY <1>8 DEF RunPOWERINGOFF, StandbyTimeout
<1>9. CASE RunOFFAgain
  <2>1. /\ state = "OFF" /\ pc = "again" /\ ~stop /\ block_setup_term' = TRUE
        /\ returned = "none"
    BY <1>9 DEF RunOFFAgain, Gate
  <2>2. CASE PowerFails
    BY <2>1, <2>2 DEF PowerFails, Gate, ConsoleGate
  <2>3. CASE PoweredUp
    BY <2>1, <2>3 DEF PoweredUp, Returns, Gate, ConsoleGate
  <2>4. QED BY <1>9, <2>2, <2>3 DEF RunOFFAgain
<1>10. QED BY <1>1, <1>2, <1>3, <1>4, <1>5, <1>6, <1>7, <1>8, <1>9

LEMMA GateStep ==
    ASSUME Typing, Agreement, Gate, [Next]_vars PROVE Gate'
<1> USE DEF Gate, ConsoleGate
<1>1. CASE DetectTarget
  <2>1. pc = "detect" /\ state \in {"UNKNOWN", "UNKNOWN_BAD"} /\ returned = "none"
    BY <1>1, DetectGates DEF Agreement
  <2>2. CASE pc' = "idle" /\ returned' = "raised" /\ state' \in {state, "UNKNOWN_BAD"}
    BY <2>1, <2>2
  <2>3. CASE pc' \in {"detect", "loop", "reboot"} /\ block_setup_term' = TRUE /\ UNCHANGED returned
    BY <2>1, <2>3
  <2>4. QED BY <1>1, <2>2, <2>3, DetectGates
<1>2. CASE RebootWaits
  <2>1. /\ pc = "reboot" /\ pc' \in {"detect", "loop"}
        /\ block_setup_term' = TRUE /\ UNCHANGED returned
    BY <1>2, Zenon DEF RebootWaits, Detected, Blocks
  <2>2. QED BY <2>1
<1>3. CASE Stopping
  BY <1>3, RaisesGates DEF Stopping
<1>4. CASE CheckNvram
  <2>1. /\ pc = "nvram" /\ pc' = "idle" /\ UNCHANGED block_setup_term
        /\ \/ returned' \in {"ok", "raised"} /\ UNCHANGED state
           \/ state' = "UNKNOWN_BAD"
    BY <1>4, Zenon DEF CheckNvram
  <2>2. state \in {"OS", "PETITBOOT_SHELL"}
    BY <2>1
  <2>3. QED BY <2>1, <2>2
<1>5. CASE \/ RunUNKNOWN \/ RunOFF \/ RunOFFAgain \/ RunIPLing
           \/ RunPETITBOOT \/ RunPETITBOOTSHELL \/ RunBOOTING \/ RunOS \/ RunPOWERINGOFF
  BY <1>5, HandlersGate
<1>6. ASSUME NEW t \in Targets, GotoState(t) PROVE Gate'
  BY <1>6 DEF GotoState, Blocks
<1>7. CASE TestRunsCommand \/ TestMovesMachine \/ TestClearsStop
  BY <1>7 DEF TestRunsCommand, TestMovesMachine, TestClearsStop, TestFrame
<1>8. ASSUME NEW s \in OpSystemState, SetState(s) PROVE Gate'
  BY <1>8 DEF SetState, TestFrame
<1>9. CASE Machine \/ UNCHANGED vars
  <2>1. UNCHANGED <<state, stop, block_setup_term, pc, returned>>
    BY <1>9 DEF Machine, HostStops, HostIPLs, HostAutoBoots, HostBoots, HostCrashes,
                HostReIPLs, HostMoves, vars
  <2>2. QED BY <2>1
<1>10. QED
  BY <1>1, <1>2, <1>3, <1>4, <1>5, <1>6, <1>7, <1>8, <1>9 DEF Next, Goto, Test

\* Told() only ever turns "untold" into "told".
LEMMA ToldIsNone == \A s : (Told(s) = "none" => drift = "none")
  BY DEF Told

\* get_console() leaves the shell and its flag as they were, or sets both.
LEMMA ConsolesSetBoth ==
    \A blocked : \A con \in Consoles(blocked) :
        \/ con[1] = PS1_set /\ con[2] = prompt
        \/ con[1] = TRUE /\ con[2] = TRUE
<1>1. \A blocked : \A con \in Consoles(blocked) :
        con = <<PS1_set, prompt>> \/ con = <<TRUE, TRUE>>
  BY Zenon DEF Consoles
<1>2. ASSUME NEW con,
             con = <<PS1_set, prompt>> \/ con = <<TRUE, TRUE>>
      PROVE  \/ con[1] = PS1_set /\ con[2] = prompt
             \/ con[1] = TRUE /\ con[2] = TRUE
  <2>1. CASE con = <<PS1_set, prompt>>
    BY <2>1, Zenon
  <2>2. CASE con = <<TRUE, TRUE>>
    BY <2>2, Zenon
  <2>3. QED BY <1>2, <2>1, <2>2
<1>3. QED BY <1>1, <1>2, Zenon

\* The flag that a look at the console leaves behind is that of a shell it set
\* up, provided the one it came with was.
LEMMA DetectKeeps ==
    ASSUME PromptKept, DetectTarget PROVE PromptKept'
<1> DEFINE Kept(h, p, ps1) ==
      drift = "none" /\ ps1 /\ ~p =>
          h \in {"stopping", "off"} /\ previous_state = "POWERING_OFF"
           Held(p, ps1) == drift = "none" /\ ps1 => p
<1>1. ASSUME NEW s, NEW h, NEW p, NEW ps1, Answers(s, h, p, ps1),
             Held(p, ps1) \/ (Kept(h, p, ps1) /\ UNCHANGED previous_state)
      PROVE  PromptKept'
  BY <1>1 DEF Answers, Seen, PromptKept
<1>2. ASSUME NEW s, NEW h, NEW p, NEW ps1, DetectRaises(s, h, p, ps1),
             Held(p, ps1) \/ (Kept(h, p, ps1) /\ UNCHANGED previous_state)
      PROVE  PromptKept'
  BY <1>2, ToldIsNone DEF DetectRaises, Raises, PromptKept
<1>3. ASSUME NEW h, NEW p, NEW ps1, RunREBOOT(h, p, ps1) PROVE PromptKept'
  BY <1>3 DEF RunREBOOT, RebootClears, PromptKept
<1>4. ASSUME NEW h, NEW p, NEW ps1, Held(p, ps1), DetectAtMenu(h, p, ps1)
      PROVE  PromptKept'
  <2>1. Held(SetUp(p, ps1), TRUE)
    BY <1>4 DEF SetUp
  <2>2. QED BY <1>1, <1>2, <1>3, <1>4, <2>1 DEF DetectAtMenu
<1>5. ASSUME NEW h, NEW p, NEW ps1, Held(p, ps1), DetectAtPrompt(h, p, ps1)
      PROVE  PromptKept'
  <2>1. \A h2, ps2 : Held(h2 = h /\ (p \/ ps2), h2 = h /\ ps2)
    OBVIOUS
  <2>2. QED BY <1>1, <1>2, <1>3, <1>5, <2>1 DEF DetectAtPrompt
<1>6. ASSUME NEW h, NEW p, NEW ps1, Held(p, ps1), DetectAtLogin(h, p, ps1)
      PROVE  PromptKept'
  BY <1>1, <1>2, <1>3, <1>6 DEF DetectAtLogin
<1>7. ASSUME NEW con \in Consoles(FALSE), NEW h,
             host \notin {"stopping", "off"} => h \notin {"stopping", "off"},
             host \in {"stopping", "off"} => h = host
      PROVE  Kept(h, con[2], con[1])
  <2>1. \/ con[1] = PS1_set /\ con[2] = prompt
        \/ con[1] = TRUE /\ con[2] = TRUE
    BY ConsolesSetBoth
  <2>2. QED BY <1>7, <2>1 DEF PromptKept
<1>8. \A h, p : "petitboot" \in Shows(h, p) \/ "prompt" \in Shows(h, p) \/ "login" \in Shows(h, p)
          => h \notin {"stopping", "off"}
  BY DEF Shows, AtPrompt, Menu
<1>9. CASE /\ UNCHANGED previous_state
           /\ \/ DetectRaises("UNKNOWN_BAD", host, prompt, PS1_set)
              \/ DetectRaises(state, host, prompt, PS1_set)
  BY <1>2, <1>9 DEF PromptKept
<1>10. ASSUME NEW con \in Consoles(FALSE), NEW h,
              h = IF host \in Menu THEN "menu" ELSE host,
              \/ "petitboot" \in Shows(h, con[2]) /\ DetectAtMenu(h, con[2], con[1])
              \/ "prompt" \in Shows(h, con[2]) /\ DetectAtPrompt(h, con[2], con[1])
              \/ "login" \in Shows(h, con[2]) /\ DetectAtLogin(h, con[2], con[1])
              \/ Answers("UNKNOWN", h, con[2], con[1]) /\ UNCHANGED previous_state
       PROVE  PromptKept'
  <2>1. Kept(h, con[2], con[1])
    BY <1>7, <1>10 DEF Menu
  <2>2. h \notin {"stopping", "off"} => Held(con[2], con[1])
    BY <2>1
  <2> HIDE DEF Kept, Held
  <2>3. QED BY <1>1, <1>4, <1>5, <1>6, <1>8, <1>10, <2>1, <2>2
<1>11. QED BY <1>9, <1>10 DEF DetectTarget

\* A handler keeps the flag only when it returns to the state it came from.
LEMMA HandlersKeep ==
    ASSUME Typing, PromptKept,
           \/ RunUNKNOWN \/ RunOFF \/ RunOFFAgain \/ RunIPLing \/ RunPETITBOOT
           \/ RunPETITBOOTSHELL \/ RunBOOTING \/ RunOS \/ RunPOWERINGOFF
    PROVE  PromptKept'
<1>1. ASSUME NEW s, NEW ps1, NEW prev, Returns(s, ps1, prev)
      PROVE  PS1_set' => ps1 /\ prev = s /\ previous_state' = s
  BY <1>1 DEF Returns
<1>2. ASSUME NEW s, NEW b, HandlerRaises(s, b), UNCHANGED <<tracking, machine>>
      PROVE  PromptKept'
  BY <1>2, ToldIsNone DEF HandlerRaises, Raises, tracking, machine, PromptKept
<1>3. ASSUME NEW s, Returns(s, PS1_set, previous_state), UNCHANGED machine,
             drift' = "none" => drift = "none"
      PROVE  PromptKept'
  BY <1>1, <1>3 DEF machine, PromptKept
<1>4. ASSUME PowersOff PROVE PromptKept'
  <2>1. CASE /\ host' = PoweredOff
             /\ Returns("POWERING_OFF", PS1_set, previous_state)
    BY <1>1, <2>1 DEF PoweredOff, PromptKept
  <2>2. CASE /\ host' \in {host, PoweredOff} /\ prompt' = (prompt /\ host' = host)
             /\ PowerFails /\ UNCHANGED tracking
    <3>1. UNCHANGED <<PS1_set, previous_state>>
          /\ (drift' = "none" => drift = "none" /\ UNCHANGED host)
      BY <2>2 DEF PowerFails, Unanswered, tracking
    <3>2. drift' = "none" /\ ~prompt' => ~prompt
      BY <2>2, <3>1
    <3>3. QED BY <3>1, <3>2 DEF PromptKept
  <2>3. QED BY <1>4, <2>1, <2>2 DEF PowersOff
<1>5. ASSUME NEW w, Overdue(w) PROVE PromptKept'
  BY <1>3, <1>5, ToldIsNone DEF Overdue
<1>6. ASSUME BootFails PROVE PromptKept'
  BY <1>2, <1>6 DEF BootFails
<1>15. ASSUME PoweredUp, UNCHANGED prompt PROVE PromptKept'
  BY <1>1, <1>15 DEF PoweredUp, PoweredOn, PromptKept
<1>16. ASSUME UNCHANGED <<prompt, tracking>>, drift' = Unanswered PROVE PromptKept'
  BY <1>16 DEF Unanswered, tracking, PromptKept
<1>7. CASE RunUNKNOWN
  BY <1>4, <1>7 DEF RunUNKNOWN
<1>8. CASE RunOFF
  <2>1. ASSUME PowersOn PROVE PromptKept'
    <3>1. CASE PoweredUp /\ UNCHANGED prompt
      BY <1>15, <3>1
    <3>2. CASE /\ UNCHANGED <<prompt, host, tracking>>
               /\ HandlerRaises(state, stop)
      BY <3>2, ToldIsNone DEF HandlerRaises, Raises, tracking, PromptKept
    <3>3. CASE /\ UNCHANGED <<prompt, tracking>> /\ drift' = Unanswered
      BY <1>16, <3>3
    <3>4. QED BY <2>1, <3>1, <3>2, <3>3 DEF PowersOn
  <2>2. QED BY <1>3, <1>8, <2>1 DEF RunOFF
<1>9. CASE RunIPLing
  BY <1>3, <1>4, <1>5, <1>6, <1>9 DEF RunIPLing
<1>10. CASE RunPETITBOOT
  <2>1. ASSUME ExitToShellFails PROVE PromptKept'
    BY <2>1, ToldIsNone
       DEF ExitToShellFails, FromMenu, Menu, HandlerRaises, Raises, tracking, PromptKept
  <2>2. ASSUME AtPrompt(FromMenu(host), prompt), UNCHANGED drift,
               prompt' = SetUp(prompt, PS1_set)
        PROVE  PromptKept'
    BY <2>2 DEF AtPrompt, FromMenu, Menu, SetUp, PromptKept
  <2>3. ASSUME Returns("PETITBOOT", FALSE, "PETITBOOT_SHELL") PROVE PromptKept'
    BY <1>1, <2>3 DEF PromptKept
  <2>4. QED BY <1>3, <1>4, <1>10, <2>1, <2>2, <2>3 DEF RunPETITBOOT
<1>11. CASE RunPETITBOOTSHELL
  <2>1. ASSUME AtPrompt(host, prompt), UNCHANGED <<host, drift>>,
               prompt' = SetUp(prompt, PS1_set)
        PROVE  PromptKept'
    BY <2>1 DEF AtPrompt, SetUp, PromptKept
  <2>2. ASSUME Returns("PETITBOOT", FALSE, previous_state) PROVE PromptKept'
    BY <1>1, <2>2 DEF PromptKept
  <2>3. QED BY <1>2, <1>3, <1>4, <1>11, <2>1, <2>2 DEF RunPETITBOOTSHELL, machine
<1>12. CASE RunBOOTING
  BY <1>3, <1>5, <1>6, <1>12 DEF RunBOOTING
<1>13. CASE RunOS
  BY <1>3, <1>4, <1>13 DEF RunOS
<1>14. CASE RunPOWERINGOFF
  <2>1. ASSUME Returns("OFF", FALSE, previous_state) PROVE PromptKept'
    BY <1>1, <2>1 DEF PromptKept
  <2>2. QED BY <1>2, <1>14, <2>1 DEF RunPOWERINGOFF, StandbyTimeout
<1>17. CASE RunOFFAgain
  BY <1>15, <1>16, <1>17 DEF RunOFFAgain, PowerFails
<1>18. QED BY <1>7, <1>8, <1>9, <1>10, <1>11, <1>12, <1>13, <1>14, <1>17

LEMMA PromptKeptStep ==
    ASSUME Typing, PromptKept, [Next]_vars PROVE PromptKept'
<1>1. CASE DetectTarget
  BY <1>1, DetectKeeps
<1>2. CASE RebootWaits \/ Stopping
  <2>1. UNCHANGED <<tracking, machine>> /\ (drift' = "none" => drift = "none")
    BY <1>2, ToldIsNone DEF RebootWaits, Seen, Stopping, Raises
  <2>2. QED BY <2>1 DEF PromptKept, tracking, machine
<1>3. CASE CheckNvram \/ TestRunsCommand
  <2>1. /\ UNCHANGED <<previous_state, host>> /\ (drift' = "none" => drift = "none")
        /\ \/ UNCHANGED <<PS1_set, prompt>>
           \/ PS1_set' = TRUE /\ prompt' = TRUE
    BY <1>3, ToldIsNone, ConsolesSetBoth DEF CheckNvram, TestRunsCommand, TestFrame
  <2>2. CASE UNCHANGED <<PS1_set, prompt>>
    BY <2>1, <2>2 DEF PromptKept
  <2>3. CASE PS1_set' = TRUE /\ prompt' = TRUE
    BY <2>3, Zenon DEF PromptKept
  <2>4. QED BY <2>1, <2>2, <2>3
<1>4. CASE \/ RunUNKNOWN \/ RunOFF \/ RunOFFAgain \/ RunIPLing
           \/ RunPETITBOOT \/ RunPETITBOOTSHELL \/ RunBOOTING \/ RunOS \/ RunPOWERINGOFF
  BY <1>4, HandlersKeep
<1>5. ASSUME NEW t \in Targets, GotoState(t) PROVE PromptKept'
  BY <1>5 DEF GotoState, tracking, machine, PromptKept
<1>6. CASE TestMovesMachine
  BY <1>6 DEF TestMovesMachine, PromptKept
<1>7. CASE TestClearsStop \/ \E s \in OpSystemState : SetState(s)
  <2>1. UNCHANGED <<previous_state, PS1_set, host, prompt>> /\ (drift' = "none" => drift = "none")
    BY <1>7, ToldIsNone DEF TestClearsStop, SetState, Seen, TestFrame
  <2>2. QED BY <2>1 DEF PromptKept
<1>8. CASE Machine
  BY <1>8 DEF Machine, HostMoves, HostStops, HostIPLs, HostAutoBoots, HostBoots,
              HostCrashes, HostReIPLs, tracking, PromptKept
<1>9. CASE UNCHANGED vars
  BY <1>9 DEF vars, tracking, machine, PromptKept
<1>10. QED
  BY <1>1, <1>2, <1>3, <1>4, <1>5, <1>6, <1>7, <1>8, <1>9 DEF Next, Goto, Test

-----------------------------------------------------------------------------
(* The theorems.                                                           *)

LEMMA Invariance == Spec => []IInv
<1>1. Init => IInv
  BY InitTyping, InitAccounts DEF IInv
<1>2. IInv /\ [Next]_vars => IInv'
  <2>1. ASSUME IInv, [Next]_vars PROVE IInv'
    <3>1. pc \in {"detect", "reboot"} => detect_counter \in 1..2
      BY <2>1 DEF IInv, DetectAccount
    <3>2. QED
      BY <2>1, <3>1, TypingStep, IPLAccountStep, DetectAccountStep DEF IInv
  <2>2. QED BY <2>1
<1>3. QED BY <1>1, <1>2, PTL DEF Spec

\* goto_state() and its handlers keep every field of OpTestSystem in its type;
\* in particular no watermark ever passes the kill cord.
THEOREM TypeCorrect == Spec => []TypeOK
<1>1. IInv => TypeOK
  BY TypingIsTypeOK DEF IInv
<1>2. QED BY <1>1, Invariance, PTL

\* For every kill cord and initial watermark, one goto_state() re-IPLs at most
\* as often as the two watermarks grant, plus the IPL that was asked for.
THEOREM BoundedReIPL == Spec => []ReIPLBound
<1>1. IInv => ReIPLBound
  <2>1. ASSUME IInv PROVE ReIPLBound
    BY <2>1, WatermarkAssumption DEF IInv, Typing, IPLAccount, ReIPLBound
  <2>2. QED BY <2>1
<1>2. QED BY <1>1, Invariance, PTL

\* Detection types reboot at most twice in the life of the system object.
THEOREM BoundedDetection == Spec => []DetectionReboots
<1>1. IInv => DetectionReboots
  BY DEF IInv, DetectAccount, DetectionReboots
<1>2. QED BY <1>1, Invariance, PTL

LEMMA AgreementInvariance == Spec => []Agreement
<1>1. Init => Agreement
  BY DEF Init, Agreement, StateAgrees
<1>2. IInv /\ Agreement /\ [Next]_vars => Agreement'
  BY AgreementStep DEF IInv
<1>3. QED BY <1>1, <1>2, Invariance, PTL DEF Spec

LEMMA GateInvariance == Spec => []Gate
<1>1. Init => Gate
  BY DEF Init, Gate, ConsoleGate
<1>2. IInv /\ Agreement /\ Gate /\ [Next]_vars => Gate'
  BY GateStep DEF IInv
<1>3. QED BY <1>1, <1>2, Invariance, AgreementInvariance, PTL DEF Spec

\* Unless it moved behind op-test's back, the machine is where a state that
\* claims OFF, POWERING_OFF or OS says, whatever ran before; and after a power
\* command whose answer was lost it is where that command sent it.
THEOREM StateIsTrue == Spec => []StateAgrees
<1>1. Agreement => StateAgrees
  BY DEF Agreement
<1>2. QED BY <1>1, AgreementInvariance, PTL

\* op-test applies power only to a machine that is off, or that a power-on of
\* its own has started unanswered, and never to one going down.
THEOREM PowerOnComes == Spec => PowerOnTakes
<1> DEFINE Takes == \/ host = "off" \/ drift = "untold"
                    \/ drift = "lost" /\ host \notin GoingDown
<1>1. IInv /\ Agreement /\ [Next]_vars => [ipls' > ipls => Takes]_vars
  <2>1. ASSUME Agreement, RunOFF \/ RunOFFAgain PROVE state = "OFF"
    BY <2>1 DEF RunOFF, RunOFFAgain, Handler, Agreement
  <2>2. ASSUME Typing, Agreement, state = "OFF" PROVE Takes
    BY <2>2 DEF Typing, Agreement, StateAgrees, Agrees
  <2>3. ASSUME Typing, [Next]_vars, ~RunOFF, ~RunOFFAgain PROVE ~(ipls' > ipls)
    BY <2>3, PowersOnlyInOFF
  <2>4. QED BY <2>1, <2>2, <2>3 DEF IInv
<1>2. QED BY <1>1, Invariance, AgreementInvariance, PTL DEF Spec, PowerOnTakes

\* A stopped op-test does not switch the power, even while it still detects.
THEOREM StopRespected == Spec => StoppedNeverPowers
<1>1. Gate /\ [Next]_vars =>
         [stop /\ pc # "idle" => /\ ipls' = ipls
                                 /\ host' = "stopping" => host = "stopping"]_vars
  <2>1. ASSUME Gate, Next, stop, pc # "idle"
        PROVE  ipls' = ipls /\ (host' = "stopping" => host = "stopping")
    <3>1. CASE DetectTarget
      BY <3>1, DetectCounts, DetectMoves
    <3>2. CASE RebootWaits \/ Stopping \/ CheckNvram
      BY <3>2 DEF RebootWaits, Stopping, CheckNvram, machine, history
    <3>7. CASE RunOFFAgain
      <4>1. ~stop
        BY <2>1, <3>7 DEF RunOFFAgain, Gate
      <4>2. QED BY <2>1, <4>1
    <3>3. CASE \/ RunUNKNOWN \/ RunOFF \/ RunIPLing \/ RunPETITBOOT \/ RunPETITBOOTSHELL
               \/ RunBOOTING \/ RunOS \/ RunPOWERINGOFF
      BY <2>1, <3>3 DEF RunUNKNOWN, RunOFF, RunIPLing, RunPETITBOOT, RunPETITBOOTSHELL,
                        RunBOOTING, RunOS, RunPOWERINGOFF, Handler
    <3>4. CASE Test
      BY <2>1, <3>4 DEF Test, GotoState, TestRunsCommand, TestMovesMachine, TestClearsStop,
                        SetState
    <3>5. CASE Machine
      BY <3>5 DEF Machine, HostMoves, HostStops, HostIPLs, HostAutoBoots, HostBoots,
                  HostCrashes, HostReIPLs, history
    <3>6. QED BY <2>1, <3>1, <3>2, <3>3, <3>4, <3>5, <3>7 DEF Next, Goto
  <2>2. ASSUME Gate, Next, stop /\ pc # "idle"
        PROVE  /\ ipls' = ipls
               /\ host' = "stopping" => host = "stopping"
    BY <2>1, <2>2
  <2>3. QED BY <2>2
<1>2. QED BY <1>1, GateInvariance, PTL DEF Spec, StoppedNeverPowers

\* A console connection may set up its shell after goto_state() exactly when
\* there is a system to log in to: block_setup_term is clear when it returned
\* in the OS, and set when it gave up on the way there.
THEOREM GateKept == Spec => []ConsoleGate
<1>1. Gate => ConsoleGate
  BY DEF Gate
<1>2. QED BY <1>1, GateInvariance, PTL

\* No path through the handlers, whatever the targets, leaves PS1_set = 1 over
\* a running shell that op-test has not set up.
THEOREM PromptFlagTrue == Spec => []NoStalePrompt
<1>1. Init => PromptKept
  BY DEF Init, PromptKept, tracking
<1>2. IInv /\ PromptKept /\ [Next]_vars => PromptKept'
  BY PromptKeptStep DEF IInv
<1>3. PromptKept => NoStalePrompt
  BY DEF PromptKept, NoStalePrompt
<1>4. QED BY <1>1, <1>2, <1>3, Invariance, PTL DEF Spec

=============================================================================
