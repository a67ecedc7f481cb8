----------------------------- MODULE LPAR_proofs -----------------------------
(***************************************************************************)
(* The tests of a logical partition, whatever tests a run has and however  *)
(* long its waits are: that a state machine at OFF is right, that the HMC  *)
(* object names the system the partition is on, and that tests which all   *)
(* pass leave the partition as they found it.                              *)
(*                                                                         *)
(* Shape says where an operation is and what goto_state() may have called; *)
(* Effects sorts the steps by what they do to the calls that are left.     *)
(* World relates the state machine, the looks and the HMC's orders to the  *)
(* partition; Tidy says what a test that has taken something down, or      *)
(* moved it, has still to call.                                            *)
(***************************************************************************)
EXTENDS LPAR, TLAPS, SequenceTheorems

-----------------------------------------------------------------------------
(* The calls of the tests                                                  *)

CallNames == {"goto", "poweroff", "poweron", "migrate", "crossmigrate", "restart",
           "prepare", "ssh", "sysoff", "syson", "kick"}

LEMMA CallParts ==
    \A c \in Calls : c = <<c[1], c[2]>> /\ c[1] \in CallNames
                     /\ c[2] \in {"OFF", "OS", "local", "remote", "try"}
                     /\ (c[1] = "goto" <=> c[2] \in {"OFF", "OS"})
  BY DEF Calls, CallNames

LEMMA MadeCalls ==
    /\ Goto("OFF") \in Calls /\ Goto("OS") \in Calls
    /\ Off("local") \in Calls /\ Off("remote") \in Calls /\ Off("try") \in Calls
    /\ On("local") \in Calls /\ On("remote") \in Calls /\ On("try") \in Calls
    /\ Migrate("local") \in Calls /\ Migrate("remote") \in Calls
    /\ Cross("local") \in Calls /\ Cross("remote") \in Calls
    /\ \A n \in {"restart", "prepare", "ssh", "sysoff", "syson", "kick"} : Do(n) \in Calls
  BY DEF Calls, Goto, Off, On, Migrate, Cross, Do

LEMMA ProgramTypes == \A k \in Kinds : Program[k] \in Seq(Calls)
<1>1. PowerCycle \in Seq(Calls) /\ RestoreConfig \in Seq(Calls) /\ OnlyKdumpEnable \in Seq(Calls)
  BY MadeCalls DEF PowerCycle, RestoreConfig, OnlyKdumpEnable
<1>2. SecureBoot \in Seq(Calls)
  BY MadeCalls DEF SecureBoot
<1>3. Hugepage16G \in Seq(Calls) /\ CecConfig \in Seq(Calls) /\ ActiveMigration \in Seq(Calls)
  BY MadeCalls DEF Hugepage16G, CecConfig, ActiveMigration
<1>4. InactiveMigration \in Seq(Calls) /\ CrossMigration \in Seq(Calls) /\ ColdMigration \in Seq(Calls)
  BY MadeCalls DEF InactiveMigration, CrossMigration, ColdMigration
<1>5. QED
  BY <1>1, <1>2, <1>3, <1>4, TestsAssumption DEF Program

-----------------------------------------------------------------------------
(* Types, and the shape of an operation                                    *)

\* The parts of TypeOK: the run, the operation, the state machine, the HMC and the
\* partition, and what is remembered of the past.
PlanType == left \in 0 .. Last /\ todo \in Seq(Calls) /\ src \in Systems /\ mg \in Systems

Most == 1 + IF WaitLimit > ErrorLimit THEN WaitLimit ELSE ErrorLimit

CallType ==
    /\ op \in Calls \cup {Idle}
    /\ step \in Looking \cup Migrating \cup {None, "shutdown", "on", "ssh", "kick"}
    /\ looks \in 0 .. Most
    /\ saw \in Seen \cup {None, "up"}

MachineType ==
    /\ goal \in {None, "OFF", "OS"}
    /\ state \in {"UNKNOWN", "UNKNOWN_BAD", "OFF", "POWERING_OFF", "BOOTING", "OS"}
    /\ stop \in BOOLEAN
    /\ watermark \in booting_watermark .. kill_cord

WorldType ==
    /\ part \in Parts
    /\ cec \in [Systems -> Powers]
    /\ asked \in {"nothing", "off", "on", "restart"}
    /\ at \in Systems
    /\ moving \in {None, "moving", "stuck"}

HistoryType ==
    /\ failed \in BOOLEAN /\ crashed \in BOOLEAN
    /\ blind \in BOOLEAN /\ unwaited \in BOOLEAN /\ unchecked \in BOOLEAN

LEMMA TypeParts ==
    /\ TypeOK <=> PlanType /\ CallType /\ MachineType /\ WorldType /\ HistoryType
    /\ TypeOK' <=> PlanType' /\ CallType' /\ MachineType' /\ WorldType' /\ HistoryType'
  BY Zenon DEF TypeOK, PlanType, CallType, MachineType, WorldType, HistoryType, Most

LEMMA TailType ==
    ASSUME PlanType PROVE (todo # <<>> => Head(todo) \in Calls /\ Tail(todo) \in Seq(Calls))
                          /\ AfterTry \in Seq(Calls)
  BY HeadTailProperties DEF AfterTry, PlanType

\* Where an operation is.
OpOK ==
    /\ op # Idle => op[1] # "goto"
    /\ op = Idle <=> step = None
    /\ saw # None => step \in Looking
    /\ step \in Looking => op[1] \in {"poweroff", "poweron", "restart", "prepare", "sysoff", "syson"}
    /\ step \in {"clear", "again", "on"} => op[1] = "poweron"
    /\ step = "shutdown" => op[1] \in {"poweroff", "poweron", "restart"}
    /\ step \in Migrating <=> op[1] \in {"migrate", "crossmigrate"}
    /\ step \in {"check", "answer", "stop", "recover"} => op[1] = "migrate"
    /\ step = "ssh" <=> op[1] = "ssh"
    /\ step = "kick" <=> op[1] = "kick"
    /\ op[1] = "prepare" => step = "first"
    /\ step = "clear" => looks \in 1 .. ErrorLimit

\* What goto_state() may have called.
GoalOK ==
    /\ goal # None => op \in {Idle, Off("local"), On("local")}
    /\ state \in {"POWERING_OFF", "BOOTING"} => goal # None /\ op = Idle /\ ~stop
    /\ goal # None /\ op # Idle => ~stop
    /\ goal # None /\ op = On("local") => state = "OFF"
    /\ goal # None /\ op = Off("local") =>
            state \in {"UNKNOWN_BAD", "OS"} /\ ~(state = "OS" /\ goal = "OS")

\* An operation goes on, or the world does.
Stays == UNCHANGED <<left, todo, src, mg, op, goal, state, stop, failed>>

\* An operation that the test called returns to it.
Ends ==
    /\ op # Idle /\ goal = None /\ op[1] \notin {"prepare", "migrate"}
    /\ op' = Idle
    /\ UNCHANGED <<left, todo, src, mg, goal, state, stop, failed>>

\* A step of goto_state().
Moves ==
    /\ goal # None
    /\ \/ op = Idle /\ ~stop /\ op' = Off("local") /\ UNCHANGED <<goal, state>>
          /\ state \in {"UNKNOWN_BAD", "OS"} /\ ~(state = "OS" /\ goal = "OS")
       \/ op = Idle /\ ~stop /\ op' = On("local") /\ UNCHANGED <<goal, state>>
          /\ state = "OFF"
       \/ op = Idle /\ ~stop /\ op' = Idle /\ \E s \in {"UNKNOWN_BAD", "OFF", "OS"} : To(s)
       \/ op = Off("local") /\ op' = Idle /\ To("POWERING_OFF")
       \/ op = On("local") /\ op' = Idle /\ To("BOOTING")
    /\ UNCHANGED <<left, todo, src, mg, stop, failed>>

\* The migration of a test is over.
Renames ==
    /\ op[1] = "migrate" /\ step = "answer" /\ Listed(Dest) /\ moving = None
    /\ op' = Idle /\ mg' = Dest
    /\ UNCHANGED <<left, todo, src, goal, state, stop, failed>>

\* An exception ends what the test calls, and the test unless it is caught.
Excepts ==
    /\ op' = Idle /\ goal' = None
    /\ \/ Caught /\ todo' = AfterTry /\ UNCHANGED failed
       \/ todo' = <<>> /\ failed'
    /\ UNCHANGED <<left, src, mg>>
    /\ \/ UNCHANGED <<state, stop>> /\ state \notin {"POWERING_OFF", "BOOTING"}
       \/ goal # None /\ op = Idle /\ state' \in {"UNKNOWN", "UNKNOWN_BAD", "OS"}

LEMMA RaisesExcepts ==
    ASSUME HistoryType, OpOK, GoalOK, Raises \/ Breaks, UNCHANGED mg,
           \/ UNCHANGED <<state, stop>> /\ (stop \/ step # None)
           \/ goal # None /\ op = Idle /\ state' \in {"UNKNOWN", "UNKNOWN_BAD", "OS"}
    PROVE  Excepts
<1>1. op' = Idle /\ goal' = None /\ UNCHANGED <<left, src, mg>>
  BY DEF Raises, Breaks, Enters
<1>2. \/ Caught /\ todo' = AfterTry /\ UNCHANGED failed
      \/ todo' = <<>> /\ failed'
  BY Zenon DEF HistoryType, Raises, Breaks
<1>3. \/ UNCHANGED <<state, stop>> /\ state \notin {"POWERING_OFF", "BOOTING"}
      \/ goal # None /\ op = Idle /\ state' \in {"UNKNOWN", "UNKNOWN_BAD", "OS"}
  BY DEF OpOK, GoalOK
<1>4. QED BY <1>1, <1>2, <1>3 DEF Excepts

LEMMA ReturnsEnds ==
    ASSUME OpOK, GoalOK, Returns, op # Idle, op[1] \notin {"prepare", "migrate"}, UNCHANGED <<mg, failed>>
    PROVE  Ends \/ Moves
<1> USE DEF Returns, Enters, runner
<1>1. CASE goal = None
  BY <1>1 DEF Ends
<1>2. CASE goal # None
  <2>1. (op = Off("local") /\ op[1] = "poweroff") \/ (op = On("local") /\ op[1] = "poweron")
    BY <1>2 DEF GoalOK, Off, On
  <2>2. QED BY <1>2, <2>1 DEF Moves
<1>3. QED BY <1>1, <1>2

LEMMA Effects ==
    ASSUME TypeOK, OpOK, GoalOK, [Next]_vars
    PROVE  BeginTest \/ Call \/ Prepare \/ Stays \/ Ends \/ Moves \/ Renames \/ Excepts
<1> USE DEF runner, machine, call, partition, history, None
<1>0. HistoryType BY TypeParts
<1>1. CASE LookAtState \/ LookAtRefcode \/ LookAtSystem \/ ErrorClears \/ GoesOn
           \/ FindsIt \/ Validate \/ StopMigration
  BY <1>1 DEF LookAtState, LookAtRefcode, LookAtSystem, ErrorClears, GoesOn, LooksOn,
              FindsIt, Validate, StopMigration, Stays
<1>2. CASE LookFails
  BY <1>0, <1>2, RaisesExcepts DEF LookFails, Stays, Looking
<1>3. CASE Decide
  <2>1. op # Idle /\ op[1] \notin {"prepare", "migrate"} /\ UNCHANGED <<mg, failed>>
    BY <1>3 DEF Decide, Looked, OpOK, Looking, Migrating
  <2>2. CASE Returns
    BY <2>1, <2>2, ReturnsEnds
  <2>3. CASE ~Returns
    BY <1>3, <2>3 DEF Decide, Stays
  <2>4. QED BY <2>2, <2>3
<1>4. CASE Shutdown
  BY <1>0, <1>4, RaisesExcepts DEF Shutdown, LooksOn, Stays
<1>5. CASE PowerOn
  BY <1>0, <1>5, RaisesExcepts DEF PowerOn, Enters, Stays
<1>6. CASE Waited
  <2>1. step # None /\ op # Idle /\ op[1] \notin {"prepare", "migrate"} /\ UNCHANGED mg
    BY <1>6 DEF Waited, Looked, OpOK, Looking, Migrating
  <2>2. CASE Returns /\ UNCHANGED failed
    BY <2>1, <2>2, ReturnsEnds
  <2>3. CASE Raises /\ UNCHANGED <<state, stop>>
    BY <1>0, <2>1, <2>3, RaisesExcepts
  <2>4. CASE LooksOn("wait") /\ UNCHANGED <<runner, machine, history>>
    BY <2>1, <2>4 DEF LooksOn, Stays
  <2>5. QED BY <1>6, <2>2, <2>3, <2>4 DEF Waited
<1>7. CASE PowerSystem
  BY <1>0, <1>7, RaisesExcepts DEF PowerSystem, LooksOn, Looked, Stays
<1>8. CASE OverSSH
  <2>1. step # None /\ op # Idle /\ op[1] \notin {"prepare", "migrate"} /\ UNCHANGED mg
    BY <1>8 DEF OverSSH, OpOK, Looking, Migrating
  <2>2. CASE Returns /\ UNCHANGED failed
    BY <2>1, <2>2, ReturnsEnds
  <2>3. CASE Raises /\ UNCHANGED <<state, stop>>
    BY <1>0, <2>1, <2>3, RaisesExcepts
  <2>4. QED BY <1>8, <2>2, <2>3 DEF OverSSH
<1>9. CASE Kick
  <2>1. op # Idle /\ op[1] = "kick" /\ goal = None
    BY <1>9 DEF Kick, OpOK, GoalOK, Off, On
  <2>2. CASE Raises
    BY <1>0, <1>9, <2>2, RaisesExcepts DEF Kick
  <2>3. CASE ~Raises
    BY <1>9, <2>1, <2>3 DEF Kick, Enters, Ends
  <2>4. QED BY <2>2, <2>3
<1>10. CASE MigrationFails \/ Recover
  <2>1. step # None
    BY <1>10 DEF MigrationFails, Recover, Migrates, OpOK, Migrating
  <2>2. QED BY <1>0, <1>10, <2>1, RaisesExcepts DEF MigrationFails, Recover
<1>11. CASE Start
  BY <1>0, <1>11, RaisesExcepts DEF Start, Enters, OpOK, GoalOK, Off, On, Ends, Stays
<1>12. CASE Check
  BY <1>0, <1>12, RaisesExcepts DEF Check, Stays
<1>13. CASE CheckState
  BY <1>13 DEF CheckState, Names, Over, Enters, OpOK, Renames, Stays
<1>14. CASE Detect \/ RunPOWERINGOFF \/ Booted
  BY <1>14 DEF Detect, RunPOWERINGOFF, Booted, In, Moves
<1>15. CASE RunUNKNOWN \/ RunOS \/ RunOFF
  BY <1>15 DEF RunUNKNOWN, RunOS, RunOFF, In, Moves, Enters
<1>16. CASE Stopped \/ BootFails
  BY <1>0, <1>16, RaisesExcepts DEF Stopped, BootFails, In
<1>17. CASE BootOverdue
  BY <1>0, <1>17, RaisesExcepts DEF BootOverdue, In, Moves
<1>18. CASE Environment \/ UNCHANGED vars
  BY <1>18 DEF Environment, BeginsOff, BeginsOn, BeginsRestart, Progresses, Crashes,
               SystemGoesOff, SystemComesUp, MigrationEnds, optest, vars, Stays
<1>19. QED
  BY <1>1, <1>2, <1>3, <1>4, <1>5, <1>6, <1>7, <1>8, <1>9, <1>10, <1>11, <1>12, <1>13,
     <1>14, <1>15, <1>16, <1>17, <1>18 DEF Next, OpTest

LEMMA GoalStep ==
    ASSUME TypeOK, OpOK, GoalOK, [Next]_vars PROVE GoalOK'
<1> USE DEF GoalOK, None
<1>0. Off("local") # Idle /\ On("local") # Idle /\ Off("local") # On("local")
  BY DEF Off, On, Idle
<1>1. CASE BeginTest
  BY <1>1 DEF BeginTest, machine, call
<1>2. CASE Call
  <2>1. goal = None /\ op = Idle /\ UNCHANGED <<state, stop>>
    BY <1>2 DEF Call, Ready
  <2>2. goal' = None \/ UNCHANGED op
    BY <1>2, <2>1 DEF Call, call
  <2>3. QED BY <1>0, <2>1, <2>2
<1>3. CASE Prepare
  BY <1>3 DEF Prepare, Enters, machine, Off, On, Idle
<1>4. CASE Stays
  BY <1>4 DEF Stays
<1>5. CASE Ends
  BY <1>5 DEF Ends
<1>6. CASE Moves
  <2>1. CASE op = Idle /\ ~stop /\ op' = Off("local")
    BY <1>0, <1>6, <2>1 DEF Moves
  <2>2. CASE op = Idle /\ ~stop /\ op' = On("local")
    BY <1>0, <1>6, <2>2 DEF Moves
  <2>3. CASE op' = Idle /\ ~stop /\ UNCHANGED stop
             /\ \E s \in {"UNKNOWN_BAD", "OFF", "OS", "POWERING_OFF", "BOOTING"} : To(s)
    <3>1. state' \in {"POWERING_OFF", "BOOTING"} => goal' # None
      BY <1>6, <2>3, TypeParts DEF Moves, To, MachineType
    <3>2. QED BY <1>0, <2>3, <3>1
  <2>4. QED BY <1>0, <1>6, <2>1, <2>2, <2>3 DEF Moves
<1>7. CASE Renames
  BY <1>7 DEF Renames, Off, On, Idle
<1>8. CASE Excepts
  BY <1>8 DEF Excepts
<1>9. QED
  BY <1>1, <1>2, <1>3, <1>4, <1>5, <1>6, <1>7, <1>8, Effects

LEMMA PlanTypeStep ==
    ASSUME TypeOK, OpOK, GoalOK, [Next]_vars PROVE PlanType'
<1>0. PlanType BY TypeParts
<1>1. CASE BeginTest
  BY <1>0, <1>1, ProgramTypes, TestsAssumption DEF BeginTest, PlanType
<1>2. CASE Call
  BY <1>0, <1>2, TailType DEF Call, PlanType
<1>3. CASE Prepare
  <2>1. <<Off("try"), On("try")>> \in Seq(Calls) /\ <<On("try")>> \in Seq(Calls)
    BY MadeCalls
  <2>2. todo' \in Seq(Calls)
    BY <1>0, <1>3, <2>1, ConcatProperties DEF Prepare, PlanType
  <2>3. QED BY <1>0, <1>3, <2>2 DEF Prepare, PlanType
<1>4. CASE Stays \/ Ends \/ Moves
  BY <1>0, <1>4 DEF Stays, Ends, Moves, PlanType
<1>5. CASE Renames
  BY <1>0, <1>5 DEF Renames, PlanType, Dest, Systems
<1>6. CASE Excepts
  <2>1. todo' \in Seq(Calls)
    BY <1>0, <1>6, TailType, EmptySeq DEF Excepts
  <2>2. QED BY <1>0, <1>6, <2>1 DEF Excepts, PlanType
<1>7. QED
  BY <1>1, <1>2, <1>3, <1>4, <1>5, <1>6, Effects

\* An operation that is over, and one that has begun.
LEMMA Boundaries ==
    /\ Raises \/ Breaks \/ Returns => op' = Idle /\ step' = None /\ saw' = None /\ looks' = 0
    /\ \A o, s : Enters(o, s) => op' = o /\ step' = s /\ saw' = None /\ looks' = 0
  BY DEF Raises, Breaks, Returns, Enters

LEMMA IdleOK ==
    ASSUME op' = Idle, step' = None, saw' = None, looks' = 0 PROVE OpOK' /\ CallType'
  BY LimitsAssumption DEF OpOK, CallType, Idle, None, Looking, Migrating, Most

LEMMA BegunOK ==
    ASSUME op' \in Calls, op'[1] # "goto", step' = FirstStep(op'[1]), saw' = None, looks' = 0
    PROVE  OpOK' /\ CallType'
<1>1. op' # Idle /\ op'[1] \in CallNames /\ op' \in Calls
  BY CallParts DEF Idle, None, CallNames
<1>2. step' \in {"first", "where", "ssh", "kick"}
  BY DEF FirstStep
<1>3. CallType'
  BY <1>1, <1>2, LimitsAssumption DEF CallType, Looking, Migrating, None, Most
<1>4. OpOK'
  BY <1>1 DEF OpOK, Looking, Migrating, None, FirstStep, CallNames
<1>5. QED BY <1>3, <1>4

LEMMA MostIs ==
    /\ Most \in Nat /\ WaitLimit \in Nat /\ ErrorLimit \in Nat
    /\ 1 <= ErrorLimit /\ ErrorLimit < Most /\ WaitLimit < Most
  BY LimitsAssumption DEF Most

LEMMA CallStep ==
    ASSUME TypeOK, OpOK, [Next]_vars PROVE OpOK' /\ CallType'
<1> USE DEF runner, machine, call, partition, history, None
<1>0. CallType /\ PlanType BY TypeParts
<1>1. CASE BeginTest \/ Environment \/ UNCHANGED vars
  <2>1. UNCHANGED call
    BY <1>1 DEF BeginTest, Environment, BeginsOff, BeginsOn, BeginsRestart, Progresses, Crashes,
               SystemGoesOff, SystemComesUp, MigrationEnds, optest, vars
  <2>2. QED BY <1>0, <2>1 DEF OpOK, CallType
<1>2. CASE Call
  <2>1. CASE Head(todo)[1] = "goto"
    BY <1>0, <1>2, <2>1 DEF Call, OpOK, CallType
  <2>2. CASE Head(todo)[1] # "goto"
    BY <1>0, <1>2, <2>2, TailType, BegunOK, Boundaries DEF Call
  <2>3. QED BY <2>1, <2>2
<1>3. CASE LookAtState
  <2>1. saw' \in Seen \cup {None, "up"}
    BY <1>3, TypeParts DEF LookAtState, WorldType, Seen, Parts
  <2>2. QED BY <1>0, <1>3, <2>1 DEF LookAtState, OpOK, CallType, Looking
<1>4. CASE LookAtRefcode
  BY <1>0, <1>4 DEF LookAtRefcode, OpOK, CallType, Looking, Seen, Parts
<1>5. CASE LookAtSystem
  <2>1. saw' \in Seen
    BY <1>0, <1>5, TypeParts DEF LookAtSystem, WorldType, Seen, PlanType
  <2>2. QED BY <1>0, <1>5, <2>1 DEF LookAtSystem, OpOK, CallType, Looking
<1>6. CASE LookFails
  <2>1. CASE step = "clear"
    BY <1>0, <1>6, <2>1 DEF LookFails, OpOK, CallType, Looking, Migrating
  <2>2. CASE step # "clear"
    BY <1>6, <2>2, Boundaries, IdleOK DEF LookFails
  <2>3. QED BY <2>1, <2>2
<1>7. CASE Returns \/ Raises \/ Breaks
  BY <1>7, Boundaries, IdleOK
<1>8. CASE Decide
  <2>1. CASE ~Returns
    BY <1>0, <1>8, <2>1 DEF Decide, Looked, OpOK, CallType, Looking, Migrating
  <2>2. QED BY <1>7, <2>1
<1>9. CASE Shutdown
  <2>0. step # None /\ op # Idle /\ op[1] \in {"poweroff", "poweron", "restart"}
    BY <1>9 DEF Shutdown, OpOK
  <2>1. CASE LooksOn("clear") /\ looks' = 1 /\ op[1] = "poweron"
    BY <1>0, <2>0, <2>1, MostIs DEF LooksOn, OpOK, CallType, Looking, Migrating
  <2>2. CASE LooksOn("wait") /\ looks' = 0 /\ op[1] # "poweron"
    BY <1>0, <2>0, <2>2, MostIs DEF LooksOn, OpOK, CallType, Looking, Migrating
  <2>3. CASE LooksOn("again") /\ UNCHANGED looks /\ op[1] = "poweron"
    BY <1>0, <2>0, <2>3 DEF LooksOn, OpOK, CallType, Looking, Migrating
  <2>4. QED BY <1>7, <1>9, <2>1, <2>2, <2>3 DEF Shutdown
<1>10. CASE ErrorClears
  <2>0. op # Idle /\ op[1] = "poweron" /\ looks \in 1 .. ErrorLimit
    BY <1>10 DEF ErrorClears, Looked, OpOK
  <2>1. CASE LooksOn("again") /\ looks' = 0
    BY <1>0, <2>0, <2>1, MostIs DEF LooksOn, OpOK, CallType, Looking, Migrating
  <2>2. CASE LooksOn("clear") /\ looks' = looks + 1 /\ looks # ErrorLimit
    BY <1>0, <2>0, <2>2, MostIs DEF LooksOn, OpOK, CallType, Looking, Migrating
  <2>3. QED BY <1>10, <2>1, <2>2 DEF ErrorClears, Counted
<1>11. CASE GoesOn
  BY <1>0, <1>11 DEF GoesOn, Looked, LooksOn, OpOK, CallType, Looking, Migrating
<1>12. CASE PowerOn
  <2>1. CASE Enters(op, "wait")
    BY <1>0, <1>12, <2>1, MostIs DEF PowerOn, Enters, OpOK, CallType, Looking, Migrating
  <2>2. QED BY <1>7, <1>12, <2>1 DEF PowerOn
<1>13. CASE Waited
  <2>1. CASE LooksOn("wait") /\ looks' = looks + 1 /\ ~(looks > WaitLimit)
    BY <1>0, <1>13, <2>1, MostIs DEF Waited, Looked, LooksOn, OpOK, CallType, Looking, Migrating
  <2>2. QED BY <1>7, <1>13, <2>1 DEF Waited, Counted, Overdue
<1>14. CASE PowerSystem
  <2>1. CASE LooksOn("wait") /\ UNCHANGED looks
    BY <1>0, <1>14, <2>1 DEF PowerSystem, OfSystem, Looked, LooksOn, OpOK, CallType, Looking, Migrating
  <2>2. QED BY <1>7, <1>14, <2>1 DEF PowerSystem
<1>15. CASE Prepare \/ Kick
  BY <1>7, <1>15, Boundaries, IdleOK DEF Prepare, Kick
<1>16. CASE OverSSH \/ MigrationFails \/ Recover \/ Stopped \/ BootFails
  BY <1>7, <1>16 DEF OverSSH, MigrationFails, Recover, Stopped, BootFails
<1>17. CASE FindsIt \/ Validate \/ StopMigration
  BY <1>0, <1>17 DEF FindsIt, Validate, StopMigration, OpOK, CallType, Looking, Migrating
<1>18. CASE Start
  <2>1. CASE step' = "check" /\ UNCHANGED <<op, looks, saw>> /\ op[1] = "migrate"
    BY <1>0, <1>18, <2>1 DEF Start, OpOK, CallType, Looking, Migrating
  <2>2. QED BY <1>7, <1>18, <2>1, Boundaries, IdleOK DEF Start
<1>19. CASE Check
  <2>1. CASE step' = "answer" /\ UNCHANGED <<op, looks, saw>>
    BY <1>0, <1>19, <2>1 DEF Check, OpOK, CallType, Looking, Migrating
  <2>2. QED BY <1>7, <1>19, <2>1 DEF Check
<1>20. CASE CheckState
  <2>1. CASE step' = "stop" /\ UNCHANGED <<op, looks, saw>>
    BY <1>0, <1>20, <2>1 DEF CheckState, OpOK, CallType, Looking, Migrating
  <2>2. QED BY <1>20, <2>1, Boundaries, IdleOK DEF CheckState
<1>21. CASE Detect \/ RunPOWERINGOFF \/ Booted \/ BootOverdue
  <2>1. CASE UNCHANGED call
    BY <1>0, <2>1 DEF OpOK, CallType
  <2>2. QED BY <1>7, <1>21, <2>1 DEF Detect, RunPOWERINGOFF, Booted, BootOverdue
<1>22. CASE RunUNKNOWN \/ RunOS \/ RunOFF
  <2>1. CASE UNCHANGED call
    BY <1>0, <2>1 DEF OpOK, CallType
  <2>2. CASE Enters(Off("local"), "first") \/ Enters(On("local"), "first")
    BY <2>2, Boundaries, BegunOK, MadeCalls DEF Off, On, FirstStep
  <2>3. QED BY <1>22, <2>1, <2>2 DEF RunUNKNOWN, RunOS, RunOFF
<1>23. QED
  BY <1>1, <1>2, <1>3, <1>4, <1>5, <1>6, <1>8, <1>9, <1>10, <1>11, <1>12, <1>13, <1>14,
     <1>15, <1>16, <1>17, <1>18, <1>19, <1>20, <1>21, <1>22 DEF Next, OpTest

LEMMA WorldStep ==
    ASSUME TypeOK, OpOK, [Next]_vars PROVE WorldType'
<1>0. WorldType /\ PlanType BY TypeParts
<1> USE DEF partition, WorldType, None
<1>1. CASE BeginTest \/ Call \/ LookAtState \/ LookAtRefcode \/ LookAtSystem \/ LookFails \/ Decide
  BY <1>0, <1>1 DEF BeginTest, Call, LookAtState, LookAtRefcode, LookAtSystem, LookFails, Decide
<1>2. CASE ErrorClears \/ GoesOn \/ Waited \/ Prepare \/ OverSSH \/ MigrationFails \/ FindsIt
           \/ Validate \/ Check \/ CheckState
  BY <1>0, <1>2 DEF ErrorClears, GoesOn, Waited, Prepare, OverSSH, MigrationFails, FindsIt,
                    Validate, Check, CheckState
<1>3. CASE Detect \/ Stopped \/ RunUNKNOWN \/ RunOS \/ RunPOWERINGOFF \/ RunOFF
           \/ Booted \/ BootOverdue \/ BootFails \/ UNCHANGED vars
  BY <1>0, <1>3 DEF Detect, Stopped, RunUNKNOWN, RunOS, RunPOWERINGOFF, RunOFF, Booted,
                    BootOverdue, BootFails, vars
<1>4. CASE Shutdown
  BY <1>0, <1>4 DEF Shutdown, Command
<1>5. CASE PowerOn \/ Kick
  BY <1>0, <1>5 DEF PowerOn, Kick
<1>6. CASE PowerSystem
  BY <1>0, <1>6 DEF PowerSystem, Begun, Powers, PlanType
<1>7. CASE Start
  BY <1>0, <1>7 DEF Start, From, Dest, Systems, PlanType
<1>8. CASE StopMigration \/ Recover
  BY <1>0, <1>8 DEF StopMigration, Recover
<1>9. CASE BeginsOff \/ BeginsOn \/ BeginsRestart \/ Crashes \/ MigrationEnds
  BY <1>0, <1>9 DEF BeginsOff, BeginsOn, BeginsRestart, Crashes, MigrationEnds, Parts
<1>10. CASE Progresses
  BY <1>0, <1>10 DEF Progresses, Boots, Parts
<1>11. CASE SystemGoesOff
  BY <1>0, <1>11 DEF SystemGoesOff, Powers, Parts
<1>12. CASE SystemComesUp
  BY <1>0, <1>12 DEF SystemComesUp, Powers
<1>13. QED
  BY <1>1, <1>2, <1>3, <1>4, <1>5, <1>6, <1>7, <1>8, <1>9, <1>10, <1>11, <1>12
  DEF Next, OpTest, Environment

LEMMA ExceptsTypes ==
    ASSUME HistoryType, MachineType
    PROVE  /\ Raises \/ Breaks => HistoryType' /\ goal' \in {None, "OFF", "OS"}
           /\ Returns => goal' \in {None, "OFF", "OS"}
                         /\ state' \in {state, "POWERING_OFF", "BOOTING"}
                         /\ UNCHANGED <<stop, watermark>>
<1>1. Raises => HistoryType' BY Zenon DEF Raises, HistoryType
<1>2. Breaks => HistoryType' BY Zenon DEF Breaks, HistoryType
<1>3. Raises \/ Breaks => goal' = None BY DEF Raises, Breaks
<1>4. Returns => goal' \in {None, "OFF", "OS"}
                 /\ state' \in {state, "POWERING_OFF", "BOOTING"}
                 /\ UNCHANGED <<stop, watermark>>
  BY DEF Returns, To, MachineType
<1>5. QED BY <1>1, <1>2, <1>3, <1>4

LEMMA MachineStep ==
    ASSUME TypeOK, OpOK, [Next]_vars PROVE MachineType'
<1>0. MachineType /\ HistoryType /\ PlanType BY TypeParts
<1> USE <1>0, ExceptsTypes DEF machine, MachineType
<1>1. CASE BeginTest \/ LookAtState \/ LookAtRefcode \/ LookAtSystem \/ LookFails \/ Decide
  BY <1>1 DEF BeginTest, LookAtState, LookAtRefcode, LookAtSystem, LookFails, Decide
<1>2. CASE Call
  BY <1>2, TailType, CallParts DEF Call
<1>3. CASE Shutdown \/ ErrorClears \/ GoesOn \/ PowerOn \/ Waited
  BY <1>3 DEF Shutdown, ErrorClears, GoesOn, PowerOn, Waited
<1>4. CASE PowerSystem \/ Prepare \/ OverSSH \/ Kick \/ MigrationFails \/ FindsIt
           \/ Validate \/ Start \/ Check \/ CheckState \/ StopMigration \/ Recover
  BY <1>4 DEF PowerSystem, Prepare, OverSSH, Kick, MigrationFails, FindsIt, Validate, Start,
              Check, CheckState, StopMigration, Recover
<1>5. CASE Detect \/ RunPOWERINGOFF \/ Booted \/ RunUNKNOWN \/ RunOS \/ RunOFF
  BY <1>5 DEF Detect, RunPOWERINGOFF, Booted, RunUNKNOWN, RunOS, RunOFF, To
<1>6. CASE Stopped \/ BootFails
  BY <1>6 DEF Stopped, BootFails
<1>7. CASE BootOverdue
  <2>1. watermark' \in booting_watermark .. kill_cord
    BY <1>7, LimitsAssumption DEF BootOverdue
  <2>2. QED BY <1>7, <2>1 DEF BootOverdue, To
<1>8. CASE Environment \/ UNCHANGED vars
  BY <1>8 DEF Environment, BeginsOff, BeginsOn, BeginsRestart, Progresses, Crashes,
              SystemGoesOff, SystemComesUp, MigrationEnds, optest, vars
<1>9. QED
  BY <1>1, <1>2, <1>3, <1>4, <1>5, <1>6, <1>7, <1>8 DEF Next, OpTest

\* What leaves the flags of the past as they are.
LEMMA HistoryKept ==
    ASSUME [Next]_vars,
           ~(Raises \/ Breaks \/ Shutdown \/ Waited \/ Kick \/ Start \/ CheckState \/ Crashes)
    PROVE  UNCHANGED history
  BY DEF Next, OpTest, Environment, BeginTest, Call, LookAtState, LookAtRefcode, LookAtSystem,
     LookFails, Decide, ErrorClears, GoesOn, PowerOn, PowerSystem, Prepare, OverSSH,
     MigrationFails, FindsIt, Validate, Check, StopMigration, Recover, Detect, Stopped,
     RunUNKNOWN, RunOS, RunPOWERINGOFF, RunOFF, Booted, BootOverdue, BootFails, BeginsOff,
     BeginsOn, BeginsRestart, Progresses, SystemGoesOff, SystemComesUp, MigrationEnds, vars

LEMMA HistoryStep ==
    ASSUME TypeOK, [Next]_vars PROVE HistoryType'
<1>0. MachineType /\ HistoryType BY TypeParts
<1> USE DEF history
<1>1. CASE UNCHANGED history
  BY <1>0, <1>1, Zenon DEF HistoryType
<1>2. CASE Raises \/ Breaks
  BY <1>0, <1>2, ExceptsTypes
<1>3. CASE Shutdown /\ ~Raises /\ ~Breaks
  BY <1>0, <1>1, <1>3, Zenon DEF Shutdown, HistoryType
<1>4. CASE Waited /\ ~Raises
  BY <1>0, <1>1, <1>4, Zenon DEF Waited, HistoryType
<1>5. CASE (Kick \/ Start \/ CheckState) /\ ~Raises
  BY <1>0, <1>1, <1>5, Zenon DEF Kick, Start, CheckState, HistoryType
<1>6. CASE Crashes
  BY <1>0, <1>6, Zenon DEF Crashes, HistoryType
<1>7. CASE ~(Raises \/ Breaks \/ Shutdown \/ Waited \/ Kick \/ Start \/ CheckState \/ Crashes)
  BY <1>1, <1>7, HistoryKept
<1>8. QED BY <1>2, <1>3, <1>4, <1>5, <1>6, <1>7

LEMMA Starts ==
    /\ Last \in 0 .. Last /\ booting_watermark \in booting_watermark .. kill_cord
    /\ op = Idle /\ step = None /\ looks = 0 /\ saw = None => OpOK /\ CallType
<1>1. Last \in 0 .. Last /\ booting_watermark \in booting_watermark .. kill_cord
  BY LimitsAssumption, TestsAssumption
<1>2. op = Idle /\ step = None /\ looks = 0 /\ saw = None => OpOK /\ CallType
  BY MostIs DEF OpOK, CallType, Idle, None, Looking, Migrating
<1>3. QED BY <1>1, <1>2

LEMMA TypeInit == Init => TypeOK /\ OpOK /\ GoalOK
<1> SUFFICES ASSUME Init PROVE TypeOK /\ OpOK /\ GoalOK
  OBVIOUS
<1> USE DEF Init
<1>1. PlanType
  BY Starts, EmptySeq DEF PlanType, Systems
<1>2. OpOK /\ CallType
  <2>1. op = Idle /\ step = None /\ looks = 0 /\ saw = None
    OBVIOUS
  <2>2. QED BY <2>1, Starts
<1>3. MachineType
  BY Starts DEF MachineType
<1>4. WorldType BY DEF WorldType, Parts, Powers, Systems
<1>5. HistoryType BY Zenon DEF HistoryType
<1>6. GoalOK BY DEF GoalOK
<1>7. QED BY <1>1, <1>2, <1>3, <1>4, <1>5, <1>6, TypeParts

Shape == TypeOK /\ OpOK /\ GoalOK

LEMMA ShapeStep == ASSUME Shape, [Next]_vars PROVE Shape'
  BY GoalStep, PlanTypeStep, CallStep, WorldStep, MachineStep, HistoryStep, TypeParts DEF Shape

LEMMA Shaped == Spec => []Shape
<1>1. Init => Shape BY TypeInit DEF Shape
<1>2. Shape /\ [Next]_vars => Shape' BY ShapeStep
<1>3. QED BY <1>1, <1>2, PTL DEF Spec

\* For any tests and limits, op-test makes only the calls that HMCUtil and
\* goto_state() have, looks no more often than its waits allow, and its watermark
\* never passes the kill cord.
THEOREM TypeCorrect == Spec => []TypeOK
<1>1. Shape => TypeOK BY DEF Shape
<1>2. QED BY <1>1, Shaped, PTL

-----------------------------------------------------------------------------
(* What is left of a test                                                  *)

Offs == {Off("local"), Off("remote"), Off("try")}
Ons == {On("local"), On("remote"), On("try")}
Crosses == {Cross("local"), Cross("remote")}
Migrations == {Migrate("local"), Migrate("remote")} \cup Crosses
Gotos == {Goto("OFF"), Goto("OS")}

\* What an operation is called, and which call it was.
LEMMA Named ==
    \A c \in Calls :
        /\ c[1] = "goto" <=> c \in Gotos
        /\ c[1] = "poweroff" <=> c \in Offs
        /\ c[1] = "poweron" <=> c \in Ons
        /\ c[1] \in {"migrate", "crossmigrate"} <=> c \in Migrations
        /\ c[1] = "crossmigrate" <=> c \in Crosses
        /\ \A n \in {"restart", "prepare", "ssh", "sysoff", "syson", "kick"} :
                c[1] = n <=> c = Do(n)
        /\ c[2] = "try" <=> c \in {Off("try"), On("try")}
  BY DEF Calls, Gotos, Offs, Ons, Migrations, Crosses, Goto, Off, On, Migrate, Cross, Do

\* Some call of a test, or one that comes after another.
Has(t, A) == \E i \in DOMAIN t : t[i] \in A
Followed(t, A, B) ==
    \A i \in DOMAIN t : t[i] \in A => \E j \in DOMAIN t : i < j /\ t[j] \in B

LEMMA Heads ==
    ASSUME NEW t \in Seq(Calls), t # <<>>
    PROVE  /\ Head(t) \in Calls /\ Tail(t) \in Seq(Calls)
           /\ Head(t) = t[1] /\ DOMAIN t = 1 .. Len(t) /\ Len(t) \in Nat /\ Len(t) >= 1
           /\ DOMAIN Tail(t) = 1 .. Len(t) - 1
           /\ \A i \in 1 .. Len(t) - 1 : Tail(t)[i] = t[i + 1]
  BY HeadTailProperties

LEMMA HasHead ==
    ASSUME NEW t \in Seq(Calls), t # <<>>, NEW A
    PROVE  Has(t, A) <=> Head(t) \in A \/ Has(Tail(t), A)
<1> USE Heads DEF Has
<1>1. ASSUME Has(t, A), Head(t) \notin A PROVE Has(Tail(t), A)
  <2>1. PICK i \in DOMAIN t : t[i] \in A
    BY <1>1
  <2>2. i - 1 \in DOMAIN Tail(t) /\ Tail(t)[i - 1] = t[i]
    BY <1>1, <2>1
  <2>3. QED BY <2>1, <2>2
<1>2. ASSUME Head(t) \in A PROVE Has(t, A)
  <2>1. 1 \in DOMAIN t OBVIOUS
  <2>2. QED BY <1>2, <2>1
<1>3. ASSUME Has(Tail(t), A) PROVE Has(t, A)
  <2>1. PICK i \in DOMAIN Tail(t) : Tail(t)[i] \in A
    BY <1>3
  <2>2. i + 1 \in DOMAIN t /\ Tail(t)[i] = t[i + 1]
    BY <2>1
  <2>3. QED BY <2>1, <2>2
<1>4. QED BY <1>1, <1>2, <1>3

LEMMA FollowedHead ==
    ASSUME NEW t \in Seq(Calls), t # <<>>, NEW A, NEW B
    PROVE  Followed(t, A, B) <=>
                (Head(t) \in A => Has(Tail(t), B)) /\ Followed(Tail(t), A, B)
<1> USE Heads DEF Has, Followed
<1>1. ASSUME Followed(t, A, B), Head(t) \in A PROVE Has(Tail(t), B)
  <2>1. PICK j \in DOMAIN t : 1 < j /\ t[j] \in B
    BY <1>1
  <2>2. j - 1 \in DOMAIN Tail(t) /\ Tail(t)[j - 1] = t[j]
    BY <2>1
  <2>3. QED BY <2>1, <2>2
<1>2. ASSUME Followed(t, A, B) PROVE Followed(Tail(t), A, B)
  <2> SUFFICES ASSUME NEW i \in DOMAIN Tail(t), Tail(t)[i] \in A
               PROVE  \E j \in DOMAIN Tail(t) : i < j /\ Tail(t)[j] \in B
    OBVIOUS
  <2>1. PICK j \in DOMAIN t : i + 1 < j /\ t[j] \in B
    BY <1>2
  <2>2. j - 1 \in DOMAIN Tail(t) /\ Tail(t)[j - 1] = t[j] /\ i < j - 1
    BY <2>1
  <2>3. QED BY <2>1, <2>2
<1>3. ASSUME Head(t) \in A => Has(Tail(t), B), Followed(Tail(t), A, B)
      PROVE  Followed(t, A, B)
  <2> SUFFICES ASSUME NEW i \in DOMAIN t, t[i] \in A
               PROVE  \E j \in DOMAIN t : i < j /\ t[j] \in B
    OBVIOUS
  <2>1. CASE i = 1
    <3>1. PICK j \in DOMAIN Tail(t) : Tail(t)[j] \in B
      BY <1>3, <2>1
    <3>2. j + 1 \in DOMAIN t /\ 1 < j + 1 /\ t[j + 1] \in B
      BY <3>1
    <3>3. QED BY <2>1, <3>2
  <2>2. CASE i # 1
    <3>1. i - 1 \in DOMAIN Tail(t) /\ Tail(t)[i - 1] \in A
      BY <2>2
    <3>2. PICK j \in DOMAIN Tail(t) : i - 1 < j /\ Tail(t)[j] \in B
      BY <1>3, <3>1
    <3>3. j + 1 \in DOMAIN t /\ i < j + 1 /\ t[j + 1] \in B
      BY <3>2
    <3>4. QED BY <3>3
  <2>3. QED BY <2>1, <2>2
<1>4. QED BY <1>1, <1>2, <1>3

LEMMA Cons ==
    ASSUME NEW c \in Calls, NEW t \in Seq(Calls)
    PROVE  /\ <<c>> \o t \in Seq(Calls) /\ <<c>> \o t # <<>>
           /\ Head(<<c>> \o t) = c /\ Tail(<<c>> \o t) = t
  OBVIOUS

LEMMA Cons2 ==
    ASSUME NEW c \in Calls, NEW d \in Calls, NEW t \in Seq(Calls)
    PROVE  <<c, d>> \o t = <<c>> \o (<<d>> \o t)
<1>1. <<c>> \in Seq(Calls) /\ <<d>> \in Seq(Calls) /\ <<c, d>> \in Seq(Calls)
  OBVIOUS
<1>2. /\ <<c>> \o <<d>> \in Seq(Calls) /\ Len(<<c>> \o <<d>>) = 2
      /\ (<<c>> \o <<d>>)[1] = c /\ (<<c>> \o <<d>>)[2] = d
  BY <1>1, ConcatProperties
<1> DEFINE u == <<c>> \o <<d>>
           v == <<c, d>>
<1>3. v = u
  <2>1. u \in Seq(Calls) /\ v \in Seq(Calls) /\ Len(u) = 2 /\ Len(v) = 2
        /\ u[1] = c /\ u[2] = d /\ v[1] = c /\ v[2] = d
    BY <1>1, <1>2
  <2> HIDE DEF u, v
  <2>2. \A i \in 1 .. Len(v) : v[i] = u[i]
    BY <2>1
  <2>3. QED BY <2>1, <2>2, SeqEqual
<1>4. QED BY <1>1, <1>3, ConcatAssociative

LEMMA HasCons ==
    ASSUME NEW c \in Calls, NEW t \in Seq(Calls), NEW A, NEW B
    PROVE  /\ Has(<<c>> \o t, A) <=> c \in A \/ Has(t, A)
           /\ Followed(<<c>> \o t, A, B) <=> (c \in A => Has(t, B)) /\ Followed(t, A, B)
<1> DEFINE u == <<c>> \o t
<1>1. u \in Seq(Calls) /\ u # <<>> /\ Head(u) = c /\ Tail(u) = t
  BY Cons
<1> HIDE DEF u
<1>2. Has(u, A) <=> c \in A \/ Has(t, A)
  BY <1>1, HasHead
<1>3. Followed(u, A, B) <=> (c \in A => Has(t, B)) /\ Followed(t, A, B)
  BY <1>1, FollowedHead
<1>4. QED BY <1>2, <1>3 DEF u

LEMMA HasCons2 ==
    ASSUME NEW c \in Calls, NEW d \in Calls, NEW t \in Seq(Calls), NEW A, NEW B
    PROVE  /\ <<c, d>> \o t \in Seq(Calls) /\ <<c, d>> \o t # <<>>
           /\ Head(<<c, d>> \o t) = c /\ Tail(<<c, d>> \o t) = <<d>> \o t
           /\ Has(<<c, d>> \o t, A) <=> c \in A \/ d \in A \/ Has(t, A)
           /\ Followed(<<c, d>> \o t, A, B) <=>
                (c \in A => d \in B \/ Has(t, B)) /\ Followed(<<d>> \o t, A, B)
<1> DEFINE u == <<d>> \o t
           w == <<c>> \o u
<1>1. u \in Seq(Calls) BY Cons
<1>2. <<c, d>> \o t = w BY Cons2
<1>3. Has(u, A) <=> d \in A \/ Has(t, A) BY HasCons
<1>4. Has(u, B) <=> d \in B \/ Has(t, B) BY HasCons
<1> HIDE DEF u
<1>5. /\ Has(w, A) <=> c \in A \/ Has(u, A)
      /\ Followed(w, A, B) <=> (c \in A => Has(u, B)) /\ Followed(u, A, B)
  BY <1>1, HasCons
<1>6. w \in Seq(Calls) /\ w # <<>> /\ Head(w) = c /\ Tail(w) = u
  BY <1>1, Cons
<1> HIDE DEF w
<1>7. QED BY <1>2, <1>3, <1>4, <1>5, <1>6 DEF u

\* A test that migrates begins by going to OS, if at all, and goes nowhere else.
InOrder(t) ==
    Has(t, Migrations) =>
        /\ Head(t) # Goto("OFF") /\ ~Has(Tail(t), Gotos)
        /\ ~Has(t, {Do("prepare")})

LEMMA ProgramsInOrder ==
    \A k \in Kinds : /\ Program[k] # <<>> /\ InOrder(Program[k])
                     /\ Has(Program[k], Migrations) => Head(Program[k]) = Goto("OS")
<1> DEFINE Fine(t) == /\ t # <<>> /\ InOrder(t)
                      /\ Has(t, Migrations) => Head(t) = Goto("OS")
<1> USE DEF InOrder, Has, Migrations, Crosses, Gotos, Goto, Off, On, Migrate, Cross, Do
<1>1. Fine(PowerCycle) /\ Fine(RestoreConfig) /\ Fine(OnlyKdumpEnable)
  BY DEF PowerCycle, RestoreConfig, OnlyKdumpEnable
<1>2. Fine(SecureBoot)
  BY DEF SecureBoot
<1>3. Fine(Hugepage16G) /\ Fine(CecConfig)
  BY DEF Hugepage16G, CecConfig
<1>4. Fine(ActiveMigration) /\ Fine(CrossMigration)
  BY DEF ActiveMigration, CrossMigration
<1>5. Fine(InactiveMigration)
  BY DEF InactiveMigration
<1>6. Fine(ColdMigration)
  BY DEF ColdMigration
<1> HIDE DEF Fine
<1>7. \A k \in Kinds : Fine(Program[k])
  BY <1>1, <1>2, <1>3, <1>4, <1>5, <1>6, TestsAssumption DEF Program
<1>8. QED BY <1>7 DEF Fine

-----------------------------------------------------------------------------
(* The state machine and the partition                                     *)

\* Tests migrate in the state OS only, with nowhere else to go.
OrderOK ==
    /\ todo # <<>> => InOrder(todo)
    /\ op \in Migrations => state = "OS" /\ ~Has(todo, Gotos)
    /\ op = Do("prepare") => ~Has(todo, Migrations)
    /\ Has(todo, Migrations) =>
            \/ state = "OS" /\ goal = None
            \/ goal = "OS" /\ ~Has(todo, Gotos)
            \/ goal = None /\ Head(todo) = Goto("OS")

\* What op-test knows of the operation it is in.
LEMMA OpNamed ==
    ASSUME Shape, op # Idle
    PROVE  /\ op \in Calls /\ op \notin Gotos
           /\ op[1] = "poweroff" <=> op \in Offs
           /\ op[1] = "poweron" <=> op \in Ons
           /\ op[1] \in {"migrate", "crossmigrate"} <=> op \in Migrations
           /\ op[1] = "crossmigrate" <=> op \in Crosses
           /\ op[1] = "prepare" <=> op = Do("prepare")
           /\ op[1] = "kick" <=> op = Do("kick")
           /\ op[1] = "sysoff" <=> op = Do("sysoff")
           /\ op[1] = "syson" <=> op = Do("syson")
           /\ Caught => goal = None
           /\ Caught <=> op \in {Off("try"), On("try"), Do("prepare")}
<1>1. op \in Calls /\ op[1] # "goto" BY TypeParts DEF Shape, CallType, OpOK
<1>2. Caught <=> op \in {Off("try"), On("try"), Do("prepare")}
  BY <1>1, Named DEF Caught
<1>3. op \in {Off("try"), On("try"), Do("prepare")} => goal = None
  BY DEF Shape, GoalOK, Off, On, Do, Idle, None
<1>4. QED BY <1>1, <1>2, <1>3, Named

LEMMA IdleNamed ==
    ASSUME op = Idle
    PROVE  /\ ~Caught /\ ~Migrates /\ ~OfSystem /\ op[1] = None
           /\ op \notin Calls
           /\ op \notin Offs \cup Ons \cup Migrations \cup Gotos
           /\ \A n \in {"restart", "prepare", "ssh", "sysoff", "syson", "kick"} : op # Do(n)
  BY CallParts DEF Idle, None, Caught, Migrates, OfSystem, Offs, Ons, Migrations, Crosses, Gotos,
                   Off, On, Goto, Migrate, Cross, Do, CallNames

LEMMA OrderTail ==
    ASSUME PlanType, todo # <<>>, InOrder(todo), Tail(todo) # <<>>
    PROVE  InOrder(Tail(todo))
<1>0. todo \in Seq(Calls) BY DEF PlanType
<1>1. \A A : Has(Tail(todo), A) => Has(todo, A) BY <1>0, HasHead
<1>2. ~Has(Tail(todo), Gotos) => Head(Tail(todo)) # Goto("OFF") /\ ~Has(Tail(Tail(todo)), Gotos)
  BY <1>0, HasHead, Heads DEF Gotos
<1>3. QED BY <1>1, <1>2 DEF InOrder

LEMMA EmptyHas == \A A : ~Has(<<>>, A)
  BY DEF Has

LEMMA OrderStep ==
    ASSUME Shape, OrderOK, [Next]_vars PROVE OrderOK'
<1>0. PlanType /\ PlanType' /\ OpOK /\ GoalOK /\ TypeOK
  BY TypeParts, ShapeStep DEF Shape
<1>1. CASE BeginTest
  <2>1. PICK k \in Kinds : todo' = Program[k]
    BY <1>1 DEF BeginTest
  <2>2. op' = Idle /\ goal' = None
    BY <1>1 DEF BeginTest, Ready, call, machine
  <2>3. op' \notin Migrations /\ op' # Do("prepare")
    BY <2>2 DEF Idle, None, Migrations, Crosses, Migrate, Cross, Do
  <2>4. QED BY <2>1, <2>2, <2>3, ProgramsInOrder DEF OrderOK
<1>2. CASE Call
  <2>0. todo # <<>> /\ todo \in Seq(Calls) /\ todo' = Tail(todo) /\ goal = None /\ UNCHANGED state
        /\ op = Idle
    BY <1>0, <1>2 DEF Call, Ready, PlanType
  <2>1. todo' # <<>> => InOrder(todo')
    BY <1>0, <2>0, OrderTail DEF OrderOK
  <2>2. Has(todo, Migrations) => ~Has(todo', Gotos) /\ ~Has(todo, {Do("prepare")})
                                 /\ (Head(todo) \in Gotos => Head(todo) = Goto("OS"))
    BY <2>0 DEF OrderOK, InOrder, Gotos
  <2>3. Has(todo', Migrations) \/ Head(todo) \in Migrations => Has(todo, Migrations)
    BY <2>0, HasHead
  <2>4. Head(todo) \in Calls BY <2>0, Heads
  <2>5. CASE Head(todo)[1] = "goto"
    <3>1. op' = op /\ Head(todo) \in Gotos
      BY <1>2, <2>4, <2>5, Named DEF Call, call
    <3>2. Head(todo) = Goto("OS") => goal' = "OS"
      BY <1>2, <2>5 DEF Call, Goto
    <3>3. QED BY <2>0, <2>1, <2>2, <2>3, <3>1, <3>2, IdleNamed DEF OrderOK
  <2>6. CASE Head(todo)[1] # "goto"
    <3>1. op' = Head(todo) /\ goal' = None /\ Head(todo) \notin Gotos
      BY <1>2, <2>0, <2>4, <2>6, Named, Boundaries DEF Call
    <3>2. Has(todo, Migrations) => state = "OS"
      BY <2>0, <3>1 DEF OrderOK, Gotos, None
    <3>3. op' = Do("prepare") => ~Has(todo', Migrations)
      BY <2>0, <2>2, <2>3, <3>1, HasHead
    <3>4. QED BY <2>0, <2>1, <2>2, <2>3, <3>1, <3>2, <3>3 DEF OrderOK
  <2>7. QED BY <2>5, <2>6
<1>3. CASE Prepare
  <2>1. op[1] = "prepare" /\ op' = Idle /\ UNCHANGED <<goal, state>>
    BY <1>3 DEF Prepare, Enters, machine
  <2>2. op = Do("prepare")
    BY <2>1, OpNamed DEF Idle, None
  <2>3. ~Has(todo, Migrations)
    BY <2>2 DEF OrderOK
  <2>4. On("try") \notin Migrations /\ Off("try") \notin Migrations
    BY DEF On, Off, Migrations, Crosses, Migrate, Cross
  <2>5. ~Has(<<On("try")>> \o todo, Migrations)
    BY <1>0, <2>3, <2>4, MadeCalls, HasCons, ZenonT(30) DEF PlanType
  <2>6. ~Has(<<Off("try"), On("try")>> \o todo, Migrations)
    <3>1. todo \in Seq(Calls) BY <1>0 DEF PlanType
    <3>2. /\ Has(<<Off("try"), On("try")>> \o todo, Migrations)
                <=> Off("try") \in Migrations \/ On("try") \in Migrations \/ Has(todo, Migrations)
      BY <3>1, MadeCalls, HasCons2, ZenonT(30)
    <3>3. QED BY <3>2, <2>3, <2>4
  <2>7. ~Has(todo', Migrations)
    BY <1>3, <2>3, <2>5, <2>6 DEF Prepare
  <2>8. op' \notin Migrations /\ op' # Do("prepare")
    BY <2>1 DEF Idle, None, Migrations, Crosses, Migrate, Cross, Do
  <2>9. QED BY <2>7, <2>8 DEF OrderOK, InOrder
<1>4. CASE Stays
  BY <1>4 DEF Stays, OrderOK
<1>5. CASE op' = Idle /\ UNCHANGED <<todo, goal, state>>
  <2>1. op' \notin Migrations /\ op' # Do("prepare")
    BY <1>5 DEF Idle, None, Migrations, Crosses, Migrate, Cross, Do
  <2>2. QED BY <1>5, <2>1 DEF OrderOK
<1>6. CASE Moves
  <2>1. op' \notin Migrations /\ op' # Do("prepare")
    BY <1>6 DEF Moves, Idle, None, Migrations, Crosses, Migrate, Cross, Do, Off, On
  <2>2. UNCHANGED todo /\ goal # None
    BY <1>6 DEF Moves
  <2>3. Has(todo, Migrations) => goal = "OS" /\ ~Has(todo, Gotos)
    BY <2>2 DEF OrderOK
  <2>4. goal = "OS" => goal' = "OS" \/ (state' = "OS" /\ goal' = None)
    BY <1>6 DEF Moves, To
  <2>5. QED BY <2>1, <2>2, <2>3, <2>4 DEF OrderOK
<1>7. CASE Excepts
  <2>1. op' \notin Migrations /\ op' # Do("prepare") /\ goal' = None
    BY <1>7 DEF Excepts, Idle, None, Migrations, Crosses, Migrate, Cross, Do
  <2>2. CASE todo' = <<>>
    BY <2>1, <2>2, EmptyHas DEF OrderOK
  <2>3. CASE todo' = AfterTry /\ Caught
    <3>1. goal = None /\ op # Idle
      BY <2>3, OpNamed, IdleNamed
    <3>2. UNCHANGED state
      BY <1>7, <3>1 DEF Excepts
    <3>3. CASE UNCHANGED todo
      BY <2>1, <3>1, <3>2, <3>3 DEF OrderOK, None
    <3>4. CASE todo # <<>> /\ todo' = Tail(todo) /\ Head(todo)[2] = "try"
      <4>1. todo' # <<>> => InOrder(todo')
        BY <1>0, <3>4, OrderTail DEF OrderOK
      <4>2. Has(todo', Migrations) => Has(todo, Migrations)
        BY <1>0, <3>4, HasHead DEF PlanType
      <4>3. Head(todo) # Goto("OS")
        BY <3>4 DEF Goto
      <4>4. QED BY <2>1, <3>1, <3>2, <4>1, <4>2, <4>3 DEF OrderOK, None
    <3>5. QED BY <2>3, <3>3, <3>4 DEF AfterTry
  <2>4. QED BY <1>7, <2>2, <2>3 DEF Excepts
<1>8. QED
  BY <1>0, <1>1, <1>2, <1>3, <1>4, <1>5, <1>6, <1>7, Effects DEF Ends, Renames

\* What the HMC was asked that would bring the partition up, or again, is in
\* sight of poweron_lpar(), or written down.
Waiting == op[1] = "poweron" /\ step = "wait"
AskedOK ==
    /\ asked = "restart" => unwaited
    /\ asked = "on" => part = "Not Activated" \/ unwaited
    /\ asked = "on" => blind \/ unwaited \/ (Waiting /\ saw \notin {"up", "Running"})

\* The partition is where the state machine believes it, and off.
OffOK ==
    state \in {"OFF", "POWERING_OFF"} =>
        /\ part = "Not Activated" \/ blind \/ unwaited \/ Waiting
        /\ moving = None /\ at = mg

\* A look says something of what is there after it.
SawOK ==
    /\ saw \in AlreadyOff =>
        /\ part = "Not Activated" \/ blind \/ unwaited \/ Waiting
        /\ moving = None /\ at = System
        /\ asked = "off" => part = "Not Activated"
    /\ op[1] = "poweroff" /\ step = "wait" =>
        /\ asked \in {"off", "nothing"}
        /\ saw = "Not Activated" => part = "Not Activated"
    /\ OfSystem /\ step = "wait" => moving = None
    /\ op[1] = "sysoff" /\ saw = "Power Off" => cec[mg] = "Power Off"
    /\ op[1] = "syson" /\ saw = "Operating" => cec[mg] = "Operating"
    /\ op[1] = "syson" /\ step = "wait" /\ at = mg =>
            part = "Not Activated" /\ asked = "nothing"

\* A partition that moves is between systems that run; on one that does not it is
\* off.
CecOK ==
    /\ \A s \in Systems : at = s /\ Dark(s) => part = "Not Activated" /\ asked = "nothing"
    /\ moving # None \/ step = "start" => \A s \in Systems : cec[s] = "Operating"

World == AskedOK /\ OffOK /\ SawOK /\ CecOK

\* How the flags of the past grow.
LEMMA Flags ==
    ASSUME HistoryType
    PROVE  /\ Raises => /\ blind => blind'
                        /\ step \in {"on", "kick"} \/ Waiting => blind'
                        /\ unwaited' <=> unwaited
           /\ Breaks => (blind' <=> blind) /\ unwaited'
           /\ UNCHANGED history => (blind' <=> blind) /\ (unwaited' <=> unwaited)
           /\ Waited /\ ~Raises =>
                /\ blind => blind'
                /\ unwaited => unwaited' \/ (part = "Running" /\ asked = "nothing" /\ saw = Expected /\ Returns)
                /\ saw = Expected /\ Returns /\ Expected = "Running" /\ goal = None /\ state = "OFF" => blind'
           /\ Shutdown => \/ Raises \/ Breaks
                          \/ (blind' <=> blind) /\ (unwaited => unwaited')
                             /\ (op[1] = "restart" => unwaited')
           /\ Kick => Raises \/ ((blind => blind') /\ unwaited')
<1>0. /\ Raises => UNCHANGED unwaited
      /\ Breaks => UNCHANGED blind
      /\ UNCHANGED history => UNCHANGED blind /\ UNCHANGED unwaited
      /\ Shutdown => Raises \/ Breaks \/ UNCHANGED blind
  BY DEF Raises, Breaks, history, Shutdown
<1>1. Raises => /\ blind => blind'
                /\ step \in {"on", "kick"} \/ Waiting => blind'
                /\ unwaited' <=> unwaited
  <2>1. Raises => /\ blind => blind'
                  /\ step \in {"on", "kick"} \/ Waiting => blind'
    BY Zenon DEF Raises, HistoryType, Waiting
  <2>2. QED BY <1>0, <2>1, Zenon DEF HistoryType
<1>2. Breaks => (blind' <=> blind) /\ unwaited'
  <2>1. Breaks => unwaited' BY Zenon DEF Breaks
  <2>2. QED BY <1>0, <2>1, Zenon DEF HistoryType
<1>3. UNCHANGED history => (blind' <=> blind) /\ (unwaited' <=> unwaited)
  BY <1>0, Zenon
<1>4. Waited /\ ~Raises =>
        /\ blind => blind'
        /\ unwaited => unwaited' \/ (part = "Running" /\ asked = "nothing" /\ saw = Expected /\ Returns)
        /\ saw = Expected /\ Returns /\ Expected = "Running" /\ goal = None /\ state = "OFF" => blind'
  BY <1>3, Zenon DEF Waited, HistoryType
<1>5. Shutdown => \/ Raises \/ Breaks
                  \/ (blind' <=> blind) /\ (unwaited => unwaited')
                     /\ (op[1] = "restart" => unwaited')
  <2>1. Shutdown => \/ Raises \/ Breaks
                    \/ (unwaited => unwaited') /\ (op[1] = "restart" => unwaited')
    BY <1>3, Zenon DEF Shutdown, HistoryType
  <2>2. QED BY <1>0, <2>1, Zenon
<1>6. Kick => Raises \/ ((blind => blind') /\ unwaited')
  BY Zenon DEF Kick, HistoryType
<1>7. QED BY <1>1, <1>2, <1>3, <1>4, <1>5, <1>6

\* An operation that leaves the world as it is, and its looks behind.
LEMMA WorldLeft ==
    ASSUME TypeOK, World, OffOK', UNCHANGED <<partition, mg>>,
           op' = Idle, step' = None, saw' = None,
           blind => blind',
           unwaited => unwaited' \/ asked = "nothing",
           Waiting => blind' \/ saw = "Running"
    PROVE  World'
<1> USE DEF partition, None
<1>1. AskedOK'
  BY DEF World, AskedOK
<1>2. SawOK'
  BY DEF SawOK, OfSystem, Idle, AlreadyOff
<1>3. CecOK'
  BY DEF World, CecOK, Dark
<1>4. QED BY <1>1, <1>2, <1>3 DEF World

LEMMA WorldExcepts ==
    ASSUME Shape, World, Raises \/ Breaks, UNCHANGED <<partition, mg>>, Waiting => Raises,
           UNCHANGED state \/ state' \in {"UNKNOWN", "UNKNOWN_BAD", "OS"}
    PROVE  World'
<1>1. HistoryType /\ TypeOK BY TypeParts DEF Shape
<1>2. (blind => blind') /\ (unwaited => unwaited') /\ (Waiting => blind')
  BY <1>1, Flags
<1>3. UNCHANGED <<part, cec, asked, at, moving, mg>> /\ (state' \in {"OFF", "POWERING_OFF"} => UNCHANGED state)
  BY DEF partition
<1>4. OffOK'
  BY <1>2, <1>3 DEF World, OffOK
<1>5. op' = Idle /\ step' = None /\ saw' = None
  BY Boundaries
<1>6. (unwaited => unwaited' \/ asked = "nothing") /\ (Waiting => blind' \/ saw = "Running")
  BY <1>2, Zenon
<1>7. blind => blind'
  BY <1>2, Zenon
<1>8. QED BY <1>1, <1>4, <1>5, <1>6, <1>7, WorldLeft

\* A look, and what does not change what was asked.
LEMMA WorldLooks ==
    ASSUME Shape, World, LookAtState \/ LookAtRefcode \/ LookAtSystem \/ LookFails PROVE World'
<1> USE DEF partition, history, runner, machine, None
<1>0. TypeOK /\ OpOK /\ HistoryType /\ WorldType /\ PlanType BY TypeParts DEF Shape
<1>1. CASE LookAtState
  <2>0. UNCHANGED <<op, step, part, asked, at, moving, mg, cec, state, blind, unwaited>> /\ ~OfSystem
        /\ op[1] \notin {"sysoff", "syson"}
    BY <1>1 DEF LookAtState, OfSystem
  <2>1. AskedOK'
    <3>1. saw' = "up" => part # "Not Activated"
      BY <1>0, <1>1 DEF LookAtState, WorldType, Parts
    <3>2. saw' # "Running"
      BY <1>0, <1>1 DEF LookAtState, WorldType, Parts
    <3>3. QED BY <2>0, <3>1, <3>2 DEF World, AskedOK, Waiting
  <2>2. OffOK' BY <2>0 DEF World, OffOK, Waiting
  <2>3. saw' \in AlreadyOff => moving = None /\ at = System /\ (part = "Not Activated" \/ Dark(at))
    BY <1>0, <1>1 DEF LookAtState, WorldType, Parts, AlreadyOff, Listed
  <2>4. Dark(at) => part = "Not Activated"
    BY <1>0 DEF World, CecOK, WorldType
  <2>5. SawOK'
    <3>1. (saw' \in AlreadyOff => part = "Not Activated" /\ moving = None /\ at = System)
          /\ (saw' = "Not Activated" => part = "Not Activated")
      BY <1>0, <1>1, <2>3, <2>4 DEF LookAtState, WorldType, Parts
    <3>2. System' = System /\ ~OfSystem' /\ (op[1] = "poweroff" /\ step = "wait" => asked \in {"off", "nothing"})
      BY <2>0 DEF System, OfSystem, World, SawOK
    <3>3. QED BY <2>0, <3>1, <3>2 DEF SawOK
  <2>6. CecOK' BY <2>0 DEF World, CecOK, Dark
  <2>7. QED BY <2>1, <2>2, <2>5, <2>6 DEF World
<1>2. CASE LookAtRefcode
  <2>0. /\ UNCHANGED <<op, step, part, asked, at, moving, mg, cec, state, blind, unwaited>>
        /\ saw = "up" /\ saw' \in {"Running", "Booting"}
    BY <1>2 DEF LookAtRefcode
  <2>1. AskedOK' BY <2>0 DEF World, AskedOK, Waiting
  <2>2. OffOK' BY <2>0 DEF World, OffOK, Waiting
  <2>3. SawOK' BY <2>0 DEF World, SawOK, OfSystem, Waiting, System, AlreadyOff
  <2>4. CecOK' BY <2>0 DEF World, CecOK, Dark
  <2>5. QED BY <2>1, <2>2, <2>3, <2>4 DEF World
<1>3. CASE LookAtSystem
  <2>0. /\ UNCHANGED <<op, step, part, asked, at, moving, mg, cec, state, blind, unwaited>>
        /\ saw' = cec[mg] /\ cec[mg] \in Powers /\ op[1] \in {"sysoff", "syson"}
    BY <1>0, <1>3 DEF LookAtSystem, WorldType, OfSystem, PlanType
  <2>1. AskedOK' BY <2>0 DEF World, AskedOK, Waiting
  <2>2. OffOK' BY <2>0 DEF World, OffOK, Waiting
  <2>3. SawOK' BY <2>0 DEF World, SawOK, OfSystem, Waiting, System, AlreadyOff, Powers
  <2>4. CecOK' BY <2>0 DEF World, CecOK, Dark
  <2>5. QED BY <2>1, <2>2, <2>3, <2>4 DEF World
<1>4. CASE LookFails
  <2>1. CASE Raises
    BY <1>4, <2>1, WorldExcepts DEF LookFails
  <2>2. CASE ~Raises
    <3>0. /\ UNCHANGED <<op, part, asked, at, moving, mg, cec, state, blind, unwaited>>
          /\ step = "clear" /\ step' = "again" /\ saw' = None
      BY <1>4, <2>2 DEF LookFails
    <3>1. AskedOK' BY <3>0 DEF World, AskedOK, Waiting
    <3>2. OffOK' BY <3>0 DEF World, OffOK, Waiting
    <3>3. SawOK' BY <1>0, <3>0 DEF OpOK, SawOK, OfSystem, AlreadyOff
    <3>4. CecOK' BY <3>0 DEF World, CecOK, Dark
    <3>5. QED BY <3>1, <3>2, <3>3, <3>4 DEF World
  <2>3. QED BY <2>1, <2>2
<1>5. QED BY <1>1, <1>2, <1>3, <1>4

\* A step of op-test's own.
LEMMA WorldGoesOn ==
    ASSUME World, UNCHANGED <<partition, mg>>, UNCHANGED state \/ OffOK',
           saw' = None, ~Waiting, step' # "wait",
           step' = "start" => \A s \in Systems : cec[s] = "Operating",
           blind => blind', unwaited => unwaited'
    PROVE  World'
<1> USE DEF partition, None
<1>1. AskedOK' BY DEF World, AskedOK, Waiting
<1>2. OffOK' BY DEF World, OffOK, Waiting
<1>3. SawOK' BY DEF SawOK, OfSystem, AlreadyOff
<1>4. CecOK' BY DEF World, CecOK, Dark
<1>5. QED BY <1>1, <1>2, <1>3, <1>4 DEF World

\* What an operation returns to.
LEMMA WorldReturns ==
    ASSUME Shape, World, Returns, UNCHANGED <<partition, mg>>, Decide \/ Waited \/ OverSSH
    PROVE  World'
<1> USE DEF partition, None
<1>0. TypeOK /\ OpOK /\ GoalOK /\ HistoryType /\ WorldType /\ PlanType BY TypeParts DEF Shape
<1>1. op' = Idle /\ step' = None /\ saw' = None BY Boundaries
<1>6. CASE Raises
  <2>1. UNCHANGED state
    BY <1>0, <1>6, TypeParts DEF Returns, Raises, To, MachineType
  <2>2. QED BY <1>6, <2>1, WorldExcepts
<1>2. CASE ~Raises /\ (Decide \/ OverSSH)
  <2>1. UNCHANGED history /\ ~Waiting
    BY <1>2 DEF Decide, OverSSH, Looked, Waiting
  <2>2. (blind' <=> blind) /\ (unwaited' <=> unwaited)
    BY <1>0, <2>1, Flags
  <2>3. CASE goal = None
    <3>1. UNCHANGED state BY <2>3 DEF Returns
    <3>2. OffOK' BY <2>1, <2>2, <3>1 DEF World, OffOK
    <3>3. QED BY <1>0, <1>1, <2>1, <2>2, <3>2, WorldLeft
  <2>4. CASE goal # None
    <3>1. \/ op = On("local") /\ state' = "BOOTING"
          \/ op = Off("local") /\ op[1] = "poweroff" /\ op[2] = "local"
      BY <1>0, <1>2, <2>4 DEF Returns, To, GoalOK, On, Off, Idle, Decide, OverSSH, OpOK
    <3>2. CASE op = Off("local") /\ op[1] = "poweroff" /\ op[2] = "local"
      <4>0. Decide /\ op[1] # "poweron" /\ step' \notin {"again", "shutdown"}
        BY <1>0, <1>1, <1>2, <3>2 DEF OverSSH, OpOK
      <4>1. saw \in AlreadyOff
        BY <4>0 DEF Decide, AlreadyThere
      <4>2. OffOK'
        BY <2>1, <2>2, <3>2, <4>1 DEF World, SawOK, OffOK, System
      <4>3. QED BY <1>0, <1>1, <2>1, <2>2, <4>2, WorldLeft
    <3>3. CASE state' = "BOOTING"
      <4>1. OffOK' BY <3>3 DEF OffOK
      <4>2. QED BY <1>0, <1>1, <2>1, <2>2, <4>1, WorldLeft
    <3>4. QED BY <3>1, <3>2, <3>3
  <2>5. QED BY <2>3, <2>4
<1>3. CASE ~Raises /\ Waited
  <2>0. step = "wait" /\ saw = Expected
    BY <1>1, <1>3 DEF Waited, Looked, LooksOn
  <2>1. op[1] \in {"poweroff", "poweron", "restart", "sysoff", "syson"}
    BY <1>0, <2>0 DEF OpOK, Looking
  <2>2. /\ blind => blind'
        /\ unwaited => unwaited' \/ (part = "Running" /\ asked = "nothing")
        /\ Expected = "Running" /\ goal = None /\ state = "OFF" => blind'
    BY <1>0, <1>3, <2>0, Flags
  <2>3. Waiting => saw = "Running" /\ Expected = "Running"
    BY <2>0 DEF Waiting, Expected
  <2>4. CASE goal = None
    <3>1. UNCHANGED state /\ state # "POWERING_OFF"
      BY <1>0, <2>4 DEF Returns, GoalOK
    <3>2. state = "OFF" /\ part = "Running" /\ asked = "nothing" => Expected = "Running"
      <4> SUFFICES ASSUME state = "OFF", part = "Running" PROVE Expected = "Running"
        OBVIOUS
      <4>1. at = mg /\ mg \in Systems BY <1>0 DEF World, OffOK, PlanType
      <4>2. op[1] # "poweroff" BY <2>0 DEF World, SawOK, Expected
      <4>3. op[1] # "sysoff"
        BY <2>0, <4>1 DEF World, SawOK, CecOK, Dark, Expected
      <4>4. op[1] # "syson" BY <2>0, <4>1 DEF World, SawOK
      <4>5. QED BY <2>1, <4>2, <4>3, <4>4 DEF Expected
    <3>3. OffOK'
      BY <2>2, <2>3, <2>4, <3>1, <3>2 DEF World, OffOK
    <3>4. QED BY <1>0, <1>1, <2>2, <2>3, <3>3, WorldLeft
  <2>5. CASE goal # None
    <3>1. \/ op = On("local") /\ state' = "BOOTING"
          \/ op = Off("local") /\ op[1] = "poweroff" /\ op[2] = "local"
      BY <1>0, <2>1, <2>5 DEF Returns, To, GoalOK, On, Off, Idle, None
    <3>2. CASE op = Off("local") /\ op[1] = "poweroff" /\ op[2] = "local"
      <4>1. saw = "Not Activated" /\ saw \in AlreadyOff
        BY <2>0, <3>2 DEF Expected, AlreadyOff
      <4>2. part = "Not Activated" /\ moving = None /\ at = mg
        BY <2>0, <3>2, <4>1 DEF World, SawOK, System
      <4>3. OffOK' BY <4>2 DEF OffOK
      <4>4. QED BY <1>0, <1>1, <2>2, <2>3, <4>3, WorldLeft
    <3>3. CASE state' = "BOOTING"
      <4>1. OffOK' BY <3>3 DEF OffOK
      <4>2. QED BY <1>0, <1>1, <2>2, <2>3, <4>1, WorldLeft
    <3>4. QED BY <3>1, <3>2, <3>3
  <2>6. QED BY <2>4, <2>5
<1>4. QED BY <1>6, <1>2, <1>3

\* A step of a migration.
LEMMA WorldMigrates ==
    ASSUME World, UNCHANGED <<part, cec, asked, state>>, state = "OS",
           saw' = None, ~Waiting, step' \notin {"wait", "start"},
           moving' # None \/ at' # at => \A s \in Systems : cec[s] = "Operating",
           at' \in Systems, blind => blind', unwaited => unwaited'
    PROVE  World'
<1> USE DEF None
<1>1. AskedOK' BY DEF World, AskedOK, Waiting
<1>2. OffOK' BY DEF OffOK
<1>3. SawOK' BY DEF SawOK, OfSystem, AlreadyOff
<1>4. CecOK' BY DEF World, CecOK, Dark
<1>5. QED BY <1>1, <1>2, <1>3, <1>4 DEF World

LEMMA WorldOpTest ==
    ASSUME Shape, World, OrderOK, BeginTest \/ Call \/ Decide \/ ErrorClears \/ GoesOn
               \/ Waited \/ Prepare \/ OverSSH \/ FindsIt \/ Check
    PROVE  World'
<1> USE DEF None
<1>0. TypeOK /\ OpOK /\ GoalOK /\ HistoryType BY TypeParts DEF Shape
<1>1. CASE Returns /\ (Decide \/ Waited \/ OverSSH)
  BY <1>1, WorldReturns DEF Decide, Waited, OverSSH
<1>2. CASE Raises /\ ((Waited /\ ~Returns) \/ (OverSSH /\ ~Returns) \/ Check)
  BY <1>2, WorldExcepts DEF Waited, OverSSH, Check, machine
<1>3. CASE BeginTest \/ Call \/ (Decide /\ ~Returns) \/ ErrorClears \/ GoesOn \/ Prepare
           \/ FindsIt \/ (Check /\ ~Raises)
  <2>1. UNCHANGED <<partition, mg, state, history>>
    BY <1>3 DEF BeginTest, Call, Decide, ErrorClears, GoesOn, Prepare, FindsIt, Check, machine
  <2>2. saw' = None
    BY <1>0, <1>3, Boundaries DEF BeginTest, Call, Decide, ErrorClears, GoesOn, Prepare, FindsIt,
       Check, LooksOn, OpOK, Looking, call, Ready
  <2>3. step' \notin {"wait", "start"}
    <3>1. CASE BeginTest \/ Call
      <4>1. step = None BY <1>0, <3>1 DEF BeginTest, Call, Ready, OpOK
      <4>2. UNCHANGED step \/ \E name : step' = FirstStep(name)
        BY <3>1 DEF BeginTest, Call, call, Enters
      <4>3. QED BY <4>1, <4>2 DEF FirstStep
    <3>2. CASE Decide /\ ~Returns
      BY <3>2 DEF Decide
    <3>3. QED
      BY <1>3, <3>1, <3>2, Boundaries DEF ErrorClears, GoesOn, Prepare, FindsIt, Check, LooksOn
  <2>4. ~Waiting
    BY <1>0, <1>3 DEF BeginTest, Call, Decide, ErrorClears, GoesOn, Prepare, FindsIt, Check,
       Looked, Waiting, OpOK, Ready
  <2>5. (blind' <=> blind) /\ (unwaited' <=> unwaited)
    BY <1>0, <2>1, Flags
  <2>6. QED BY <2>1, <2>2, <2>3, <2>4, <2>5, WorldGoesOn
<1>4. CASE Waited /\ LooksOn("wait") /\ UNCHANGED <<state, history>>
  <2>1. /\ UNCHANGED <<op, step, part, asked, at, moving, mg, cec, state, blind, unwaited>>
        /\ saw' = None /\ step = "wait"
    BY <1>4 DEF Waited, Looked, LooksOn, partition, history
  <2>2. AskedOK' BY <2>1 DEF World, AskedOK, Waiting
  <2>3. OffOK' BY <2>1 DEF World, OffOK, Waiting
  <2>4. SawOK' BY <2>1 DEF World, SawOK, OfSystem, AlreadyOff
  <2>5. CecOK' BY <2>1 DEF World, CecOK, Dark
  <2>6. QED BY <2>2, <2>3, <2>4, <2>5 DEF World
<1>5. QED
  BY <1>1, <1>2, <1>3, <1>4 DEF Decide, Waited, OverSSH, machine

LEMMA WorldGoto ==
    ASSUME Shape, World, Detect \/ Stopped \/ RunUNKNOWN \/ RunOS \/ RunPOWERINGOFF \/ RunOFF
                         \/ Booted \/ BootOverdue \/ BootFails
    PROVE  World'
<1> USE DEF None
<1>0. TypeOK /\ OpOK /\ GoalOK /\ HistoryType BY TypeParts DEF Shape
<1>1. UNCHANGED <<partition, mg>> /\ ~Waiting /\ op = Idle /\ saw = None
  BY <1>0 DEF Detect, Stopped, RunUNKNOWN, RunOS, RunPOWERINGOFF, RunOFF, Booted, BootOverdue,
     BootFails, In, Waiting, OpOK, Looking
<1>2. CASE Raises /\ ~UNCHANGED history
  <2>1. UNCHANGED state \/ state' \in {"UNKNOWN", "UNKNOWN_BAD", "OS"}
    BY <1>2 DEF Detect, Stopped, RunUNKNOWN, RunOS, RunPOWERINGOFF, RunOFF, Booted,
       BootOverdue, BootFails, To, In, machine
  <2>2. QED BY <1>1, <1>2, <2>1, WorldExcepts
<1>3. CASE UNCHANGED history
  <2>2. (blind' <=> blind) /\ (unwaited' <=> unwaited)
    BY <1>0, <1>3, Flags
  <2>3. \/ UNCHANGED state \/ state' \in {"UNKNOWN", "UNKNOWN_BAD", "OS"}
        \/ state = "POWERING_OFF" /\ state' = "OFF"
    BY <1>3 DEF Detect, Stopped, RunUNKNOWN, RunOS, RunPOWERINGOFF, RunOFF, Booted,
       BootOverdue, BootFails, To, In, machine
  <2>4. UNCHANGED <<part, at, moving, mg>> BY <1>1 DEF partition
  <2>5. UNCHANGED state \/ OffOK'
    BY <1>1, <2>2, <2>3, <2>4 DEF World, OffOK
  <2>6. saw' = None /\ step' \in {None, "first"}
    BY <1>0, <1>1, <1>3, Boundaries DEF Detect, Stopped, RunUNKNOWN, RunOS, RunPOWERINGOFF, RunOFF,
       Booted, BootOverdue, BootFails, call, OpOK
  <2>7. QED BY <1>1, <2>2, <2>5, <2>6, WorldGoesOn
<1>4. ~UNCHANGED history => Raises
  BY DEF Detect, Stopped, RunUNKNOWN, RunOS, RunPOWERINGOFF, RunOFF, Booted, BootOverdue, BootFails
<1>5. QED BY <1>2, <1>3, <1>4

LEMMA WorldMoved ==
    ASSUME Shape, World, OrderOK, MigrationFails \/ Validate \/ Start \/ CheckState
                                  \/ StopMigration \/ Recover
    PROVE  World'
<1> USE DEF None
<1>0. TypeOK /\ OpOK /\ GoalOK /\ HistoryType /\ WorldType' BY TypeParts, WorldStep DEF Shape, Next, OpTest
<1>1. op[1] \in {"migrate", "crossmigrate"} /\ step \in Migrating /\ ~Waiting /\ op # Idle
      /\ saw = None
  BY <1>0 DEF MigrationFails, Validate, Start, CheckState, StopMigration, Recover, OpOK, Looking,
     Migrating, Migrates, Waiting
<1>2. state = "OS" /\ at' \in Systems
  BY <1>0, <1>1, OpNamed DEF OrderOK, WorldType
<1>3. CASE MigrationFails
  BY <1>1, <1>3, WorldExcepts DEF MigrationFails
<1>4. UNCHANGED <<part, cec, asked, state>>
  BY DEF MigrationFails, Validate, Start, CheckState, StopMigration, Recover, partition, machine
<1>5. CASE Validate
  <2>1. (blind' <=> blind) /\ (unwaited' <=> unwaited)
    BY <1>0, <1>5, Flags DEF Validate
  <2>2. QED BY <1>1, <1>5, <2>1, WorldGoesOn DEF Validate, machine
<1>6. CASE Start \/ CheckState \/ StopMigration \/ Recover
  <2>1. saw' = None
    BY <1>1, <1>6, Boundaries DEF Start, CheckState, StopMigration, Recover
  <2>2. step' \notin {"wait", "start"}
    BY <1>6, Boundaries DEF Start, CheckState, StopMigration, Recover
  <2>3. moving' # None \/ at' # at => \A s \in Systems : cec[s] = "Operating"
    BY <1>6 DEF Start, CheckState, StopMigration, Recover, partition, World, CecOK
  <2>4. UNCHANGED <<blind, unwaited>> \/ Raises
    BY <1>6 DEF Start, CheckState, StopMigration, Recover, history
  <2>5. (blind => blind') /\ (unwaited => unwaited')
    <3>1. Raises => (blind => blind') /\ (unwaited => unwaited')
      BY <1>0, Flags
    <3>2. Raises \/ (UNCHANGED blind /\ UNCHANGED unwaited)
      BY <2>4
    <3>3. (UNCHANGED blind => (blind => blind')) /\ (UNCHANGED unwaited => (unwaited => unwaited'))
      BY Zenon
    <3>4. QED BY <3>1, <3>2, <3>3, Zenon
  <2>6. QED BY <1>1, <1>2, <1>4, <2>1, <2>2, <2>3, <2>5, WorldMigrates
<1>7. QED BY <1>3, <1>5, <1>6

\* What the HMC is asked to do.
LEMMA WorldAsked ==
    ASSUME Shape, World, Shutdown \/ PowerOn \/ Kick \/ PowerSystem PROVE World'
<1> USE DEF None
<1>0. TypeOK /\ OpOK /\ GoalOK /\ HistoryType /\ WorldType /\ PlanType BY TypeParts DEF Shape
<1>1. UNCHANGED <<part, at, moving, mg, state>> /\ ~Waiting /\ at \in Systems /\ mg \in Systems
  BY <1>0 DEF Shutdown, PowerOn, Kick, PowerSystem, Looked, Waiting, WorldType, PlanType
<1>2. CASE Shutdown
  <2>1. /\ blind => blind'
        /\ unwaited => unwaited'
        /\ asked' # asked => unwaited' \/ asked' = "off"
    <3>1. CASE Raises /\ ~Breaks
      <4>1. asked' = asked \/ asked' = "off"
        BY <1>2, <3>1, Boundaries DEF Shutdown, Command, LooksOn
      <4>2. QED BY <1>0, <3>1, <4>1, Flags
    <3>2. CASE Breaks
      BY <1>0, <3>2, Flags
    <3>3. CASE ~Raises /\ ~Breaks
      <4>1. asked' # asked => asked' = "off" \/ op[1] = "restart"
        BY <1>2 DEF Shutdown, Command
      <4>2. QED BY <1>0, <1>2, <3>3, <4>1, Flags
    <3>4. QED BY <3>1, <3>2, <3>3
  <2>2. saw' = None
    BY <1>2, Boundaries DEF Shutdown, LooksOn
  <2>3. \/ step' \in {None, "again", "clear"}
        \/ step' = "wait" /\ UNCHANGED op /\ op[1] # "poweron" /\ (op[1] = "poweroff" => asked' = "off")
    BY <1>2, Boundaries DEF Shutdown, LooksOn, Command
  <2>4. op[1] \in {"poweroff", "poweron", "restart"} /\ UNCHANGED cec
        /\ (asked' # asked => part # "Not Activated")
    BY <1>0, <1>2 DEF Shutdown, OpOK
  <2>5. AskedOK' BY <1>1, <2>1, <2>4 DEF World, AskedOK
  <2>6. OffOK' BY <1>1, <2>1 DEF World, OffOK
  <2>7. SawOK' BY <2>2, <2>3, <2>4 DEF SawOK, OfSystem, AlreadyOff
  <2>8. CecOK' BY <1>1, <2>3, <2>4 DEF World, CecOK, Dark
  <2>9. QED BY <2>5, <2>6, <2>7, <2>8 DEF World
<1>3. CASE PowerOn \/ Kick
  <2>1. /\ saw' = None /\ UNCHANGED cec
        /\ step' = None \/ (step' = "wait" /\ UNCHANGED op /\ op[1] = "poweron" /\ asked' = "on")
        /\ asked' # asked => CanStart /\ asked' = "on"
    BY <1>0, <1>3, Boundaries DEF PowerOn, Kick, Enters, OpOK
  <2>2. step' = "wait" \/ Raises \/ (Kick /\ ~Raises)
    BY <1>3 DEF PowerOn, Kick, Enters
  <2>3. /\ blind => blind'
        /\ unwaited => unwaited'
        /\ step' = "wait" \/ blind' \/ unwaited'
    <3>1. CASE Raises
      <4>1. step \in {"on", "kick"} BY <1>3 DEF PowerOn, Kick
      <4>2. QED BY <1>0, <3>1, <4>1, Flags
    <3>2. CASE Kick /\ ~Raises
      BY <1>0, <3>2, Flags
    <3>3. CASE ~Raises /\ ~Kick
      BY <1>0, <1>3, <2>2, <3>3, Flags DEF PowerOn
    <3>4. QED BY <3>1, <3>2, <3>3
  <2>5. AskedOK'
    BY <1>1, <2>1, <2>3 DEF World, AskedOK, CanStart, Waiting
  <2>6. OffOK' BY <1>1, <2>3 DEF World, OffOK
  <2>7. SawOK' BY <2>1 DEF SawOK, OfSystem, AlreadyOff
  <2>8. CecOK' BY <1>1, <2>1 DEF World, CecOK, Dark, CanStart
  <2>9. QED BY <2>5, <2>6, <2>7, <2>8 DEF World
<1>4. CASE PowerSystem
  <2>1. (blind => blind') /\ (unwaited => unwaited')
    BY <1>0, <1>4, Flags DEF PowerSystem
  <2>2. /\ UNCHANGED asked /\ saw' = None
        /\ step' = None \/ (step' = "wait" /\ cec' # cec /\ UNCHANGED op)
        /\ op[1] \in {"sysoff", "syson"}
        /\ cec' # cec => /\ moving = None /\ cec[mg] = Needed
                         /\ cec' = [cec EXCEPT ![mg] = Begun]
    BY <1>4, Boundaries DEF PowerSystem, OfSystem, LooksOn
  <2>3. AskedOK' BY <1>1, <2>1, <2>2 DEF World, AskedOK, Waiting
  <2>4. OffOK' BY <1>1, <2>1 DEF World, OffOK
  <2>5. \A s \in Systems : Dark(s)' => Dark(s)
    BY <1>0, <2>2 DEF Dark, Needed, Begun, WorldType
  <2>6. op[1] = "syson" /\ cec' # cec => Dark(mg)
    BY <2>2 DEF Dark, Needed
  <2>7. SawOK'
    BY <1>1, <2>2, <2>6 DEF World, CecOK, SawOK, OfSystem, AlreadyOff
  <2>8. CecOK'
    BY <1>1, <2>2, <2>5 DEF World, CecOK
  <2>9. QED BY <2>3, <2>4, <2>7, <2>8 DEF World
<1>5. QED BY <1>2, <1>3, <1>4

\* The partition moves on by itself.
LEMMA WorldEnvironment ==
    ASSUME Shape, World, Environment \/ UNCHANGED vars PROVE World'
<1> USE DEF None
<1>0. TypeOK /\ OpOK /\ GoalOK /\ HistoryType /\ WorldType /\ WorldType' /\ PlanType
  BY TypeParts, WorldStep DEF Shape, Next
<1>1. UNCHANGED <<op, step, saw, mg, state, blind, unwaited>> /\ at \in Systems /\ mg \in Systems
  BY <1>0 DEF Environment, BeginsOff, BeginsOn, BeginsRestart, Progresses, Crashes, SystemGoesOff,
     SystemComesUp, MigrationEnds, optest, call, machine, history, vars, WorldType, PlanType
<1>2. (Waiting' <=> Waiting) /\ (OfSystem' <=> OfSystem) /\ System' = System
  BY <1>1 DEF Waiting, OfSystem, System
<1>3. CASE BeginsOff \/ BeginsOn \/ BeginsRestart
  <2>1. /\ UNCHANGED <<cec, at, moving>>
        /\ asked = "off" => asked' = "nothing" /\ (part = "Not Activated" => part' = part)
        /\ asked = "on" => asked' = "nothing"
        /\ asked = "restart" => asked' = "on"
        /\ asked \in {"off", "on", "restart"}
    BY <1>3 DEF BeginsOff, BeginsOn, BeginsRestart
  <2>2. AskedOK' BY <1>1, <2>1 DEF World, AskedOK
  <2>3. OffOK' BY <1>1, <1>2, <2>1 DEF World, AskedOK, OffOK
  <2>4. SawOK'
    <3>1. saw \in AlreadyOff =>
            (part' = "Not Activated" \/ blind' \/ unwaited' \/ Waiting') /\ asked' # "off"
      BY <1>1, <1>2, <2>1 DEF World, AskedOK, SawOK
    <3>2. op[1] = "poweroff" /\ step = "wait" =>
            asked' = "nothing" /\ (saw = "Not Activated" => part' = "Not Activated")
      BY <1>1, <2>1 DEF World, SawOK
    <3>3. ~(op[1] = "syson" /\ step = "wait" /\ at = mg)
      BY <2>1 DEF World, SawOK
    <3>4. QED BY <1>1, <1>2, <2>1, <3>1, <3>2, <3>3 DEF World, SawOK
  <2>5. CecOK'
    <3>1. \A s \in Systems : at = s => ~Dark(s)
      BY <2>1 DEF World, CecOK
    <3>2. QED BY <1>1, <2>1, <3>1 DEF World, CecOK, Dark
  <2>6. QED BY <2>2, <2>3, <2>4, <2>5 DEF World
<1>4. CASE Progresses \/ Crashes
  <2>1. UNCHANGED <<asked, cec, at, moving>> /\ part # "Not Activated"
    BY <1>4 DEF Progresses, Crashes, Boots
  <2>2. AskedOK' BY <1>1, <1>2, <2>1 DEF World, AskedOK
  <2>3. OffOK' BY <1>1, <1>2, <2>1 DEF World, OffOK
  <2>4. SawOK' BY <1>1, <1>2, <2>1 DEF World, SawOK
  <2>5. CecOK' BY <1>1, <2>1 DEF World, CecOK, Dark
  <2>6. QED BY <2>2, <2>3, <2>4, <2>5 DEF World
<1>5. CASE SystemGoesOff
  <2>1. PICK s \in Systems : /\ cec[s] = "Power Off In Progress"
                             /\ cec' = [cec EXCEPT ![s] = "Power Off"]
                             /\ IF at = s THEN part' = "Not Activated" /\ asked' = "nothing"
                                          ELSE UNCHANGED <<part, asked>>
                             /\ UNCHANGED <<at, moving>>
    BY <1>5 DEF SystemGoesOff
  <2>2. /\ cec'[s] = "Power Off"
        /\ \A t \in Systems : t # s => cec'[t] = cec[t]
        /\ \/ at # s /\ UNCHANGED <<part, asked>>
           \/ at = s /\ part' = "Not Activated" /\ asked' = "nothing"
    BY <1>0, <2>1 DEF WorldType
  <2>3. AskedOK' BY <1>1, <1>2, <2>2 DEF World, AskedOK
  <2>4. OffOK' BY <1>1, <1>2, <2>1, <2>2 DEF World, OffOK
  <2>5. SawOK' BY <1>1, <1>2, <2>1, <2>2 DEF World, SawOK
  <2>6. CecOK'
    <3>1. moving = None /\ step # "start" BY <2>1 DEF World, CecOK
    <3>2. QED BY <1>1, <2>1, <2>2, <3>1 DEF World, CecOK, Dark
  <2>7. QED BY <2>3, <2>4, <2>5, <2>6 DEF World
<1>6. CASE SystemComesUp
  <2>1. PICK s \in Systems : /\ cec[s] = "Initializing"
                             /\ cec' = [cec EXCEPT ![s] = "Operating"]
                             /\ UNCHANGED <<part, asked, at, moving>>
    BY <1>6 DEF SystemComesUp
  <2>2. cec'[s] = "Operating" /\ \A t \in Systems : t # s => cec'[t] = cec[t]
    BY <1>0, <2>1 DEF WorldType
  <2>3. AskedOK' BY <1>1, <1>2, <2>1 DEF World, AskedOK
  <2>4. OffOK' BY <1>1, <1>2, <2>1 DEF World, OffOK
  <2>5. SawOK' BY <1>1, <1>2, <2>1, <2>2 DEF World, SawOK
  <2>6. CecOK' BY <1>1, <2>1, <2>2 DEF World, CecOK, Dark
  <2>7. QED BY <2>3, <2>4, <2>5, <2>6 DEF World
<1>7. CASE MigrationEnds
  <2>1. UNCHANGED <<part, cec, asked>> /\ moving # None /\ at' \in Systems
        /\ \A s \in Systems : cec[s] = "Operating"
    BY <1>0, <1>7 DEF MigrationEnds, World, CecOK, WorldType
  <2>2. AskedOK' BY <1>1, <1>2, <2>1 DEF World, AskedOK
  <2>3. OffOK' BY <1>1, <2>1 DEF World, OffOK
  <2>4. ~(OfSystem /\ step = "wait") /\ saw \notin AlreadyOff BY <2>1 DEF World, SawOK
  <2>5. SawOK' BY <1>1, <1>2, <2>1, <2>4 DEF World, SawOK, OfSystem
  <2>6. CecOK' BY <1>1, <2>1 DEF CecOK, Dark
  <2>7. QED BY <2>2, <2>3, <2>5, <2>6 DEF World
<1>8. CASE UNCHANGED vars
  <2>1. UNCHANGED <<part, cec, asked, at, moving>> BY <1>8 DEF vars, partition
  <2>2. AskedOK' BY <1>1, <1>2, <2>1 DEF World, AskedOK
  <2>3. OffOK' BY <1>1, <1>2, <2>1 DEF World, OffOK
  <2>4. SawOK' BY <1>1, <1>2, <2>1 DEF World, SawOK
  <2>5. CecOK' BY <1>1, <2>1 DEF World, CecOK, Dark
  <2>6. QED BY <2>2, <2>3, <2>4, <2>5 DEF World
<1>9. QED BY <1>3, <1>4, <1>5, <1>6, <1>7, <1>8 DEF Environment

LEMMA WorldInit == Init => World /\ OrderOK
<1> SUFFICES ASSUME Init PROVE World /\ OrderOK
  OBVIOUS
<1> USE DEF Init, None
<1>1. AskedOK /\ OffOK BY DEF AskedOK, OffOK
<1>2. SawOK BY DEF SawOK, AlreadyOff, OfSystem
<1>3. CecOK BY DEF CecOK, Dark
<1>4. OrderOK BY EmptyHas, IdleNamed DEF OrderOK
<1>5. QED BY <1>1, <1>2, <1>3, <1>4 DEF World

LEMMA WorldKeeps ==
    ASSUME Shape, OrderOK, World, [Next]_vars PROVE World'
  BY WorldLooks, WorldOpTest, WorldGoto, WorldMoved, WorldAsked, WorldEnvironment DEF Next, OpTest

LEMMA WorldKept == Spec => [](Shape /\ OrderOK /\ World)
<1> DEFINE I == Shape /\ OrderOK /\ World
<1>1. Init => I BY TypeInit, WorldInit DEF Shape
<1>2. I /\ [Next]_vars => I' BY ShapeStep, OrderStep, WorldKeeps
<1> HIDE DEF I
<1>3. Spec => []I BY <1>1, <1>2, PTL DEF Spec
<1>4. QED BY <1>3 DEF I

\* A state machine that believes the partition to be off is right, but for the
\* power-ons and the restarts that went on behind its back.
THEOREM BelievedOffIsOff == Spec => []OffIsOff
<1>1. World => OffIsOff
  BY DEF World, OffOK, AskedOK, OffIsOff, Waiting
<1>2. QED BY <1>1, WorldKept, PTL

-----------------------------------------------------------------------------
(* The system that the HMC object names                                    *)

\* A partition that crosses to the other HMC crosses back in the same test,
\* and the HMC object goes on naming the system it came from.
Plain == {Migrate("local"), Migrate("remote")}
CrossOK ==
    /\ Followed(todo, {Cross("local")}, Crosses)
    /\ op = Cross("local") => Has(todo, Crosses)
    /\ Has(todo, Crosses) \/ op \in Crosses => mg = src /\ ~Has(todo, Plain) /\ op \notin Plain

LEMMA ProgramsCrossBack ==
    \A k \in Kinds : /\ Followed(Program[k], {Cross("local")}, Crosses)
                     /\ Has(Program[k], Crosses) => ~Has(Program[k], Plain)
<1> DEFINE Fine(t) == /\ Followed(t, {Cross("local")}, Crosses)
                      /\ Has(t, Crosses) => ~Has(t, Plain)
<1> USE DEF Has, Followed, Plain, Crosses, Goto, Off, On, Migrate, Cross, Do
<1>1. Fine(PowerCycle) /\ Fine(RestoreConfig) /\ Fine(OnlyKdumpEnable)
  BY DEF PowerCycle, RestoreConfig, OnlyKdumpEnable
<1>2. Fine(SecureBoot)
  BY DEF SecureBoot
<1>3. Fine(Hugepage16G) /\ Fine(CecConfig)
  BY DEF Hugepage16G, CecConfig
<1>4. Fine(ActiveMigration) /\ Fine(CrossMigration)
  BY DEF ActiveMigration, CrossMigration
<1>5. Fine(InactiveMigration)
  BY DEF InactiveMigration
<1>6. Fine(ColdMigration)
  BY DEF ColdMigration
<1> HIDE DEF Fine
<1>7. \A k \in Kinds : Fine(Program[k])
  BY <1>1, <1>2, <1>3, <1>4, <1>5, <1>6, TestsAssumption DEF Program
<1>8. QED BY <1>7 DEF Fine

LEMMA CrossStep ==
    ASSUME Shape, CrossOK, [Next]_vars PROVE CrossOK'
<1>0. PlanType /\ OpOK /\ GoalOK /\ TypeOK
  BY TypeParts DEF Shape
<1>1. op' = Idle => op' \notin Crosses /\ op' \notin Plain
  BY DEF Idle, None, Crosses, Plain, Migrate, Cross
<1>2. Cross("local") \in Crosses
  BY DEF Crosses
<1>3. CASE BeginTest
  <2>1. PICK k \in Kinds : todo' = Program[k]
    BY <1>3 DEF BeginTest
  <2>2. op' = Idle /\ src' = mg /\ mg' = mg
    BY <1>3 DEF BeginTest, Ready, call
  <2>3. QED BY <1>1, <1>2, <2>1, <2>2, ProgramsCrossBack DEF CrossOK
<1>4. CASE Call
  <2>0. todo # <<>> /\ todo \in Seq(Calls) /\ todo' = Tail(todo) /\ op = Idle
        /\ UNCHANGED <<mg, src>> /\ op' \in {Idle, Head(todo)}
    BY <1>0, <1>4, Boundaries DEF Call, Ready, PlanType, call
  <2>1. Followed(todo', {Cross("local")}, Crosses)
        /\ (Head(todo) = Cross("local") => Has(todo', Crosses))
    BY <2>0, FollowedHead DEF CrossOK
  <2>2. Has(todo', Crosses) \/ Head(todo) \in Crosses => Has(todo, Crosses)
    BY <2>0, HasHead
  <2>3. Has(todo', Plain) \/ Head(todo) \in Plain => Has(todo, Plain)
    BY <2>0, HasHead
  <2>4. QED BY <1>1, <1>2, <2>0, <2>1, <2>2, <2>3 DEF CrossOK
<1>5. CASE Prepare
  <2>1. op' = Idle /\ UNCHANGED <<mg, src>>
    BY <1>5 DEF Prepare, Enters
  <2>2. todo \in Seq(Calls) BY <1>0 DEF PlanType
  <2>3. On("try") \notin Crosses \cup Plain /\ Off("try") \notin Crosses \cup Plain
    BY DEF On, Off, Crosses, Plain, Migrate, Cross
  <2>4. (Has(todo', Crosses) <=> Has(todo, Crosses)) /\ (Has(todo', Plain) <=> Has(todo, Plain))
    <3>1. Has(<<On("try")>> \o todo, Crosses) <=> On("try") \in Crosses \/ Has(todo, Crosses)
      BY <2>2, MadeCalls, HasCons, ZenonT(30)
    <3>2. Has(<<Off("try"), On("try")>> \o todo, Crosses)
            <=> Off("try") \in Crosses \/ On("try") \in Crosses \/ Has(todo, Crosses)
      BY <2>2, MadeCalls, HasCons2, ZenonT(30)
    <3>3. Has(<<On("try")>> \o todo, Plain) <=> On("try") \in Plain \/ Has(todo, Plain)
      BY <2>2, MadeCalls, HasCons, ZenonT(30)
    <3>4. Has(<<Off("try"), On("try")>> \o todo, Plain)
            <=> Off("try") \in Plain \/ On("try") \in Plain \/ Has(todo, Plain)
      BY <2>2, MadeCalls, HasCons2, ZenonT(30)
    <3>5. QED BY <1>5, <2>3, <3>1, <3>2, <3>3, <3>4 DEF Prepare
  <2>5. Followed(todo', {Cross("local")}, Crosses)
    <3> DEFINE L == {Cross("local")}
    <3>0. On("try") \notin L /\ Off("try") \notin L BY <1>2, <2>3
    <3> HIDE DEF L
    <3>1. Followed(<<On("try")>> \o todo, L, Crosses) <=>
            (On("try") \in L => Has(todo, Crosses)) /\ Followed(todo, L, Crosses)
      BY <2>2, MadeCalls, HasCons, ZenonT(30)
    <3>2. Followed(<<Off("try"), On("try")>> \o todo, L, Crosses) <=>
            (Off("try") \in L => On("try") \in Crosses \/ Has(todo, Crosses))
            /\ Followed(<<On("try")>> \o todo, L, Crosses)
      BY <2>2, MadeCalls, HasCons2, SMTT(30)
    <3>3. Followed(todo, L, Crosses) BY DEF CrossOK, L
    <3>4. Followed(todo', L, Crosses)
      BY <1>5, <3>0, <3>1, <3>2, <3>3 DEF Prepare
    <3>5. QED BY <3>4 DEF L
  <2>6. QED BY <1>1, <1>2, <2>1, <2>4, <2>5 DEF CrossOK
<1>6. CASE Stays
  BY <1>6 DEF Stays, CrossOK
<1>7. CASE Ends
  BY <1>1, <1>2, <1>7 DEF Ends, CrossOK
<1>8. CASE Moves
  <2>1. op' \notin Crosses /\ op' \notin Plain
    BY <1>8 DEF Moves, Idle, None, Crosses, Plain, Migrate, Cross, Off, On
  <2>2. QED BY <1>2, <1>8, <2>1 DEF Moves, CrossOK
<1>9. CASE Renames
  <2>1. op \in Plain
    BY <1>0, <1>9, TypeParts, Named DEF Renames, CallType, OpOK, Migrations, Crosses, Plain, Migrate,
       Cross, Idle, None
  <2>2. QED BY <1>1, <1>2, <1>9, <2>1 DEF Renames, CrossOK
<1>10. CASE Excepts
  <2>1. op' = Idle /\ UNCHANGED <<mg, src>>
    BY <1>10 DEF Excepts
  <2>2. CASE todo' = <<>>
    <3>1. Followed(<<>>, {Cross("local")}, Crosses) BY DEF Followed
    <3>2. QED BY <1>1, <1>2, <2>1, <2>2, <3>1, EmptyHas DEF CrossOK
  <2>3. CASE UNCHANGED todo
    BY <1>1, <1>2, <2>1, <2>3 DEF CrossOK
  <2>4. CASE todo # <<>> /\ todo' = Tail(todo)
    <3>0. todo \in Seq(Calls) BY <1>0 DEF PlanType
    <3>1. Followed(todo', {Cross("local")}, Crosses)
      BY <2>4, <3>0, FollowedHead DEF CrossOK
    <3>2. (Has(todo', Crosses) => Has(todo, Crosses)) /\ (Has(todo', Plain) => Has(todo, Plain))
      BY <2>4, <3>0, HasHead
    <3>3. QED BY <1>1, <1>2, <2>1, <3>1, <3>2 DEF CrossOK
  <2>5. QED BY <1>10, <2>2, <2>3, <2>4 DEF Excepts, AfterTry
<1>11. QED
  BY <1>0, <1>3, <1>4, <1>5, <1>6, <1>7, <1>8, <1>9, <1>10, Effects

\* The HMC object names the system of the partition, which nothing moves.
NamedOK == at # mg \/ moving # None => failed \/ unchecked \/ Migrates \/ Has(todo, Crosses)

\* A migration that raises fails its test, and only a migration, or the HMC, moves
\* the partition.
LEMMA MigrationRaises ==
    ASSUME Shape, Migrates, Raises PROVE failed' = TRUE
<1>0. HistoryType BY TypeParts DEF Shape
<1>1. op # Idle BY DEF Migrates, Idle, None
<1>2. ~Caught
  BY <1>1, OpNamed DEF Migrates, Migrations, Crosses, Cross, Migrate, Off, On, Do
<1>3. QED BY <1>0, <1>2, Zenon DEF Raises, HistoryType

LEMMA NothingMoves ==
    ASSUME Shape, [Next]_vars, ~Start, ~CheckState, ~StopMigration, ~Recover, ~MigrationEnds
    PROVE  UNCHANGED <<at, moving, unchecked>> /\ (Migrates => Raises \/ UNCHANGED <<op, mg>>)
<1>0. OpOK BY DEF Shape
<1> USE DEF partition, history, call
<1>1. CASE BeginTest \/ Call \/ Prepare \/ LookAtState \/ LookAtRefcode \/ LookAtSystem \/ LookFails
           \/ Decide \/ ErrorClears \/ GoesOn \/ PowerOn \/ Waited \/ PowerSystem \/ OverSSH \/ Kick
           \/ Shutdown
  <2>1. ~Migrates
    BY <1>0, <1>1, IdleNamed DEF BeginTest, Call, Ready, Prepare, LookAtState, LookAtRefcode,
       LookAtSystem, LookFails, Decide, ErrorClears, GoesOn, PowerOn, Waited, PowerSystem, OverSSH,
       Kick, Shutdown, Looked, OpOK, Looking, Migrating, Migrates
  <2>2. UNCHANGED <<at, moving>>
    BY <1>1 DEF BeginTest, Call, Prepare, LookAtState, LookAtRefcode,
       LookAtSystem, LookFails, Decide, ErrorClears, GoesOn, PowerOn, Waited, PowerSystem, OverSSH,
       Kick, Shutdown
  <2>3. UNCHANGED unchecked
    BY <1>1 DEF BeginTest, Call, Prepare, LookAtState, LookAtRefcode,
       LookAtSystem, LookFails, Decide, ErrorClears, GoesOn, PowerOn, Waited, PowerSystem, OverSSH,
       Kick, Shutdown, Raises, Breaks
  <2>4. QED BY <2>1, <2>2, <2>3
<1>2. CASE MigrationFails \/ FindsIt \/ Validate \/ Check
  BY <1>2 DEF MigrationFails, FindsIt, Validate, Check, Raises
<1>3. CASE Detect \/ Stopped \/ RunUNKNOWN \/ RunOS \/ RunPOWERINGOFF \/ RunOFF
           \/ Booted \/ BootOverdue \/ BootFails
  <2>1. ~Migrates
    BY <1>3, IdleNamed DEF Detect, Stopped, RunUNKNOWN, RunOS, RunPOWERINGOFF, RunOFF, Booted,
       BootOverdue, BootFails, In
  <2>2. QED
    BY <1>3, <2>1 DEF Detect, Stopped, RunUNKNOWN, RunOS, RunPOWERINGOFF, RunOFF, Booted,
       BootOverdue, BootFails, Raises
<1>4. CASE BeginsOff \/ BeginsOn \/ BeginsRestart \/ Progresses \/ Crashes \/ SystemGoesOff
           \/ SystemComesUp \/ UNCHANGED vars
  BY <1>4 DEF BeginsOff, BeginsOn, BeginsRestart, Progresses, Crashes, SystemGoesOff,
     SystemComesUp, optest, vars
<1>5. QED BY <1>1, <1>2, <1>3, <1>4 DEF Next, OpTest, Environment

LEMMA NamedStep ==
    ASSUME Shape, CrossOK, NamedOK, [Next]_vars PROVE NamedOK'
<1>0. PlanType /\ OpOK /\ GoalOK /\ TypeOK /\ HistoryType
  BY TypeParts DEF Shape
<1>1. CASE Start /\ ~Raises
  <2>1. CASE op[1] = "migrate" /\ UNCHANGED op
    BY <2>1 DEF NamedOK, Migrates
  <2>2. CASE unchecked'
    BY <2>2 DEF NamedOK
  <2>3. CASE op[1] = "crossmigrate" /\ at' = Dest /\ UNCHANGED <<mg, todo>> /\ moving' = None
    <3>1. op \in Crosses /\ (op = Cross("local") \/ Dest = src)
      BY <1>0, <2>3, TypeParts, Named DEF CallType, Idle, None, Crosses, Cross, Dest
    <3>2. QED BY <2>3, <3>1 DEF CrossOK, NamedOK
  <2>4. QED BY <1>1, <2>1, <2>2, <2>3 DEF Start, runner
<1>2. CASE CheckState
  <2>1. CASE Over /\ mg' = Dest
    BY <1>2, <2>1 DEF CheckState, Over, Listed, partition, NamedOK
  <2>2. CASE UNCHANGED op
    BY <1>0, <1>2, <2>2 DEF CheckState, NamedOK, OpOK, Migrates, Migrating
  <2>3. QED BY <1>2, <2>1, <2>2 DEF CheckState, Names
<1>3. CASE StopMigration
  BY <1>0, <1>3 DEF StopMigration, OpOK, Migrates, NamedOK
<1>4. CASE MigrationEnds
  <2>1. moving # None /\ UNCHANGED <<op, todo, failed, unchecked>>
    BY <1>4 DEF MigrationEnds, optest, call, runner, history, None
  <2>2. QED BY <2>1 DEF NamedOK, Migrates
<1>5. CASE Recover \/ (Start /\ Raises)
  <2>1. Migrates /\ Raises
    BY <1>0, <1>5 DEF Recover, Start, OpOK, Migrating, Migrates
  <2>2. QED BY <2>1, MigrationRaises DEF NamedOK
<1>6. CASE ~Start /\ ~CheckState /\ ~StopMigration /\ ~Recover /\ ~MigrationEnds
  <2>0. UNCHANGED <<at, moving, unchecked>> /\ (Migrates => Raises \/ UNCHANGED <<op, mg>>)
    BY <1>6, NothingMoves
  <2>1. CASE Migrates
    <3>1. CASE Raises
      BY <2>1, <3>1, MigrationRaises DEF NamedOK
    <3>2. CASE UNCHANGED op
      BY <2>1, <3>2 DEF NamedOK, Migrates
    <3>3. QED BY <2>0, <2>1, <3>1, <3>2
  <2>2. CASE BeginTest
    BY <2>0, <2>2, IdleNamed, EmptyHas DEF BeginTest, Ready, history, NamedOK
  <2>3. CASE Call
    <3>0. todo # <<>> /\ todo \in Seq(Calls) /\ todo' = Tail(todo) /\ op = Idle
          /\ UNCHANGED <<mg, failed>>
      BY <1>0, <2>3 DEF Call, Ready, PlanType, history
    <3>1. Head(todo) \in Crosses => Migrates'
      BY <2>3, Boundaries DEF Call, Crosses, Cross, Migrates
    <3>2. Has(todo, Crosses) => Head(todo) \in Crosses \/ Has(todo', Crosses)
      BY <3>0, HasHead
    <3>3. ~Migrates BY <3>0, IdleNamed
    <3>4. QED BY <2>0, <3>0, <3>1, <3>2, <3>3 DEF NamedOK
  <2>4. CASE Prepare
    <3>1. ~Migrates /\ UNCHANGED <<mg, failed>> BY <2>4 DEF Prepare, history, Migrates
    <3>2. todo \in Seq(Calls) BY <1>0 DEF PlanType
    <3>3. Has(<<On("try")>> \o todo, Crosses) <=> On("try") \in Crosses \/ Has(todo, Crosses)
      BY <3>2, MadeCalls, HasCons, ZenonT(30)
    <3>4. Has(<<Off("try"), On("try")>> \o todo, Crosses)
            <=> Off("try") \in Crosses \/ On("try") \in Crosses \/ Has(todo, Crosses)
      BY <3>2, MadeCalls, HasCons2, ZenonT(30)
    <3>5. Has(todo, Crosses) => Has(todo', Crosses)
      BY <2>4, <3>3, <3>4 DEF Prepare
    <3>6. QED BY <2>0, <3>1, <3>5 DEF NamedOK
  <2>5. CASE ~Migrates /\ (Stays \/ Ends \/ Moves)
    BY <2>0, <2>5 DEF Stays, Ends, Moves, NamedOK
  <2>6. CASE ~Migrates /\ Excepts
    <3>1. CASE Caught /\ todo' = AfterTry /\ UNCHANGED failed
      <4>1. todo \in Seq(Calls) BY <1>0 DEF PlanType
      <4>2. todo # <<>> /\ Head(todo)[2] = "try" => Head(todo) \notin Crosses
        BY DEF Crosses, Cross
      <4>3. Has(todo, Crosses) => Has(todo', Crosses)
        BY <3>1, <4>1, <4>2, HasHead DEF AfterTry
      <4>4. UNCHANGED mg BY <2>6 DEF Excepts
      <4>5. QED BY <2>0, <2>6, <3>1, <4>3, <4>4 DEF NamedOK
    <3>2. CASE failed'
      BY <3>2 DEF NamedOK
    <3>3. QED BY <2>6, <3>1, <3>2 DEF Excepts
  <2>7. CASE Renames
    BY <2>1, <2>7 DEF Renames, Migrates
  <2>8. QED
    BY <1>0, <2>1, <2>2, <2>3, <2>4, <2>5, <2>6, <2>7, Effects
<1>7. QED BY <1>1, <1>2, <1>3, <1>4, <1>5, <1>6

LEMMA NamedInit == Init => CrossOK /\ NamedOK
<1> SUFFICES ASSUME Init PROVE CrossOK /\ NamedOK
  OBVIOUS
<1>0. todo = <<>> /\ op = Idle BY DEF Init
<1>1. Followed(<<>>, {Cross("local")}, Crosses)
  BY DEF Followed
<1>2. op # Cross("local") /\ op \notin Crosses
  BY <1>0 DEF Cross, Crosses, Idle, None
<1>3. QED BY <1>0, <1>1, <1>2, EmptyHas DEF Init, CrossOK, NamedOK

\* The HMC object names the system the partition is on, or a test has failed.
THEOREM NamedOrReported == Spec => []MisnamedIsReported
<1> DEFINE I == Shape /\ CrossOK /\ NamedOK
<1>1. Init => I BY TypeInit, NamedInit DEF Shape
<1>2. I /\ [Next]_vars => I' BY ShapeStep, CrossStep, NamedStep
<1>3. I => MisnamedIsReported
  <2> SUFFICES ASSUME I PROVE MisnamedIsReported
    OBVIOUS
  <2>1. todo \in Seq(Calls) BY TypeParts DEF Shape, PlanType
  <2>2. \A i \in DOMAIN todo : todo[i] \in Calls BY <2>1
  <2>3. Has(todo, Crosses) => \E i \in DOMAIN todo : todo[i][1] = "crossmigrate"
    BY <2>2, Named DEF Has
  <2>4. QED BY <2>3 DEF NamedOK, MisnamedIsReported, UnderWay
<1> HIDE DEF I
<1>4. QED BY <1>1, <1>2, <1>3, PTL DEF Spec

-----------------------------------------------------------------------------
(* Tests that all pass                                                     *)

Ups == {On("local"), On("remote"), Do("kick")}
Sys == {Do("sysoff"), Do("syson")}
SysOff == {Do("sysoff")}
SysOn == {Do("syson")}
There == {Migrate("local")}
Back == {Migrate("remote")}
Prepares == {Do("prepare")}
SecureRest == Tail(SecureBoot)
Tries == {Off("try"), On("try")}
TryOn == <<On("try")>> \o SecureRest
TryOff == <<Off("try")>> \o TryOn
Rest16G == Tail(Tail(Hugepage16G))

\* What a test takes down or moves away it has still to bring back.
PlanOK ==
    /\ Followed(todo, There, Back)
    /\ Followed(todo, SysOff, SysOn)
    /\ Followed(todo, Offs, Ups)
    /\ op \in There => Has(todo, Back)
    /\ op \in SysOff => Has(todo, SysOn)
    /\ op \in Offs /\ goal = None => Has(todo, Ups)
    /\ op \in Sys \/ Has(todo, Sys) => op \notin Plain /\ ~Has(todo, Plain)

\* What setUp() of the secure boot tests may fail at is followed by these tests.
TryOK ==
    /\ op \in {Do("prepare"), On("try")} => todo = SecureRest
    /\ op = Off("try") => todo = TryOn
    /\ Has(todo, Tries) => todo \in {TryOn, TryOff}
    /\ Has(todo, Prepares) => todo = SecureBoot /\ Ready

\* A test that switches its system off has its partition off, or brings it up.
SysOK ==
    /\ Has(todo, SysOff) =>
        \/ todo \in {CecConfig, Hugepage16G, Tail(Hugepage16G)}
        \/ todo = Rest16G /\ (goal = "OFF" \/ (goal = None /\ state = "OFF"))
    /\ op \in SysOff => Has(todo, Ups) \/ state = "OFF"

\* The first of the calls left that powers the partition on or off powers it off.
OffFirst(t) ==
    \E i \in DOMAIN t : t[i] \in Offs /\ \A j \in 1 .. i - 1 : t[j] \notin Ons

LEMMA OffFirstHead ==
    ASSUME NEW t \in Seq(Calls), t # <<>>
    PROVE  OffFirst(t) <=> Head(t) \in Offs \/ (Head(t) \notin Ons /\ OffFirst(Tail(t)))
<1> USE Heads
<1>1. ASSUME OffFirst(t), Head(t) \notin Offs PROVE Head(t) \notin Ons /\ OffFirst(Tail(t))
  <2>1. PICK i \in DOMAIN t : t[i] \in Offs /\ \A j \in 1 .. i - 1 : t[j] \notin Ons
    BY <1>1 DEF OffFirst
  <2>2. i > 1 BY <1>1, <2>1
  <2>3. i - 1 \in DOMAIN Tail(t) /\ Tail(t)[i - 1] = t[i] BY <2>1, <2>2
  <2>4. \A j \in 1 .. (i - 1) - 1 : Tail(t)[j] = t[j + 1] /\ j + 1 \in 1 .. i - 1
    BY <2>1, <2>2
  <2>5. \A j \in 1 .. (i - 1) - 1 : Tail(t)[j] \notin Ons
    BY <2>1, <2>4
  <2>6. Head(t) \notin Ons BY <2>1, <2>2
  <2>7. OffFirst(Tail(t))
    BY <2>1, <2>3, <2>5 DEF OffFirst
  <2>8. QED BY <2>6, <2>7
<1>2. ASSUME Head(t) \in Offs PROVE OffFirst(t)
  <2>1. 1 \in DOMAIN t /\ \A j \in 1 .. 1 - 1 : t[j] \notin Ons OBVIOUS
  <2>2. QED BY <1>2, <2>1 DEF OffFirst
<1>3. ASSUME Head(t) \notin Ons, OffFirst(Tail(t)) PROVE OffFirst(t)
  <2>1. PICK i \in DOMAIN Tail(t) : Tail(t)[i] \in Offs /\ \A j \in 1 .. i - 1 : Tail(t)[j] \notin Ons
    BY <1>3 DEF OffFirst
  <2>2. i + 1 \in DOMAIN t /\ t[i + 1] \in Offs BY <2>1
  <2>3. ASSUME NEW j \in 1 .. (i + 1) - 1 PROVE t[j] \notin Ons
    <3>1. CASE j = 1 BY <1>3, <3>1
    <3>2. CASE j # 1
      <4>1. j - 1 \in 1 .. i - 1 /\ Tail(t)[j - 1] = t[j] BY <2>1, <3>2
      <4>2. QED BY <2>1, <4>1
    <3>3. QED BY <3>1, <3>2
  <2>4. QED BY <2>2, <2>3 DEF OffFirst
<1>4. QED BY <1>1, <1>2, <1>3

LEMMA OffFirstHas == \A t : OffFirst(t) => Has(t, Offs)
  BY DEF OffFirst, Has

\* Which calls are which.
LEMMA Different ==
    /\ Offs \cap Ons = {} /\ Offs \cap Ups = {} /\ Offs \cap Sys = {} /\ Offs \cap Plain = {}
    /\ Ons \cap Sys = {} /\ Ons \cap Plain = {} /\ Ups \cap Sys = {} /\ Ups \cap Plain = {}
    /\ Sys \cap Plain = {}
    /\ There \subseteq Plain /\ Back \subseteq Plain /\ SysOff \subseteq Sys /\ SysOn \subseteq Sys
    /\ SysOff \cap SysOn = {}
    /\ Prepares \cap (Offs \cup Ons \cup Ups \cup Sys \cup Plain) = {}
    /\ Gotos \cap (Offs \cup Ons \cup Ups \cup Sys \cup Plain \cup Prepares) = {}
    /\ On("try") \in Ons /\ On("try") \notin Ups /\ Off("try") \in Offs
    /\ Off("try") \notin Back /\ On("try") \notin Back
    /\ Idle \notin Offs \cup Ons \cup Ups \cup Sys \cup Plain \cup Prepares
    /\ Off("local") \in Offs /\ On("local") \in Ups /\ On("local") \in Ons
    /\ Off("try") # On("try") /\ Off("local") # Off("try") /\ On("local") # On("try")
  BY DEF Offs, Ons, Ups, Sys, SysOff, SysOn, There, Back, Plain, Prepares, Gotos, Idle, None,
         On, Off, Do, Migrate, Goto

LEMMA SecureBootParts ==
    /\ SecureBoot \in Seq(Calls) /\ SecureBoot # <<>> /\ Head(SecureBoot) = Do("prepare")
    /\ SecureRest \in Seq(Calls) /\ SecureRest # <<>> /\ Head(SecureRest) = Goto("OS")
    /\ ~Has(SecureRest, Prepares) /\ ~Has(SecureRest, Sys) /\ ~Has(SecureRest, Plain)
    /\ ~Has(SecureRest, Tries)
    /\ Has(SecureRest, Ups) /\ OffFirst(SecureRest)
    /\ Followed(SecureRest, Offs, Ups)
<1> DEFINE s == <<Goto("OS"), Off("local"), On("local"), Goto("OS"), Off("local"), On("local"),
                  Off("local"), On("local")>>
<1>1. SecureRest = s /\ SecureBoot # <<>> /\ Head(SecureBoot) = Do("prepare")
  BY DEF SecureRest, SecureBoot
<1>2. SecureBoot \in Seq(Calls) BY MadeCalls DEF SecureBoot
<1>3. s \in Seq(Calls) /\ s # <<>> /\ Head(s) = Goto("OS") BY MadeCalls
<1>4. ~Has(s, Prepares) /\ ~Has(s, Sys) /\ ~Has(s, Plain) /\ ~Has(s, Tries) /\ Has(s, Ups)
  BY DEF Has, Prepares, Sys, Plain, Tries, Ups, Goto, Off, On, Do, Migrate
<1>5. OffFirst(s)
  BY DEF OffFirst, Offs, Ons, Goto, Off, On
<1>6. Followed(s, Offs, Ups)
  BY DEF Followed, Offs, Ups, Goto, Off, On, Do
<1>7. QED BY <1>1, <1>2, <1>3, <1>4, <1>5, <1>6

LEMMA TryParts ==
    /\ TryOn \in Seq(Calls) /\ TryOn # <<>> /\ Head(TryOn) = On("try") /\ Tail(TryOn) = SecureRest
    /\ TryOff \in Seq(Calls) /\ TryOff # <<>> /\ Head(TryOff) = Off("try") /\ Tail(TryOff) = TryOn
    /\ \A t \in {TryOn, TryOff} :
        /\ ~Has(t, Prepares) /\ ~Has(t, Sys) /\ ~Has(t, Plain) /\ Has(t, Ups)
        /\ Followed(t, Offs, Ups) /\ Followed(t, There, Back) /\ Followed(t, SysOff, SysOn)
    /\ OffFirst(TryOff)
<1>1. TryOn \in Seq(Calls) /\ TryOn # <<>> /\ Head(TryOn) = On("try") /\ Tail(TryOn) = SecureRest
  BY Cons, SecureBootParts, MadeCalls DEF TryOn
<1>2. TryOff \in Seq(Calls) /\ TryOff # <<>> /\ Head(TryOff) = Off("try") /\ Tail(TryOff) = TryOn
  BY <1>1, Cons, MadeCalls DEF TryOff
<1>3. \A A : /\ Has(TryOn, A) <=> On("try") \in A \/ Has(SecureRest, A)
             /\ Has(TryOff, A) <=> Off("try") \in A \/ Has(TryOn, A)
  BY <1>1, <1>2, HasHead, ZenonT(30)
<1>4. \A t \in {TryOn, TryOff} :
        ~Has(t, Prepares) /\ ~Has(t, Sys) /\ ~Has(t, Plain) /\ Has(t, Ups)
  BY <1>3, SecureBootParts, Different
<1>5. Followed(TryOn, Offs, Ups) /\ Followed(TryOff, Offs, Ups)
  BY <1>1, <1>2, <1>4, FollowedHead, SecureBootParts, Different
<1>6. \A t \in {TryOn, TryOff} : Followed(t, There, Back) /\ Followed(t, SysOff, SysOn)
  BY <1>4, Different DEF Followed, Has
<1>7. OffFirst(TryOff)
  BY <1>2, OffFirstHead, Different
<1>8. QED BY <1>1, <1>2, <1>4, <1>5, <1>6, <1>7

LEMMA ProgramsBringBack ==
    \A k \in Kinds : /\ Followed(Program[k], There, Back)
                     /\ Followed(Program[k], SysOff, SysOn)
                     /\ Followed(Program[k], Offs, Ups)
                     /\ Has(Program[k], Sys) => ~Has(Program[k], Plain)
<1> DEFINE Fine(t) == /\ Followed(t, There, Back)
                      /\ Followed(t, SysOff, SysOn)
                      /\ Followed(t, Offs, Ups)
                      /\ Has(t, Sys) => ~Has(t, Plain)
<1> USE DEF Has, Followed, There, Back, SysOff, SysOn, Offs, Ups, Sys, Plain, Goto, Off, On,
            Migrate, Cross, Do
<1>1. Fine(PowerCycle) /\ Fine(RestoreConfig) /\ Fine(OnlyKdumpEnable)
  BY DEF PowerCycle, RestoreConfig, OnlyKdumpEnable
<1>2. Fine(SecureBoot)
  BY DEF SecureBoot
<1>3. Fine(Hugepage16G) /\ Fine(CecConfig)
  BY DEF Hugepage16G, CecConfig
<1>4. Fine(ActiveMigration) /\ Fine(CrossMigration)
  BY DEF ActiveMigration, CrossMigration
<1>5. Fine(InactiveMigration)
  BY DEF InactiveMigration
<1>6. Fine(ColdMigration)
  BY DEF ColdMigration
<1> HIDE DEF Fine
<1>7. \A k \in Kinds : Fine(Program[k])
  BY <1>1, <1>2, <1>3, <1>4, <1>5, <1>6, TestsAssumption DEF Program
<1>8. QED BY <1>7 DEF Fine

\* How the tests begin, and which of them prepare or switch a system off.
LEMMA ProgramsBegin ==
    \A k \in Kinds : /\ Program[k] # <<>>
                     /\ ~Has(Program[k], Tries)
                     /\ Has(Program[k], Prepares) => Program[k] = SecureBoot
                     /\ Has(Program[k], SysOff) => Program[k] \in {CecConfig, Hugepage16G}
<1> DEFINE Fine(t) == /\ t # <<>>
                      /\ ~Has(t, Tries)
                      /\ Has(t, Prepares) => t = SecureBoot
                      /\ Has(t, SysOff) => t \in {CecConfig, Hugepage16G}
<1> USE DEF Has, SysOff, Prepares, Tries, Goto, Off, On, Migrate, Cross, Do
<1>1. Fine(PowerCycle) /\ Fine(RestoreConfig) /\ Fine(OnlyKdumpEnable)
  BY DEF PowerCycle, RestoreConfig, OnlyKdumpEnable
<1>2. Fine(SecureBoot)
  <2>1. SecureBoot # <<>> /\ ~Has(SecureBoot, Tries)
    BY DEF SecureBoot
  <2>2. ~Has(SecureBoot, SysOff)
    BY DEF SecureBoot
  <2>3. QED BY <2>1, <2>2
<1>3. Fine(Hugepage16G) /\ Fine(CecConfig)
  <2>1. /\ Hugepage16G # <<>> /\ ~Has(Hugepage16G, Tries)
        /\ CecConfig # <<>> /\ ~Has(CecConfig, Tries)
    BY DEF Hugepage16G, CecConfig
  <2>2. ~Has(Hugepage16G, Prepares) /\ ~Has(CecConfig, Prepares)
    BY DEF Hugepage16G, CecConfig
  <2>3. QED BY <2>1, <2>2
<1>4. Fine(ActiveMigration) /\ Fine(CrossMigration)
  BY DEF ActiveMigration, CrossMigration
<1>5. Fine(InactiveMigration)
  BY DEF InactiveMigration
<1>6. Fine(ColdMigration)
  BY DEF ColdMigration
<1> HIDE DEF Fine
<1>7. \A k \in Kinds : Fine(Program[k])
  BY <1>1, <1>2, <1>3, <1>4, <1>5, <1>6, TestsAssumption DEF Program
<1>8. QED BY <1>7 DEF Fine

LEMMA SystemTests ==
    /\ CecConfig # <<>> /\ Head(CecConfig) = Do("sysoff") /\ ~Has(Tail(CecConfig), SysOff)
    /\ Has(Tail(CecConfig), Ups)
    /\ Hugepage16G # <<>> /\ Head(Hugepage16G) = Goto("OS")
    /\ Tail(Hugepage16G) # <<>> /\ Head(Tail(Hugepage16G)) = Goto("OFF")
    /\ Rest16G # <<>> /\ Head(Rest16G) = Do("sysoff") /\ ~Has(Tail(Rest16G), SysOff)
<1>1. Tail(CecConfig) = <<Do("syson"), Do("kick")>> BY DEF CecConfig
<1>2. ~Has(Tail(CecConfig), SysOff) /\ Has(Tail(CecConfig), Ups)
  <2>1. ~Has(<<Do("syson"), Do("kick")>>, SysOff) BY DEF Has, SysOff, Do
  <2>2. Has(<<Do("syson"), Do("kick")>>, Ups)
    <3>1. 2 \in DOMAIN <<Do("syson"), Do("kick")>> /\ <<Do("syson"), Do("kick")>>[2] \in Ups
      BY DEF Ups
    <3>2. QED BY <3>1 DEF Has
  <2>3. QED BY <1>1, <2>1, <2>2
<1>3. Tail(Hugepage16G) = <<Goto("OFF"), Do("sysoff"), Do("syson"), Goto("OS")>>
      /\ Rest16G = <<Do("sysoff"), Do("syson"), Goto("OS")>>
      /\ Tail(Rest16G) = <<Do("syson"), Goto("OS")>>
  BY DEF Hugepage16G, Rest16G
<1>4. ~Has(Tail(Rest16G), SysOff)
  BY <1>3 DEF Has, SysOff, Do, Goto
<1>5. QED BY <1>2, <1>3, <1>4 DEF CecConfig, Hugepage16G

\* What becomes of the calls left.
LEMMA Pops ==
    ASSUME Shape, [Next]_vars
    PROVE  \/ BeginTest
           \/ Call
           \/ Prepare
           \/ UNCHANGED todo /\ UNCHANGED <<op, goal, state, failed>>
           \/ UNCHANGED todo /\ op' = Idle /\ UNCHANGED <<goal, state, failed>>
           \/ Moves
           \/ Excepts /\ Caught /\ op # Idle /\ goal = None /\ UNCHANGED <<todo, goal, state, failed>>
           \/ /\ Excepts /\ Caught /\ op # Idle /\ goal = None /\ UNCHANGED <<goal, state, failed>>
              /\ todo # <<>> /\ Head(todo)[2] = "try" /\ todo' = Tail(todo)
           \/ Excepts /\ todo' = <<>> /\ failed'
<1>1. Caught => op # Idle /\ goal = None
  BY OpNamed, IdleNamed
<1>2. Excepts /\ goal = None => UNCHANGED <<goal, state>> BY DEF Excepts
<1>3. CASE Excepts /\ Caught /\ todo' = AfterTry /\ UNCHANGED failed
  <2>1. op # Idle /\ goal = None /\ UNCHANGED <<goal, state>> BY <1>1, <1>2, <1>3
  <2>2. CASE todo # <<>> /\ Head(todo)[2] = "try"
    BY <1>3, <2>1, <2>2 DEF AfterTry
  <2>3. CASE ~(todo # <<>> /\ Head(todo)[2] = "try")
    BY <1>3, <2>1, <2>3 DEF AfterTry
  <2>4. QED BY <2>2, <2>3
<1>4. CASE Excepts /\ todo' = <<>> /\ failed'
  BY <1>4
<1>5. CASE Excepts
  BY <1>3, <1>4, <1>5 DEF Excepts
<1>6. QED BY <1>5, Effects DEF Shape, Stays, Ends, Renames

\* A call that a test makes.
LEMMA Calling ==
    ASSUME Shape, Call
    PROVE  /\ todo # <<>> /\ todo \in Seq(Calls) /\ todo' = Tail(todo) /\ op = Idle /\ goal = None
           /\ Head(todo) \in Calls
           /\ \/ Head(todo) \in Gotos /\ op' = Idle /\ UNCHANGED step /\ Head(todo) = Goto(goal')
              \/ Head(todo) \notin Gotos /\ op' = Head(todo) /\ goal' = None
                 /\ step' = FirstStep(Head(todo)[1])
           /\ UNCHANGED <<src, mg, state, part, cec, asked, at, moving,
                          failed, crashed, blind, unwaited, unchecked>>
<1>1. todo # <<>> /\ todo \in Seq(Calls) /\ todo' = Tail(todo) /\ op = Idle /\ goal = None
      /\ UNCHANGED <<src, mg, state, part, cec, asked, at, moving,
                     failed, crashed, blind, unwaited, unchecked>>
  BY TypeParts DEF Shape, Call, Ready, PlanType, partition, history
<1>2. Head(todo) \in Calls BY <1>1, Heads
<1>3. CASE Head(todo)[1] = "goto"
  <2>1. Head(todo) \in Gotos /\ Head(todo) = <<Head(todo)[1], Head(todo)[2]>> BY <1>2, <1>3, Named, CallParts
  <2>2. goal' = Head(todo)[2] /\ op' = Idle /\ UNCHANGED step BY <1>1, <1>3 DEF Call, call
  <2>3. QED BY <1>1, <1>2, <1>3, <2>1, <2>2 DEF Goto
<1>4. CASE Head(todo)[1] # "goto"
  <2>1. Head(todo) \notin Gotos BY <1>2, <1>4, Named
  <2>2. op' = Head(todo) /\ goal' = None /\ step' = FirstStep(Head(todo)[1])
    BY <1>1, <1>4, Boundaries DEF Call
  <2>3. QED BY <1>1, <1>2, <2>1, <2>2
<1>5. QED BY <1>3, <1>4

\* A setUp() that prepares has found the partition off, in Open Firmware or up.
LEMMA Preparing ==
    ASSUME Shape, TryOK, Prepare
    PROVE  /\ op = Do("prepare") /\ op' = Idle /\ todo = SecureRest /\ goal = None
           /\ todo' \in {SecureRest, TryOn, TryOff}
           /\ UNCHANGED <<src, mg, goal, state, part, cec, asked, at, moving,
                          failed, crashed, blind, unwaited, unchecked>>
<1>1. op[1] = "prepare" /\ op' = Idle
      /\ UNCHANGED <<src, mg, goal, state, part, cec, asked, at, moving,
                     failed, crashed, blind, unwaited, unchecked>>
  BY DEF Prepare, Enters, machine, partition, history
<1>2. op = Do("prepare") BY <1>1, OpNamed DEF Idle, None
<1>3. goal = None BY <1>2 DEF Shape, GoalOK, Do, Idle, Off, On, None
<1>4. todo = SecureRest BY <1>2 DEF TryOK
<1>5. \/ todo' = todo
      \/ todo' = <<On("try")>> \o todo
      \/ todo' = <<Off("try"), On("try")>> \o todo
  BY DEF Prepare
<1>6. <<Off("try"), On("try")>> \o SecureRest = TryOff
  <2>1. SecureRest \in Seq(Calls) /\ Off("try") \in Calls /\ On("try") \in Calls
    BY SecureBootParts, MadeCalls
  <2>2. QED BY <2>1, Cons2, Zenon DEF TryOn, TryOff
<1>7. QED BY <1>1, <1>2, <1>3, <1>4, <1>5, <1>6 DEF TryOn

LEMMA TryStep ==
    ASSUME Shape, TryOK, [Next]_vars PROVE TryOK'
<1>0. op' = Idle => op' \notin {Do("prepare"), On("try"), Off("try")}
  BY DEF Idle, None, Do, On, Off
<1>1. CASE BeginTest
  <2>1. PICK k \in Kinds : todo' = Program[k] BY <1>1 DEF BeginTest
  <2>2. op' = Idle /\ Ready' BY <1>1 DEF BeginTest, Ready, call, machine
  <2>3. QED BY <1>0, <2>1, <2>2, ProgramsBegin DEF TryOK
<1>2. CASE Call
  <2>1. Has(todo', Prepares) => Has(todo, Prepares)
    BY <1>2, Calling, HasHead
  <2>2. Has(todo, Prepares) => todo' = SecureRest /\ Head(todo) = Do("prepare")
    BY <1>2, Calling, SecureBootParts DEF TryOK, SecureRest
  <2>3. ~Has(todo', Prepares) BY <2>1, <2>2, SecureBootParts
  <2>4. Head(todo) = Do("prepare") => Has(todo, Prepares)
    BY <1>2, Calling, HasHead DEF Prepares
  <2>5. Has(todo', Tries) \/ Head(todo) \in Tries => Has(todo, Tries)
    BY <1>2, Calling, HasHead
  <2>6. Has(todo, Tries) =>
            \/ todo' = SecureRest /\ Head(todo) = On("try")
            \/ todo' = TryOn /\ Head(todo) = Off("try")
    BY <1>2, Calling, TryParts DEF TryOK
  <2>7. op' = Do("prepare") => todo' = SecureRest
    BY <1>0, <1>2, <2>2, <2>4, Calling
  <2>8. (op' = On("try") => todo' = SecureRest) /\ (op' = Off("try") => todo' = TryOn)
    BY <1>0, <1>2, <2>5, <2>6, Calling, Different DEF Tries
  <2>9. Has(todo', Tries) => todo' \in {TryOn, TryOff}
    BY <2>5, <2>6, SecureBootParts
  <2>10. QED BY <2>3, <2>7, <2>8, <2>9 DEF TryOK
<1>3. CASE Prepare
  <2>1. op' = Idle /\ todo' \in {SecureRest, TryOn, TryOff} BY <1>3, Preparing
  <2>2. QED BY <1>0, <2>1, SecureBootParts, TryParts DEF TryOK
<1>4. CASE UNCHANGED <<todo, op, goal>>
  BY <1>4 DEF TryOK, Ready
<1>5. CASE UNCHANGED <<todo, goal>> /\ op' = Idle
  BY <1>0, <1>5 DEF TryOK, Ready
<1>6. CASE Moves
  <2>1. op' \notin {Do("prepare"), On("try"), Off("try")}
    BY <1>0, <1>6 DEF Moves, Do, On, Off
  <2>2. QED BY <1>6, <2>1 DEF Moves, TryOK, Ready
<1>7. CASE Excepts /\ Caught /\ op # Idle /\ UNCHANGED <<todo, goal>>
  BY <1>0, <1>7 DEF Excepts, TryOK, Ready
<1>8. CASE Excepts /\ todo # <<>> /\ Head(todo)[2] = "try" /\ todo' = Tail(todo)
  <2>1. op' = Idle BY <1>8 DEF Excepts
  <2>2. todo \in Seq(Calls) BY TypeParts DEF Shape, PlanType
  <2>3. Head(todo) \in Tries BY <1>8, <2>2, Heads, Named DEF Tries
  <2>4. Has(todo, Tries) BY <1>8, <2>2, <2>3, HasHead
  <2>5. todo' \in {SecureRest, TryOn} BY <1>8, <2>4, TryParts DEF TryOK
  <2>6. QED BY <1>0, <2>1, <2>5, SecureBootParts, TryParts DEF TryOK
<1>9. CASE Excepts /\ todo' = <<>>
  BY <1>0, <1>9, EmptyHas DEF Excepts, TryOK
<1>10. QED BY <1>1, <1>2, <1>3, <1>4, <1>5, <1>6, <1>7, <1>8, <1>9, Pops DEF Moves

LEMMA SysStep ==
    ASSUME Shape, TryOK, SysOK, [Next]_vars PROVE SysOK'
<1>0. op' = Idle => op' \notin SysOff
  BY DEF Idle, None, Do, SysOff
<1>1. CASE BeginTest
  <2>1. PICK k \in Kinds : todo' = Program[k] BY <1>1 DEF BeginTest
  <2>2. op' = Idle BY <1>1 DEF BeginTest, Ready, call
  <2>3. QED BY <1>0, <2>1, <2>2, ProgramsBegin DEF SysOK
<1>2. CASE Call
  <2>1. Has(todo', SysOff) \/ Head(todo) \in SysOff => Has(todo, SysOff)
    BY <1>2, Calling, HasHead
  <2>2. Has(todo, SysOff) =>
            \/ todo = CecConfig
            \/ todo = Hugepage16G /\ todo' = Tail(Hugepage16G) /\ Head(todo) = Goto("OS")
            \/ todo = Tail(Hugepage16G) /\ todo' = Rest16G /\ Head(todo) = Goto("OFF")
            \/ todo = Rest16G /\ state = "OFF"
    BY <1>2, Calling, SystemTests, ZenonT(30) DEF SysOK, None, Rest16G
  <2>3. Goto("OS") \in Gotos /\ Goto("OFF") \in Gotos BY DEF Gotos
  <2>4. Head(todo) = Goto("OFF") => goal' = "OFF"
    <3>1. Head(todo) = Goto("OFF") => Goto("OFF") = Goto(goal')
      BY <1>2, <2>3, Calling, Zenon
    <3>2. QED BY <3>1 DEF Goto
  <2>5. Has(todo', SysOff) =>
            \/ todo' = Tail(Hugepage16G)
            \/ todo' = Rest16G /\ goal' = "OFF"
    BY <1>2, <2>1, <2>2, <2>4, Calling, SystemTests
  <2>6. Goto("OS") \notin SysOff /\ Goto("OFF") \notin SysOff
    BY <2>3, Different
  <2>7. op' \in SysOff => Has(todo', Ups) \/ state' = "OFF"
    <3> SUFFICES ASSUME op' \in SysOff PROVE Has(todo', Ups) \/ state' = "OFF"
      OBVIOUS
    <3>1. op' = Head(todo) BY <1>0, <1>2, Calling
    <3>2. todo = CecConfig \/ state = "OFF" BY <2>1, <2>2, <2>6, <3>1
    <3>3. QED BY <1>2, <3>2, Calling, SystemTests
  <2>8. QED BY <2>5, <2>7 DEF SysOK
<1>3. CASE Prepare
  <2>1. op' = Idle /\ todo' \in {SecureRest, TryOn, TryOff} BY <1>3, Preparing
  <2>2. ~Has(todo', Sys) BY <2>1, SecureBootParts, TryParts
  <2>3. ~Has(todo', SysOff) BY <2>2 DEF Has, SysOff, Sys
  <2>4. QED BY <1>0, <2>1, <2>3 DEF SysOK
<1>4. CASE UNCHANGED <<todo, op, goal, state>>
  BY <1>4 DEF SysOK
<1>5. CASE UNCHANGED <<todo, goal, state>> /\ op' = Idle
  BY <1>0, <1>5 DEF SysOK
<1>6. CASE Moves
  <2>1. op' \notin SysOff
    BY <1>6 DEF Moves, SysOff, Do, On, Off, Idle, None
  <2>2. goal # None /\ (goal = "OFF" => goal' = "OFF" \/ (goal' = None /\ state' = "OFF"))
    BY <1>6 DEF Moves, To
  <2>3. QED BY <1>6, <2>1, <2>2 DEF Moves, SysOK
<1>7. CASE Excepts /\ Caught /\ op # Idle /\ UNCHANGED <<todo, goal, state>>
  BY <1>0, <1>7 DEF Excepts, SysOK
<1>8. CASE Excepts /\ todo # <<>> /\ Head(todo)[2] = "try" /\ todo' = Tail(todo)
  <2>1. op' = Idle BY <1>8 DEF Excepts
  <2>2. todo \in Seq(Calls) BY TypeParts DEF Shape, PlanType
  <2>3. Head(todo) \in Tries BY <1>8, <2>2, Heads, Named DEF Tries
  <2>4. Has(todo, Tries) BY <1>8, <2>2, <2>3, HasHead
  <2>5. todo' \in {SecureRest, TryOn} BY <1>8, <2>4, TryParts DEF TryOK
  <2>6. ~Has(todo', Sys) BY <2>5, SecureBootParts, TryParts
  <2>7. ~Has(todo', SysOff) BY <2>6 DEF Has, SysOff, Sys
  <2>8. QED BY <1>0, <2>1, <2>7 DEF SysOK
<1>9. CASE Excepts /\ todo' = <<>>
  BY <1>0, <1>9, EmptyHas DEF Excepts, SysOK
<1>10. QED BY <1>1, <1>2, <1>3, <1>4, <1>5, <1>6, <1>7, <1>8, <1>9, Pops

LEMMA PlanStep ==
    ASSUME Shape, TryOK, PlanOK, [Next]_vars PROVE PlanOK'
<1>0. op' = Idle => /\ op' \notin There /\ op' \notin SysOff /\ op' \notin Offs
                    /\ op' \notin Sys /\ op' \notin Plain
  BY Different
<1>1. CASE BeginTest
  <2>1. PICK k \in Kinds : todo' = Program[k] BY <1>1 DEF BeginTest
  <2>2. op' = Idle BY <1>1 DEF BeginTest, Ready, call
  <2>3. QED BY <1>0, <2>1, <2>2, ProgramsBringBack DEF PlanOK
<1>2. CASE Call
  <2>1. /\ todo # <<>> /\ todo \in Seq(Calls) /\ todo' = Tail(todo)
        /\ op' = Idle \/ op' = Head(todo)
    BY <1>2, Calling
  <2>2. Followed(todo', There, Back) /\ (Head(todo) \in There => Has(todo', Back))
    BY <2>1, FollowedHead DEF PlanOK
  <2>3. Followed(todo', SysOff, SysOn) /\ (Head(todo) \in SysOff => Has(todo', SysOn))
    BY <2>1, FollowedHead DEF PlanOK
  <2>4. Followed(todo', Offs, Ups) /\ (Head(todo) \in Offs => Has(todo', Ups))
    BY <2>1, FollowedHead DEF PlanOK
  <2>5. Has(todo', Sys) \/ Head(todo) \in Sys => Has(todo, Sys)
    BY <2>1, HasHead
  <2>6. Has(todo', Plain) \/ Head(todo) \in Plain => Has(todo, Plain)
    BY <2>1, HasHead
  <2>7. QED BY <1>0, <2>1, <2>2, <2>3, <2>4, <2>5, <2>6 DEF PlanOK
<1>3. CASE Prepare
  <2>1. op' = Idle /\ todo' \in {SecureRest, TryOn, TryOff} BY <1>3, Preparing
  <2>2. ~Has(todo', Sys) /\ ~Has(todo', Plain) /\ Followed(todo', Offs, Ups)
    BY <2>1, SecureBootParts, TryParts
  <2>3. Followed(todo', There, Back) /\ Followed(todo', SysOff, SysOn)
    BY <2>2, Different DEF Followed, Has
  <2>4. QED BY <1>0, <2>1, <2>2, <2>3 DEF PlanOK
<1>4. CASE UNCHANGED <<todo, op, goal>>
  BY <1>4 DEF PlanOK
<1>5. CASE UNCHANGED todo /\ op' = Idle
  BY <1>0, <1>5 DEF PlanOK
<1>6. CASE Moves
  <2>1. /\ op' \notin There /\ op' \notin SysOff /\ op' \notin Sys /\ op' \notin Plain
        /\ op' = Idle \/ goal' # None
    BY <1>0, <1>6, Different DEF Moves, Ups
  <2>2. QED BY <1>0, <1>6, <2>1 DEF Moves, PlanOK
<1>7. CASE Excepts /\ todo # <<>> /\ todo' = Tail(todo)
  <2>1. todo \in Seq(Calls) /\ op' = Idle BY <1>7, TypeParts DEF Excepts, Shape, PlanType
  <2>2. /\ Followed(todo', There, Back) /\ Followed(todo', SysOff, SysOn)
        /\ Followed(todo', Offs, Ups)
    BY <1>7, <2>1, FollowedHead DEF PlanOK
  <2>3. (Has(todo', Sys) => Has(todo, Sys)) /\ (Has(todo', Plain) => Has(todo, Plain))
    BY <1>7, <2>1, HasHead
  <2>4. QED BY <1>0, <2>1, <2>2, <2>3 DEF PlanOK
<1>8. CASE Excepts /\ todo' = <<>>
  <2>1. \A A, B : Followed(<<>>, A, B) BY DEF Followed
  <2>2. QED BY <1>0, <1>8, <2>1, EmptyHas DEF Excepts, PlanOK
<1>9. CASE Excepts /\ UNCHANGED todo
  BY <1>5, <1>9 DEF Excepts
<1>10. QED BY <1>1, <1>2, <1>3, <1>4, <1>5, <1>6, <1>7, <1>8, <1>9, Pops

\* The HMC object names the home system between the migrations of a test.
HomeOK ==
    ~failed => src = Home /\ (mg = Home \/ op \in Back \/ Has(todo, Back))

LEMMA HomeStep ==
    ASSUME Shape, TryOK, PlanOK, HomeOK, [Next]_vars PROVE HomeOK'
<1>0. Idle \notin Back BY Different
<1>1. CASE BeginTest
  <2>1. op = Idle /\ todo = <<>> /\ src' = mg /\ mg' = mg /\ UNCHANGED failed
    BY <1>1 DEF BeginTest, Ready, history
  <2>2. QED BY <1>0, <2>1, EmptyHas DEF HomeOK
<1>2. CASE Call
  <2>1. Has(todo, Back) => Head(todo) \in Back \/ Has(todo', Back)
    BY <1>2, Calling, HasHead
  <2>2. Head(todo) \in Back => op' = Head(todo)
    BY <1>2, Calling, Different
  <2>3. QED BY <1>0, <1>2, <2>1, <2>2, Calling DEF HomeOK
<1>3. CASE Prepare
  <2>1. op = Do("prepare") /\ todo = SecureRest /\ UNCHANGED <<src, mg, failed>>
    BY <1>3, Preparing
  <2>2. op \notin Back BY <2>1, Different DEF Prepares
  <2>3. ~Has(SecureRest, Back) BY SecureBootParts, Different DEF Has
  <2>4. QED BY <2>1, <2>2, <2>3 DEF HomeOK
<1>4. CASE Stays
  BY <1>4 DEF Stays, HomeOK
<1>5. CASE Ends
  <2>1. op \notin Back BY <1>5 DEF Ends, Back, Migrate
  <2>2. QED BY <1>5, <2>1 DEF Ends, HomeOK
<1>6. CASE Moves
  <2>1. op \notin Back BY <1>6, Different DEF Moves
  <2>2. QED BY <1>6, <2>1 DEF Moves, HomeOK
<1>7. CASE Renames
  <2>1. op \in There \cup Back
    BY <1>7, OpNamed DEF Renames, Migrations, Crosses, There, Back, Migrate, Cross, Idle, None
  <2>2. op \in Back => mg' = src BY <1>7 DEF Renames, Dest, Back, Migrate
  <2>3. op \in There => Has(todo, Back) BY DEF PlanOK
  <2>4. QED BY <1>7, <2>1, <2>2, <2>3 DEF Renames, HomeOK
<1>8. CASE Excepts
  <2>1. CASE failed' BY <2>1 DEF HomeOK
  <2>2. CASE Caught /\ todo' = AfterTry /\ UNCHANGED failed
    <3>1. op # Idle /\ op \notin Back
      BY <2>2, OpNamed, IdleNamed, Different DEF Prepares
    <3>2. Has(todo, Back) => Has(todo', Back)
      <4>1. todo \in Seq(Calls) BY TypeParts DEF Shape, PlanType
      <4>2. todo # <<>> /\ Head(todo)[2] = "try" => Head(todo) \notin Back
        BY DEF Back, Migrate
      <4>3. QED BY <2>2, <4>1, <4>2, HasHead DEF AfterTry
    <3>3. QED BY <1>8, <2>2, <3>1, <3>2 DEF Excepts, HomeOK
  <2>3. QED BY <1>8, <2>1, <2>2 DEF Excepts
<1>9. QED
  BY <1>1, <1>2, <1>3, <1>4, <1>5, <1>6, <1>7, <1>8, Effects DEF Shape

\* What the tests do to a system they undo.
SystemsOK ==
    ~failed =>
        /\ \A s \in Systems : cec[s] = "Operating" \/ s = Home
        /\ cec[Home] = "Operating" \/ op \in Sys \/ Has(todo, SysOn)
        /\ cec[Home] = "Power Off In Progress" => op \in SysOff

LEMMA CallFails ==
    ASSUME Shape, Raises, ~Caught PROVE failed' = TRUE
<1>1. HistoryType BY TypeParts DEF Shape
<1>2. QED BY <1>1, Zenon DEF Raises, HistoryType

LEMMA FailedStays ==
    ASSUME Shape, [Next]_vars, failed PROVE failed'
<1>1. BeginTest \/ Call \/ Prepare \/ Moves => UNCHANGED failed
  BY DEF BeginTest, Call, Prepare, Moves, history
<1>2. UNCHANGED failed \/ failed' BY <1>1, Pops
<1>3. QED BY <1>2, Zenon

LEMMA SystemsKept ==
    ASSUME [Next]_vars, ~PowerSystem, ~SystemGoesOff, ~SystemComesUp PROVE UNCHANGED cec
<1> USE DEF partition
<1>1. CASE OpTest
  <2>1. CASE BeginTest \/ Call \/ LookAtState \/ LookAtRefcode \/ LookAtSystem \/ LookFails \/ Decide
             \/ Shutdown \/ ErrorClears \/ GoesOn \/ PowerOn \/ Waited \/ Prepare \/ OverSSH \/ Kick
    BY <2>1 DEF BeginTest, Call, LookAtState, LookAtRefcode, LookAtSystem, LookFails, Decide, Shutdown,
       ErrorClears, GoesOn, PowerOn, Waited, Prepare, OverSSH, Kick
  <2>2. CASE MigrationFails \/ FindsIt \/ Validate \/ Start \/ Check \/ CheckState \/ StopMigration
             \/ Recover
    BY <2>2 DEF MigrationFails, FindsIt, Validate, Start, Check, CheckState, StopMigration, Recover
  <2>3. CASE Detect \/ Stopped \/ RunUNKNOWN \/ RunOS \/ RunPOWERINGOFF \/ RunOFF \/ Booted
             \/ BootOverdue \/ BootFails
    BY <2>3 DEF Detect, Stopped, RunUNKNOWN, RunOS, RunPOWERINGOFF, RunOFF, Booted, BootOverdue,
       BootFails
  <2>4. QED BY <1>1, <2>1, <2>2, <2>3 DEF OpTest
<1>2. CASE Environment \/ UNCHANGED vars
  BY <1>2 DEF Environment, BeginsOff, BeginsOn, BeginsRestart, Progresses, Crashes, MigrationEnds, vars
<1>3. QED BY <1>1, <1>2 DEF Next

\* An operation on a system that goes on, fails or has seen what it waits for.
LEMMA SystemOperation ==
    ASSUME Shape, World, [Next]_vars, op \in Sys
    PROVE  \/ UNCHANGED <<op, todo>>
           \/ failed'
           \/ /\ UNCHANGED <<todo, cec>> /\ op' = Idle
              /\ op \in SysOff => cec[mg] = "Power Off"
              /\ op \in SysOn => cec[mg] = "Operating"
<1>0. /\ OpOK /\ op[1] \in {"sysoff", "syson"} /\ op # Idle /\ goal = None
      /\ op \in SysOff => op[1] = "sysoff"
      /\ op \in SysOn => op[1] = "syson"
  BY Different DEF Shape, GoalOK, Sys, SysOff, SysOn, Do, Ups
<1>1. ~Caught BY <1>0, OpNamed, Different DEF Prepares
<1>2. Raises => failed' BY <1>1, CallFails
<1>3. step \in {"first", "wait"} BY <1>0, TypeParts DEF Shape, CallType, OpOK, Looking, Migrating
<1>5. CASE LookAtState \/ LookAtRefcode \/ LookAtSystem \/ LookFails
  BY <1>2, <1>3, <1>5 DEF LookAtState, LookAtRefcode, LookAtSystem, LookFails, runner
<1>6. CASE Waited
  <2>1. CASE Raises BY <1>2, <2>1
  <2>2. CASE LooksOn("wait") /\ UNCHANGED runner BY <2>2 DEF LooksOn, runner
  <2>3. CASE Returns /\ saw = Expected
    <3>1. UNCHANGED <<todo, cec>> /\ op' = Idle
      BY <1>6, <2>3 DEF Waited, Returns, Enters, runner, partition
    <3>2. QED BY <1>0, <2>3, <3>1 DEF World, SawOK, Expected
  <2>4. QED BY <1>6, <2>1, <2>2, <2>3 DEF Waited
<1>7. CASE PowerSystem
  BY <1>2, <1>7 DEF PowerSystem, LooksOn, runner
<1>8. CASE BeginTest \/ Call \/ Decide \/ ErrorClears \/ GoesOn \/ Prepare \/ OverSSH \/ Kick \/ PowerOn
           \/ Shutdown
  BY <1>0, <1>3, <1>8 DEF BeginTest, Call, Decide, ErrorClears, GoesOn, Prepare, OverSSH, Kick, PowerOn,
     Shutdown, Looked, Ready
<1>9. CASE MigrationFails \/ FindsIt \/ Validate \/ Start \/ Check \/ CheckState \/ StopMigration
           \/ Recover
  BY <1>0, <1>3, <1>9 DEF MigrationFails, FindsIt, Validate, Start, Check, CheckState, StopMigration,
     Recover, Migrates
<1>10. CASE Detect \/ Stopped \/ RunUNKNOWN \/ RunOS \/ RunPOWERINGOFF \/ RunOFF \/ Booted
           \/ BootOverdue \/ BootFails
  BY <1>0, <1>10 DEF Detect, Stopped, RunUNKNOWN, RunOS, RunPOWERINGOFF, RunOFF, Booted, BootOverdue,
     BootFails, In
<1>11. CASE Environment \/ UNCHANGED vars
  BY <1>11 DEF Environment, BeginsOff, BeginsOn, BeginsRestart, Progresses, Crashes, SystemGoesOff,
     SystemComesUp, MigrationEnds, vars, optest, runner, call
<1>12. QED BY <1>5, <1>6, <1>7, <1>8, <1>9, <1>10, <1>11 DEF Next, OpTest

LEMMA SystemsStep ==
    ASSUME Shape, World, TryOK, PlanOK, HomeOK, SystemsOK, [Next]_vars PROVE SystemsOK'
<1> SUFFICES ASSUME ~failed' PROVE SystemsOK'
  BY DEF SystemsOK
<1>0. ~failed /\ cec \in [Systems -> Powers] /\ Home \in Systems /\ mg \in Systems
  BY FailedStays, TypeParts DEF Shape, WorldType, PlanType, Systems
<1>1. CASE PowerSystem
  <2>1. op \in Sys BY <1>1, OpNamed DEF PowerSystem, OfSystem, Sys, Idle, None
  <2>2. mg = Home
    BY <1>0, <2>1, Different DEF PlanOK, HomeOK, Has
  <2>3. UNCHANGED op \/ Raises BY <1>1 DEF PowerSystem, LooksOn
  <2>4. ~Caught BY <2>1, OpNamed, Different DEF Prepares
  <2>5. UNCHANGED op BY <2>3, <2>4, CallFails
  <2>6. UNCHANGED cec \/ cec' = [cec EXCEPT ![Home] = Begun]
    BY <1>1, <2>2 DEF PowerSystem
  <2>7. Begun = "Power Off In Progress" => op \in SysOff
    <3>1. op = Do("sysoff") \/ op[1] # "sysoff"
      BY <2>1 DEF Sys, Do
    <3>2. QED BY <3>1 DEF Begun, SysOff
  <2>8. QED BY <1>0, <2>1, <2>5, <2>6, <2>7 DEF SystemsOK
<1>2. CASE SystemGoesOff \/ SystemComesUp
  <2>1. UNCHANGED <<op, todo>>
    BY <1>2 DEF SystemGoesOff, SystemComesUp, optest, call, runner
  <2>2. PICK s \in Systems :
            \/ cec[s] = "Power Off In Progress" /\ cec' = [cec EXCEPT ![s] = "Power Off"]
            \/ cec[s] = "Initializing" /\ cec' = [cec EXCEPT ![s] = "Operating"]
    BY <1>2 DEF SystemGoesOff, SystemComesUp
  <2>3. s = Home BY <1>0, <2>2 DEF SystemsOK
  <2>4. SysOff \subseteq Sys BY Different
  <2>5. QED BY <1>0, <2>1, <2>2, <2>3, <2>4 DEF SystemsOK
<1>3. CASE UNCHANGED cec /\ op \in Sys
  <2>1. CASE UNCHANGED <<op, todo>>
    BY <1>0, <1>3, <2>1 DEF SystemsOK
  <2>2. CASE /\ UNCHANGED todo /\ op' = Idle
             /\ op \in SysOff => cec[mg] = "Power Off"
             /\ op \in SysOn => cec[mg] = "Operating"
    <3>1. mg = Home
      BY <1>0, <1>3, Different DEF PlanOK, HomeOK, Has
    <3>2. op \in SysOff \/ op \in SysOn BY <1>3 DEF Sys, SysOff, SysOn
    <3>3. op \in SysOff => Has(todo, SysOn) BY DEF PlanOK
    <3>4. QED BY <1>0, <1>3, <2>2, <3>1, <3>2, <3>3, Different DEF SystemsOK
  <2>3. QED BY <1>3, <2>1, <2>2, SystemOperation
<1>4. CASE UNCHANGED cec /\ op \notin Sys
  <2>0. op \notin SysOff BY <1>4, Different
  <2>1. cec[Home] # "Operating" => Has(todo, SysOn) /\ cec[Home] # "Power Off In Progress"
    BY <1>0, <1>4, <2>0 DEF SystemsOK
  <2>2. Has(todo, SysOn) => Has(todo', SysOn) \/ op' \in Sys
    <3>0. todo \in Seq(Calls) BY TypeParts DEF Shape, PlanType
    <3>1. CASE BeginTest BY <3>1, EmptyHas DEF BeginTest
    <3>2. CASE Call
      <4>1. Has(todo, SysOn) => Head(todo) \in SysOn \/ Has(todo', SysOn)
        BY <3>2, Calling, HasHead
      <4>2. Head(todo) \in SysOn => op' = Head(todo) /\ op' \in Sys BY <3>2, Calling, Different
      <4>3. QED BY <4>1, <4>2
    <3>3. CASE Prepare
      <4>1. todo = SecureRest BY <3>3, Preparing
      <4>2. ~Has(SecureRest, SysOn) BY SecureBootParts, Different DEF Has
      <4>3. QED BY <4>1, <4>2
    <3>4. CASE UNCHANGED todo BY <3>4
    <3>5. CASE todo # <<>> /\ Head(todo)[2] = "try" /\ todo' = Tail(todo)
      <4>1. Head(todo) \notin SysOn BY <3>5 DEF SysOn, Do
      <4>2. QED BY <3>0, <3>5, <4>1, HasHead
    <3>6. QED BY <3>1, <3>2, <3>3, <3>4, <3>5, Pops DEF Moves
  <2>3. QED BY <1>0, <1>4, <2>1, <2>2 DEF SystemsOK
<1>5. QED BY <1>1, <1>2, <1>3, <1>4, SystemsKept

-----------------------------------------------------------------------------
(* The partition after tests that all pass                                 *)

\* A shutdown that the HMC has yet to begin.
Falling == asked = "off" /\ part # "Not Activated"
Starters == {On("local"), On("remote")}

\* What the HMC was asked to shut down is waited for, or shut down again, before
\* anybody relies on it.
FallsOK ==
    ~failed =>
        /\ Falling => \/ op \in Offs
                      \/ op \in Ons /\ step \in {"clear", "again", "on"}
                      \/ OffFirst(todo)
        /\ op = Do("prepare") \/ Has(todo, Prepares) => ~Falling
        /\ op \in Starters /\ goal = None /\ step = "first" => ~Falling
        /\ op \in Ons /\ step = "wait" => asked \in {"on", "nothing"}

\* What a test saw running runs.
SeenOK ==
    ~failed /\ ~crashed /\ ~unwaited /\ op \in Starters /\ goal = None
            /\ step \in {"first", "wait"} =>
        /\ saw = "up" => part \in {"Booting", "Running"}
        /\ saw = "Running" => part = "Running"

\* Where the state machine is at OS the partition runs, or will be powered on.
UpOK ==
    ~failed /\ ~crashed /\ ~unwaited /\ state = "OS" /\ goal # "OFF" =>
        part = "Running" \/ op \in Ups \/ Has(todo, Ups)

\* What a power-off and a power-on do next.
LEMMA PowerOperation ==
    ASSUME Shape, [Next]_vars, op \in Offs \cup Ons
    PROVE  \/ Raises
           \/ UNCHANGED <<op, todo, goal, state>>
           \/ /\ Returns /\ UNCHANGED <<todo, part, asked>> /\ op' = Idle
              /\ \/ Decide /\ step = "first" /\ AlreadyThere
                 \/ Waited /\ step = "wait" /\ saw = Expected
<1> USE DEF runner, machine, call, partition
<1>0. OpOK /\ op[1] \in {"poweroff", "poweron"} /\ op # Idle
  BY Different DEF Shape, Offs, Ons, On, Off
<1>1. step \notin Migrating /\ step \notin {"ssh", "kick", None} /\ ~OfSystem
  BY <1>0 DEF OpOK, OfSystem, None
<1>2. CASE LookAtState \/ LookAtRefcode \/ LookAtSystem \/ LookFails
  BY <1>2 DEF LookAtState, LookAtRefcode, LookAtSystem, LookFails
<1>3. CASE Decide
  <2>1. CASE AlreadyThere /\ Returns
    BY <1>3, <2>1, Boundaries DEF Decide, Looked, Returns
  <2>2. CASE ~(AlreadyThere /\ Returns)
    BY <1>3, <2>2 DEF Decide
  <2>3. QED BY <2>1, <2>2
<1>4. CASE Waited
  <2>1. CASE saw = Expected /\ Returns
    BY <1>4, <2>1, Boundaries DEF Waited, Looked, Returns
  <2>2. CASE ~(saw = Expected /\ Returns)
    BY <1>4, <2>2 DEF Waited, LooksOn
  <2>3. QED BY <2>1, <2>2
<1>5. CASE Shutdown \/ ErrorClears \/ GoesOn \/ PowerOn
  BY <1>0, <1>5 DEF Shutdown, ErrorClears, GoesOn, PowerOn, LooksOn, Enters
<1>6. CASE BeginTest \/ Call \/ PowerSystem \/ Prepare \/ OverSSH \/ Kick
  BY <1>0, <1>1, <1>6 DEF BeginTest, Call, PowerSystem, Prepare, OverSSH, Kick, Ready
<1>7. CASE MigrationFails \/ FindsIt \/ Validate \/ Start \/ Check \/ CheckState \/ StopMigration
           \/ Recover
  BY <1>0, <1>1, <1>7 DEF MigrationFails, FindsIt, Validate, Start, Check, CheckState, StopMigration,
     Recover, Migrates, Migrating
<1>8. CASE Detect \/ Stopped \/ RunUNKNOWN \/ RunOS \/ RunPOWERINGOFF \/ RunOFF \/ Booted
           \/ BootOverdue \/ BootFails
  BY <1>0, <1>8 DEF Detect, Stopped, RunUNKNOWN, RunOS, RunPOWERINGOFF, RunOFF, Booted, BootOverdue,
     BootFails, In
<1>9. CASE Environment \/ UNCHANGED vars
  BY <1>9 DEF Environment, BeginsOff, BeginsOn, BeginsRestart, Progresses, Crashes, SystemGoesOff,
     SystemComesUp, MigrationEnds, vars, optest
<1>10. QED BY <1>2, <1>3, <1>4, <1>5, <1>6, <1>7, <1>8, <1>9 DEF Next, OpTest

LEMMA PowerOnSteps ==
    ASSUME Shape, [Next]_vars, op \in Ons, step \in {"clear", "again", "on"}, ~Raises, ~Shutdown
    PROVE  step' \in {"clear", "again", "on"} \/ (step' = "wait" /\ asked' = "on")
<1> USE DEF call
<1>0. op[1] = "poweron" /\ op # Idle BY Different DEF Shape, Ons, On
<1>1. CASE LookAtState \/ LookAtRefcode \/ LookAtSystem \/ LookFails
  BY <1>1 DEF LookAtState, LookAtRefcode, LookAtSystem, LookFails
<1>2. CASE ErrorClears \/ GoesOn \/ PowerOn
  BY <1>2 DEF ErrorClears, GoesOn, PowerOn, LooksOn, Enters
<1>3. CASE BeginTest \/ Call \/ Decide \/ Waited \/ PowerSystem \/ Prepare \/ OverSSH \/ Kick
  BY <1>0, <1>3 DEF BeginTest, Call, Decide, Waited, PowerSystem, Prepare, OverSSH, Kick, Ready, Looked
<1>4. CASE MigrationFails \/ FindsIt \/ Validate \/ Start \/ Check \/ CheckState \/ StopMigration
           \/ Recover
  BY <1>0, <1>4 DEF MigrationFails, FindsIt, Validate, Start, Check, CheckState, StopMigration,
     Recover, Migrates
<1>5. CASE Detect \/ Stopped \/ RunUNKNOWN \/ RunOS \/ RunPOWERINGOFF \/ RunOFF \/ Booted
           \/ BootOverdue \/ BootFails
  BY <1>0, <1>5 DEF Detect, Stopped, RunUNKNOWN, RunOS, RunPOWERINGOFF, RunOFF, Booted, BootOverdue,
     BootFails, In
<1>6. CASE Environment \/ UNCHANGED vars
  BY <1>6 DEF Environment, BeginsOff, BeginsOn, BeginsRestart, Progresses, Crashes, SystemGoesOff,
     SystemComesUp, MigrationEnds, vars, optest
<1>7. QED BY <1>1, <1>2, <1>3, <1>4, <1>5, <1>6 DEF Next, OpTest

\* A caught exception leaves the secure boot test its own calls.
LEMMA CaughtGoesOn ==
    ASSUME Shape, TryOK, Raises, Caught
    PROVE  todo' = SecureRest /\ UNCHANGED failed
<1>1. op \in {Off("try"), On("try"), Do("prepare")} BY OpNamed, IdleNamed
<1>2. todo' = AfterTry /\ UNCHANGED failed
  <2>1. HistoryType BY TypeParts DEF Shape
  <2>2. todo' = AfterTry BY DEF Raises
  <2>3. UNCHANGED failed BY <2>1, Zenon DEF Raises, HistoryType
  <2>4. QED BY <2>2, <2>3
<1>3. CASE todo = SecureRest
  <2>1. Head(todo)[2] # "try" BY <1>3, SecureBootParts DEF Goto
  <2>2. QED BY <1>2, <1>3, <2>1 DEF AfterTry
<1>4. CASE todo = TryOn
  <2>1. todo # <<>> /\ Head(todo)[2] = "try" /\ Tail(todo) = SecureRest BY <1>4, TryParts DEF On
  <2>2. QED BY <1>2, <2>1 DEF AfterTry
<1>5. QED BY <1>1, <1>3, <1>4 DEF TryOK

\* How a shutdown comes to be pending, and where the partition is moved by itself.
LEMMA FallsBegins ==
    ASSUME TypeOK, [Next]_vars
    PROVE  /\ Environment \/ UNCHANGED part
           /\ Falling' => Falling \/ Shutdown
<1> USE DEF partition
<1>1. CASE BeginTest \/ Call \/ LookAtState \/ LookAtRefcode \/ LookAtSystem \/ LookFails \/ Decide
           \/ ErrorClears \/ GoesOn \/ Waited \/ Prepare \/ OverSSH
  <2>1. UNCHANGED <<part, asked>>
    BY <1>1 DEF BeginTest, Call, LookAtState, LookAtRefcode, LookAtSystem, LookFails, Decide,
       ErrorClears, GoesOn, Waited, Prepare, OverSSH
  <2>2. QED BY <2>1 DEF Falling
<1>2. CASE Shutdown BY <1>2 DEF Shutdown
<1>3. CASE PowerOn \/ Kick
  BY <1>3 DEF PowerOn, Kick, Falling
<1>4. CASE PowerSystem \/ MigrationFails \/ FindsIt \/ Validate \/ Start \/ Check \/ CheckState
           \/ StopMigration \/ Recover
  <2>1. UNCHANGED <<part, asked>>
    BY <1>4 DEF PowerSystem, MigrationFails, FindsIt, Validate, Start, Check, CheckState,
       StopMigration, Recover
  <2>2. QED BY <2>1 DEF Falling
<1>5. CASE Detect \/ Stopped \/ RunUNKNOWN \/ RunOS \/ RunPOWERINGOFF \/ RunOFF \/ Booted
           \/ BootOverdue \/ BootFails \/ UNCHANGED vars
  <2>1. UNCHANGED <<part, asked>>
    BY <1>5 DEF Detect, Stopped, RunUNKNOWN, RunOS, RunPOWERINGOFF, RunOFF, Booted, BootOverdue,
       BootFails, vars
  <2>2. QED BY <2>1 DEF Falling
<1>6. CASE Environment
  <2>1. asked' = "off" => asked = "off" /\ (part = "Not Activated" => part' = "Not Activated")
    BY <1>6 DEF Environment, BeginsOff, BeginsOn, BeginsRestart, Progresses, Crashes, SystemGoesOff,
       SystemComesUp, MigrationEnds, Boots
  <2>2. QED BY <1>6, <2>1 DEF Falling
<1>7. QED BY <1>1, <1>2, <1>3, <1>4, <1>5, <1>6 DEF Next, OpTest

LEMMA FallingKept ==
    ASSUME Shape, World, TryOK, FallsOK, [Next]_vars, ~failed', Falling'
    PROVE  \/ op' \in Offs
           \/ op' \in Ons /\ step' \in {"clear", "again", "on"}
           \/ OffFirst(todo')
<1>0. ~failed /\ OpOK /\ TypeOK /\ todo \in Seq(Calls) BY FailedStays, TypeParts DEF Shape, PlanType
<1>1. CASE Raises
  <2>1. Caught BY <1>1, CallFails
  <2>2. QED BY <1>1, <2>1, CaughtGoesOn, SecureBootParts
<1>2. CASE Shutdown /\ ~Raises
  <2>1. op[1] = "restart" => asked' = "restart" \/ failed'
    BY <1>2 DEF Shutdown, Command, Breaks
  <2>2. op[1] \in {"poweroff", "poweron"} BY <1>0, <1>2, <2>1 DEF Falling, OpOK, Shutdown
  <2>3. op \in Offs \cup Ons BY <2>2, OpNamed DEF Idle, None
  <2>4. UNCHANGED op /\ (op[1] = "poweron" => step' \in {"clear", "again"})
    BY <1>2, <2>2 DEF Shutdown, LooksOn
  <2>5. QED BY <2>2, <2>3, <2>4, OpNamed DEF Idle, None
<1>3. CASE ~Shutdown /\ ~Raises
  <2>0. Falling BY <1>0, <1>3, FallsBegins
  <2>1. CASE op \in Offs
    <3>1. CASE Returns /\ Decide /\ AlreadyThere
      <4>1. op[1] # "poweron" BY <2>1 DEF Offs, Off
      <4>2. saw \in AlreadyOff BY <3>1, <4>1 DEF AlreadyThere
      <4>3. QED BY <2>0, <4>2 DEF World, SawOK, Falling
    <3>2. CASE Returns /\ Waited /\ step = "wait" /\ saw = Expected
      <4>1. op[1] = "poweroff" BY <2>1 DEF Offs, Off
      <4>2. saw = "Not Activated" BY <3>2, <4>1 DEF Expected
      <4>3. QED BY <2>0, <3>2, <4>1, <4>2 DEF World, SawOK, Falling
    <3>3. CASE UNCHANGED op BY <2>1, <3>3
    <3>4. QED BY <1>3, <2>1, <3>1, <3>2, <3>3, PowerOperation
  <2>2. CASE op \in Ons /\ step \in {"clear", "again", "on"}
    <3>1. UNCHANGED op BY <1>3, <2>2, PowerOperation
    <3>2. step' \in {"clear", "again", "on"} \/ asked' = "on"
      BY <1>3, <2>2, <3>1, PowerOnSteps
    <3>3. QED BY <2>2, <3>1, <3>2 DEF Falling
  <2>3. CASE OffFirst(todo) /\ op \notin Offs
    <3>1. CASE Call
      <4>1. Head(todo) \in Offs \/ OffFirst(Tail(todo)) BY <2>3, <3>1, Calling, OffFirstHead
      <4>2. Head(todo) \in Offs => op' = Head(todo) BY <3>1, Calling, Different
      <4>3. QED BY <3>1, <4>1, <4>2, Calling
    <3>2. CASE BeginTest
      <4>1. todo = <<>> BY <3>2 DEF BeginTest
      <4>2. QED BY <2>3, <4>1, OffFirstHas, EmptyHas
    <3>3. CASE Prepare
      BY <1>0, <2>0, <3>3, Preparing DEF FallsOK
    <3>4. CASE UNCHANGED todo BY <2>3, <3>4
    <3>5. CASE Excepts /\ todo # <<>> /\ Head(todo)[2] = "try" /\ todo' = Tail(todo) /\ Caught /\ op # Idle
      <4>1. op \in {On("try"), Do("prepare")}
        BY <2>3, <3>5, OpNamed, Different
      <4>2. Head(todo)[2] # "try" BY <4>1, SecureBootParts DEF TryOK, Goto
      <4>3. QED BY <3>5, <4>2
    <3>6. QED BY <1>0, <3>1, <3>2, <3>3, <3>4, <3>5, Pops DEF Moves
  <2>4. QED BY <1>0, <2>0, <2>1, <2>2, <2>3 DEF FallsOK
<1>4. QED BY <1>1, <1>2, <1>3

\* A power-on that has just begun to look, or waits.
LEMMA PowerOnLooks ==
    ASSUME Shape, [Next]_vars, op' \in Ons, step' \in {"first", "wait"}
    PROVE  \/ op = Idle /\ step' = "first" /\ saw' = None /\ (Call \/ goal' # None)
           \/ /\ UNCHANGED <<op, goal>>
              /\ \/ UNCHANGED <<step, asked>> /\ (LookAtState \/ LookAtRefcode)
                 \/ step' = "wait" /\ saw' = None
                    /\ (asked' = "on" \/ (step = "wait" /\ UNCHANGED asked))
                 \/ UNCHANGED <<step, saw>> /\ (Environment \/ UNCHANGED vars)
<1> USE DEF call, machine, partition
<1>0. /\ OpOK /\ op' # Idle /\ op'[1] = "poweron"
      /\ op'[1] \notin {"poweroff", "restart", "sysoff", "syson", "migrate", "crossmigrate"}
  BY Different DEF Shape, Ons, On
<1>1. ~Raises /\ ~Breaks /\ ~Returns BY <1>0, Boundaries
<1>2. CASE LookAtState \/ LookAtRefcode \/ LookAtSystem \/ LookFails
  BY <1>0, <1>1, <1>2 DEF LookAtState, LookAtRefcode, LookAtSystem, LookFails, OfSystem
<1>3. CASE Decide \/ Shutdown \/ ErrorClears \/ GoesOn
  BY <1>0, <1>1, <1>3 DEF Decide, Shutdown, ErrorClears, GoesOn, LooksOn
<1>4. CASE PowerOn
  BY <1>0, <1>1, <1>4 DEF PowerOn, Enters
<1>5. CASE Waited
  BY <1>0, <1>1, <1>5 DEF Waited, LooksOn, Looked
<1>6. CASE PowerSystem \/ Prepare \/ OverSSH \/ Kick
  BY <1>0, <1>1, <1>6, Boundaries DEF PowerSystem, Prepare, OverSSH, Kick, OfSystem, LooksOn
<1>7. CASE BeginTest
  <2>1. op = Idle /\ op' = Idle BY <1>7 DEF BeginTest, Ready
  <2>2. QED BY <1>0, <2>1
<1>8. CASE Call
  <2>1. op = Idle /\ op' \in {Idle, Head(todo)} BY <1>8, Calling
  <2>2. ~UNCHANGED call BY <1>0, <2>1
  <2>3. saw' = None /\ step' = FirstStep(op'[1])
    BY <1>8, <2>2, Boundaries DEF Call
  <2>4. step' = "first" BY <1>0, <2>3 DEF FirstStep
  <2>5. QED BY <1>8, <2>1, <2>3, <2>4
<1>9. CASE MigrationFails \/ FindsIt \/ Validate \/ Start \/ Check \/ CheckState \/ StopMigration
           \/ Recover
  <2>1. op[1] \in {"migrate", "crossmigrate"}
    BY <1>0, <1>9 DEF MigrationFails, FindsIt, Validate, Start, Check, CheckState, StopMigration,
       Recover, Migrates, OpOK, Migrating
  <2>2. ~UNCHANGED op BY <1>0, <2>1
  <2>3. QED BY <1>0, <1>1, <1>9, <2>2, Boundaries DEF MigrationFails, FindsIt, Validate, Start, Check,
     CheckState, StopMigration, Recover
<1>10. CASE Detect \/ Stopped \/ RunUNKNOWN \/ RunOS \/ RunPOWERINGOFF \/ RunOFF \/ Booted
           \/ BootOverdue \/ BootFails
  <2>1. op = Idle /\ goal # None
    BY <1>10 DEF Detect, Stopped, RunUNKNOWN, RunOS, RunPOWERINGOFF, RunOFF, Booted,
       BootOverdue, BootFails, In
  <2>2. ~UNCHANGED call BY <1>0, <2>1
  <2>3. CASE Enters(Off("local"), "first")
    BY <1>0, <2>3, Boundaries DEF Off
  <2>4. CASE Enters(On("local"), "first") /\ UNCHANGED goal
    BY <2>1, <2>4, Boundaries
  <2>5. QED BY <1>1, <1>10, <2>2, <2>3, <2>4 DEF Detect, Stopped, RunUNKNOWN, RunOS, RunPOWERINGOFF,
     RunOFF, Booted, BootOverdue, BootFails
<1>11. CASE Environment \/ UNCHANGED vars
  <2>1. UNCHANGED <<op, goal, step, saw>>
    BY <1>11 DEF Environment, BeginsOff, BeginsOn, BeginsRestart, Progresses, Crashes, SystemGoesOff,
     SystemComesUp, MigrationEnds, vars, optest
  <2>2. QED BY <1>11, <2>1
<1>12. QED BY <1>2, <1>3, <1>4, <1>5, <1>6, <1>7, <1>8, <1>9, <1>10, <1>11 DEF Next, OpTest

LEMMA FallsStep ==
    ASSUME Shape, World, TryOK, FallsOK, [Next]_vars PROVE FallsOK'
<1> SUFFICES ASSUME ~failed' PROVE FallsOK'
  BY DEF FallsOK
<1>0. ~failed /\ OpOK /\ TypeOK /\ todo \in Seq(Calls) BY FailedStays, TypeParts DEF Shape, PlanType
<1>1. op = Idle \/ op = Do("prepare") => ~Shutdown
  <2>1. step # "shutdown" => ~Shutdown BY DEF Shutdown
  <2>2. QED BY <1>0, <2>1 DEF OpOK, Do, Idle, None
<1>2. op = Idle /\ Falling => OffFirst(todo)
  BY <1>0, Different DEF FallsOK
<1>3. op' = Do("prepare") \/ Has(todo', Prepares) => ~Falling'
  <2> SUFFICES ASSUME op' = Do("prepare") \/ Has(todo', Prepares) PROVE ~Shutdown /\ ~Falling
    BY <1>0, FallsBegins
  <2>0. op' = Idle => op' # Do("prepare") BY Different DEF Prepares
  <2>1. CASE BeginTest
    <3>1. op = Idle /\ todo = <<>> BY <2>1 DEF BeginTest, Ready
    <3>2. QED BY <1>1, <1>2, <3>1, OffFirstHas, EmptyHas
  <2>2. CASE Call
    <3>1. Has(todo', Prepares) \/ Head(todo) \in Prepares => Has(todo, Prepares)
      BY <2>2, Calling, HasHead
    <3>2. Has(todo, Prepares)
      BY <2>0, <2>2, <3>1, Calling DEF Prepares
    <3>3. QED BY <1>0, <1>1, <2>2, <3>2, Calling DEF FallsOK
  <2>3. CASE Prepare
    <3>1. op' = Idle /\ todo' \in {SecureRest, TryOn, TryOff} BY <2>3, Preparing
    <3>2. QED BY <2>0, <3>1, SecureBootParts, TryParts
  <2>4. Has(todo, Prepares) => op = Idle /\ ~Shutdown /\ ~Falling
    BY <1>0, <1>1 DEF TryOK, FallsOK, Ready
  <2>5. CASE UNCHANGED <<todo, op>>
    BY <1>0, <1>1, <2>4, <2>5 DEF FallsOK
  <2>6. CASE UNCHANGED todo /\ op' = Idle
    BY <2>0, <2>4, <2>6
  <2>7. CASE Moves
    <3>1. UNCHANGED todo /\ op' \in {Idle, Off("local"), On("local")} BY <2>7 DEF Moves
    <3>2. op' # Do("prepare") BY <3>1, Different DEF Prepares
    <3>3. QED BY <2>4, <3>1, <3>2
  <2>8. CASE Excepts /\ UNCHANGED todo
    BY <2>0, <2>4, <2>8 DEF Excepts
  <2>9. CASE Excepts /\ todo # <<>> /\ todo' = Tail(todo)
    <3>1. Has(todo', Prepares) => Has(todo, Prepares) BY <1>0, <2>9, HasHead
    <3>2. QED BY <2>0, <2>4, <2>9, <3>1 DEF Excepts
  <2>10. CASE Excepts /\ todo' = <<>>
    BY <2>0, <2>10, EmptyHas DEF Excepts
  <2>11. QED BY <2>1, <2>2, <2>3, <2>5, <2>6, <2>7, <2>8, <2>9, <2>10, Pops
<1>4. Starters \subseteq Ons BY DEF Starters, Ons
<1>5. op' \in Starters /\ goal' = None /\ step' = "first" => ~Falling'
  <2> SUFFICES ASSUME op' \in Starters, goal' = None, step' = "first" PROVE ~Shutdown /\ ~Falling
    BY <1>0, FallsBegins
  <2>1. CASE op = Idle /\ Call
    <3>1. op' = Head(todo) BY <1>4, <2>1, Calling, Different
    <3>2. ~OffFirst(todo) BY <1>4, <2>1, <3>1, Calling, OffFirstHead, Different
    <3>3. QED BY <1>1, <1>2, <2>1, <3>2
  <2>2. CASE UNCHANGED <<op, goal, step>>
    BY <1>0, <2>2 DEF FallsOK, Shutdown
  <2>3. QED BY <1>4, <2>1, <2>2, PowerOnLooks
<1>6. op' \in Ons /\ step' = "wait" => asked' \in {"on", "nothing"}
  <2> SUFFICES ASSUME op' \in Ons, step' = "wait" PROVE asked' \in {"on", "nothing"}
    OBVIOUS
  <2>1. CASE UNCHANGED <<op, step, asked>>
    BY <1>0, <2>1 DEF FallsOK
  <2>2. CASE UNCHANGED <<op, step>> /\ (Environment \/ UNCHANGED vars)
    <3>1. asked \in {"on", "nothing"} BY <1>0, <2>2 DEF FallsOK
    <3>2. QED BY <2>2, <3>1 DEF Environment, BeginsOff, BeginsOn, BeginsRestart, Progresses, Crashes,
       SystemGoesOff, SystemComesUp, MigrationEnds, vars, partition
  <2>3. CASE asked' = "on" BY <2>3
  <2>4. QED BY <2>1, <2>2, <2>3, PowerOnLooks
<1>7. QED BY <1>3, <1>5, <1>6, FallingKept DEF FallsOK

\* Neither a crash nor a restart is forgotten, unless somebody sees the partition
\* running after it.
LEMMA CrashedStays ==
    ASSUME [Next]_vars, crashed PROVE crashed'
<1> USE DEF history
<1>1. CASE UNCHANGED crashed
  BY <1>1, Zenon
<1>2. CASE Raises \/ Breaks
  BY <1>1, <1>2 DEF Raises, Breaks
<1>3. CASE Crashes
  BY <1>3 DEF Crashes
<1>4. CASE (Shutdown \/ Waited \/ Kick \/ Start \/ CheckState) /\ ~Raises /\ ~Breaks
  BY <1>1, <1>4 DEF Shutdown, Waited, Kick, Start, CheckState
<1>5. QED BY <1>1, <1>2, <1>3, <1>4, HistoryKept

LEMMA UnwaitedStays ==
    ASSUME Shape, [Next]_vars, unwaited
    PROVE  unwaited' \/ (Waited /\ Returns /\ saw = Expected /\ part = "Running")
<1>0. HistoryType BY TypeParts DEF Shape
<1>1. CASE UNCHANGED unwaited
  BY <1>1, Zenon
<1>2. CASE Raises
  <2>1. UNCHANGED unwaited BY <1>2 DEF Raises
  <2>2. QED BY <1>1, <2>1
<1>3. CASE Breaks
  BY <1>3 DEF Breaks
<1>4. CASE (Shutdown \/ Kick) /\ ~Raises /\ ~Breaks
  BY <1>0, <1>4, Flags, Zenon
<1>5. CASE Waited /\ ~Raises
  BY <1>0, <1>5, Flags, Zenon
<1>6. CASE ((Start \/ CheckState) /\ ~Raises) \/ Crashes
  BY <1>1, <1>6 DEF Start, CheckState, Crashes, history
<1>7. CASE UNCHANGED history
  BY <1>1, <1>7 DEF history
<1>8. QED BY <1>2, <1>3, <1>4, <1>5, <1>6, <1>7, HistoryKept

LEMMA SeenStep ==
    ASSUME Shape, World, SystemsOK, FallsOK, SeenOK, [Next]_vars PROVE SeenOK'
<1> SUFFICES ASSUME ~failed', ~crashed', ~unwaited', op' \in Starters, goal' = None,
                    step' \in {"first", "wait"}, saw' \in {"up", "Running"}
             PROVE  /\ saw' = "up" => part' \in {"Booting", "Running"}
                    /\ saw' = "Running" => part' = "Running"
  BY DEF SeenOK
<1>1. op' \in Ons /\ op' # Idle BY Different DEF Starters, Ons
<1>2. ~failed /\ ~crashed BY FailedStays, CrashedStays
<1>3. ~unwaited
  <2>1. Returns => op' = Idle BY Boundaries
  <2>2. QED BY <1>1, <2>1, UnwaitedStays
<1>4. saw' # None BY DEF None
<1>5. CASE UNCHANGED <<op, goal, step>> /\ (LookAtState \/ LookAtRefcode)
  <2>1. UNCHANGED part BY <1>5 DEF LookAtState, LookAtRefcode, partition
  <2>2. CASE LookAtState
    <3>1. saw' = "up" => part \in {"Booting", "Running"}
      BY <2>2, TypeParts DEF LookAtState, Shape, WorldType, Parts
    <3>2. saw' # "Running"
      BY <2>2 DEF LookAtState
    <3>3. QED BY <2>1, <3>1, <3>2
  <2>3. CASE LookAtRefcode
    <3>1. part \in {"Booting", "Running"}
      BY <1>2, <1>3, <1>5, <2>3 DEF LookAtRefcode, SeenOK
    <3>2. QED BY <2>1, <2>3, <3>1 DEF LookAtRefcode
  <2>4. QED BY <1>5, <2>2, <2>3
<1>6. CASE UNCHANGED <<op, goal, step, saw>> /\ UNCHANGED part
  BY <1>2, <1>3, <1>6 DEF SeenOK
<1>7. CASE UNCHANGED <<op, goal, step, saw>> /\ Environment
  <2>1. part \in {"Booting", "Running"} /\ (saw = "Running" => part = "Running")
    BY <1>2, <1>3, <1>7 DEF SeenOK
  <2>2. CASE BeginsOff
    <3>1. Falling BY <2>1, <2>2 DEF BeginsOff, Falling
    <3>2. step = "first" \/ step = "wait" BY <1>7
    <3>3. QED BY <1>1, <1>2, <1>7, <2>2, <3>1, <3>2 DEF FallsOK, BeginsOff
  <2>3. CASE BeginsRestart
    BY <1>3, <2>3 DEF BeginsRestart, World, AskedOK
  <2>4. CASE BeginsOn \/ Crashes
    BY <2>1, <2>4 DEF BeginsOn, Crashes
  <2>5. CASE Progresses
    BY <1>7, <2>1, <2>5 DEF Progresses, Boots
  <2>6. CASE SystemGoesOff
    <3>1. PICK s \in Systems : cec[s] = "Power Off In Progress" BY <2>6 DEF SystemGoesOff
    <3>2. op \in SysOff BY <1>2, <3>1 DEF SystemsOK
    <3>3. QED BY <1>1, <1>7, <3>2, Different
  <2>7. CASE SystemComesUp \/ MigrationEnds
    BY <1>6, <1>7, <2>7 DEF SystemComesUp, MigrationEnds
  <2>8. QED BY <1>7, <2>2, <2>3, <2>4, <2>5, <2>6, <2>7 DEF Environment
<1>8. UNCHANGED vars => UNCHANGED part BY DEF vars, partition
<1>9. QED BY <1>1, <1>4, <1>5, <1>6, <1>7, <1>8, PowerOnLooks

\* A power-on that the test called ends well only with the partition running, or
\* with nobody having waited for it.
LEMMA UpEnds ==
    ASSUME Shape, SeenOK, [Next]_vars, op \in Ups, op' = Idle, goal = None,
           ~failed, ~crashed, ~unwaited, ~failed'
    PROVE  unwaited' \/ part = "Running"
<1>0. op # Idle /\ OpOK BY Different DEF Shape
<1>1. ~Caught BY <1>0, OpNamed DEF Ups, On, Off, Do
<1>2. ~Raises BY <1>1, CallFails
<1>3. CASE op \in Starters
  <2>1. op \in Ons /\ op[1] = "poweron" BY <1>3 DEF Starters, Ons, On
  <2>2. saw = "Running" /\ step \in {"first", "wait"}
    BY <1>0, <1>2, <2>1, PowerOperation DEF AlreadyThere, Expected
  <2>3. QED BY <1>3, <2>2 DEF SeenOK
<1>4. CASE op \notin Starters
  <2>1. op[1] = "kick" BY <1>4 DEF Ups, Starters, Do
  <2>2. step = "kick" BY <1>0, <2>1 DEF OpOK
  <2>3. CASE Kick BY <1>2, <2>3 DEF Kick
  <2>4. CASE BeginTest \/ Call \/ Decide \/ ErrorClears \/ GoesOn \/ PowerOn \/ Waited \/ PowerSystem
             \/ Prepare \/ OverSSH \/ Shutdown \/ LookAtState \/ LookAtRefcode \/ LookAtSystem \/ LookFails
    BY <1>0, <2>2, <2>4 DEF BeginTest, Call, Decide, ErrorClears, GoesOn, PowerOn, Waited, PowerSystem,
       Prepare, OverSSH, Shutdown, LookAtState, LookAtRefcode, LookAtSystem, LookFails, Ready, Looked,
       Looking
  <2>5. CASE MigrationFails \/ FindsIt \/ Validate \/ Start \/ Check \/ CheckState \/ StopMigration
             \/ Recover
    BY <2>1, <2>2, <2>5 DEF MigrationFails, FindsIt, Validate, Start, Check, CheckState, StopMigration,
       Recover, Migrates
  <2>6. CASE Detect \/ Stopped \/ RunUNKNOWN \/ RunOS \/ RunPOWERINGOFF \/ RunOFF \/ Booted
             \/ BootOverdue \/ BootFails
    BY <1>0, <2>6 DEF Detect, Stopped, RunUNKNOWN, RunOS, RunPOWERINGOFF, RunOFF, Booted, BootOverdue,
       BootFails, In
  <2>7. CASE Environment \/ UNCHANGED vars
    BY <1>0, <2>7 DEF Environment, BeginsOff, BeginsOn, BeginsRestart, Progresses, Crashes,
       SystemGoesOff, SystemComesUp, MigrationEnds, vars, optest, call
  <2>8. QED BY <2>3, <2>4, <2>5, <2>6, <2>7 DEF Next, OpTest
<1>5. QED BY <1>3, <1>4

\* The state machine comes to OS where the OS runs.
LEMMA ArrivesOS ==
    ASSUME Shape, [Next]_vars, state # "OS", state' = "OS", ~failed'
    PROVE  part = "Running"
<1>0. MachineType /\ HistoryType BY TypeParts DEF Shape
<1> USE DEF machine
<1>1. ~Returns BY <1>0, ExceptsTypes
<1>2. CASE Detect \/ Booted \/ RunUNKNOWN \/ RunOS \/ RunPOWERINGOFF \/ RunOFF \/ BootOverdue \/ BootFails
  BY <1>2 DEF Detect, Booted, RunUNKNOWN, RunOS, RunPOWERINGOFF, RunOFF, BootOverdue, BootFails, To, In
<1>3. CASE Stopped
  BY <1>3, IdleNamed, CallFails DEF Stopped
<1>4. CASE BeginTest \/ Call \/ LookAtState \/ LookAtRefcode \/ LookAtSystem \/ LookFails \/ Decide
           \/ Shutdown \/ ErrorClears \/ GoesOn \/ PowerOn \/ Waited \/ PowerSystem \/ Prepare \/ OverSSH
           \/ Kick
  BY <1>1, <1>4 DEF BeginTest, Call, LookAtState, LookAtRefcode, LookAtSystem, LookFails, Decide,
     Shutdown, ErrorClears, GoesOn, PowerOn, Waited, PowerSystem, Prepare, OverSSH, Kick
<1>5. CASE MigrationFails \/ FindsIt \/ Validate \/ Start \/ Check \/ CheckState \/ StopMigration
           \/ Recover
  BY <1>5 DEF MigrationFails, FindsIt, Validate, Start, Check, CheckState, StopMigration, Recover
<1>6. CASE Environment \/ UNCHANGED vars
  BY <1>6 DEF Environment, BeginsOff, BeginsOn, BeginsRestart, Progresses, Crashes, SystemGoesOff,
     SystemComesUp, MigrationEnds, vars, optest
<1>7. QED BY <1>2, <1>3, <1>4, <1>5, <1>6 DEF Next, OpTest

LEMMA UpEnvironment ==
    ASSUME Shape, World, TryOK, PlanOK, SysOK, SystemsOK, FallsOK, UpOK, Environment,
           ~failed, ~crashed', ~crashed, ~unwaited
    PROVE  UpOK'
<1>0. UNCHANGED <<op, todo, goal, state>>
  BY DEF Environment, BeginsOff, BeginsOn, BeginsRestart, Progresses, Crashes, SystemGoesOff,
     SystemComesUp, MigrationEnds, optest, runner, machine, call
<1> SUFFICES ASSUME state = "OS", goal # "OFF", part = "Running", op \notin Ups, ~Has(todo, Ups)
             PROVE  part' = "Running"
  BY <1>0 DEF UpOK
<1>1. CASE BeginsOff
  <2>0. Falling BY <1>1 DEF BeginsOff, Falling
  <2>1. CASE op \in Offs
    <3>1. goal # None BY <2>1 DEF PlanOK
    <3>2. goal = "OS" BY <3>1, TypeParts DEF Shape, MachineType
    <3>3. op = Off("local") BY <2>1, <3>1, Different DEF Shape, GoalOK
    <3>4. QED BY <3>1, <3>2, <3>3 DEF Shape, GoalOK, Off, Idle, None
  <2>2. CASE op \in Ons
    <3>1. op = On("try") BY <2>2 DEF Ons, Ups
    <3>2. QED BY <3>1, SecureBootParts DEF TryOK
  <2>3. CASE OffFirst(todo)
    <3>1. Has(todo, Offs) BY <2>3, OffFirstHas
    <3>2. QED BY <3>1 DEF PlanOK, Followed, Has
  <2>4. QED BY <2>0, <2>1, <2>2, <2>3 DEF FallsOK
<1>2. CASE BeginsRestart
  BY <1>2 DEF BeginsRestart, World, AskedOK
<1>3. CASE BeginsOn \/ Progresses
  BY <1>3 DEF BeginsOn, Progresses, Boots
<1>4. CASE Crashes
  BY <1>4 DEF Crashes
<1>5. CASE SystemGoesOff
  <2>1. PICK s \in Systems : cec[s] = "Power Off In Progress" BY <1>5 DEF SystemGoesOff
  <2>2. op \in SysOff BY <2>1 DEF SystemsOK
  <2>3. QED BY <2>2 DEF SysOK
<1>6. CASE SystemComesUp \/ MigrationEnds
  BY <1>6 DEF SystemComesUp, MigrationEnds
<1>7. QED BY <1>1, <1>2, <1>3, <1>4, <1>5, <1>6 DEF Environment

LEMMA UpStep ==
    ASSUME Shape, World, TryOK, PlanOK, SysOK, SystemsOK, FallsOK, SeenOK, UpOK, [Next]_vars
    PROVE  UpOK'
<1> SUFFICES ASSUME ~failed', ~crashed', ~unwaited', state' = "OS", goal' # "OFF"
             PROVE  part' = "Running" \/ op' \in Ups \/ Has(todo', Ups)
  BY DEF UpOK
<1>0. ~failed /\ ~crashed /\ TypeOK /\ todo \in Seq(Calls)
  BY FailedStays, CrashedStays, TypeParts DEF Shape, PlanType
<1>1. CASE unwaited
  <2>1. Waited /\ part = "Running" BY <1>1, UnwaitedStays
  <2>2. QED BY <2>1 DEF Waited, partition
<1>2. CASE ~unwaited /\ Environment
  BY <1>0, <1>2, UpEnvironment DEF UpOK
<1>3. CASE ~unwaited /\ ~Environment
  <2>0. UNCHANGED part BY <1>0, <1>3, FallsBegins
  <2>1. state = "OS" /\ goal # "OFF" => part = "Running" \/ op \in Ups \/ Has(todo, Ups)
    BY <1>0, <1>3 DEF UpOK
  <2>2. CASE BeginTest
    <3>1. op = Idle /\ goal = None /\ todo = <<>> /\ UNCHANGED state
      BY <2>2 DEF BeginTest, Ready, machine
    <3>2. QED BY <2>0, <2>1, <3>1, EmptyHas, Different DEF None
  <2>3. CASE Call
    <3>1. part = "Running" \/ Has(todo, Ups)
      BY <2>1, <2>3, Calling, Different DEF None
    <3>2. Has(todo, Ups) => Head(todo) \in Ups \/ Has(todo', Ups)
      BY <2>3, Calling, HasHead
    <3>3. Head(todo) \in Ups => op' = Head(todo) BY <2>3, Calling, Different
    <3>4. QED BY <2>0, <3>1, <3>2, <3>3
  <2>4. CASE Prepare
    BY <2>4, Preparing, SecureBootParts, TryParts
  <2>5. CASE UNCHANGED <<todo, op, goal, state>>
    BY <2>0, <2>1, <2>5
  <2>6. CASE UNCHANGED <<todo, goal, state>> /\ op' = Idle
    <3>1. CASE op \in Ups /\ goal = None
      BY <1>0, <1>3, <2>0, <2>6, <3>1, UpEnds
    <3>2. CASE op \in Ups /\ goal # None
      <4>1. op = On("local") BY <3>2, Different DEF Shape, GoalOK
      <4>2. QED BY <2>6, <3>2, <4>1 DEF Shape, GoalOK
    <3>3. CASE op \notin Ups
      BY <2>0, <2>1, <2>6, <3>3
    <3>4. QED BY <3>1, <3>2, <3>3
  <2>7. CASE Moves
    <3>1. CASE state # "OS"
      BY <2>0, <3>1, ArrivesOS
    <3>2. CASE state = "OS"
      <4>1. UNCHANGED todo /\ goal \in {"OFF", "OS"} /\ op = Idle
        BY <2>7, <3>2, <1>0, TypeParts DEF Moves, MachineType, To
      <4>2. goal # "OFF" BY <2>7, <3>2, <4>1 DEF Moves, To
      <4>3. QED BY <2>0, <2>1, <3>2, <4>1, <4>2, Different
    <3>3. QED BY <3>1, <3>2
  <2>8. CASE Caught /\ op # Idle /\ UNCHANGED <<todo, goal, state>>
    <3>1. op \notin Ups BY <2>8, OpNamed, Different DEF Ups, On, Off, Do
    <3>2. QED BY <2>0, <2>1, <2>8, <3>1
  <2>9. CASE todo # <<>> /\ Head(todo)[2] = "try" /\ todo' = Tail(todo)
    <3>1. Head(todo) \in Tries BY <1>0, <2>9, Heads, Named DEF Tries
    <3>2. todo \in {TryOn, TryOff} BY <1>0, <2>9, <3>1, HasHead DEF TryOK
    <3>3. QED BY <2>9, <3>2, TryParts, SecureBootParts
  <2>10. QED BY <2>2, <2>3, <2>4, <2>5, <2>6, <2>7, <2>8, <2>9, Pops
<1>4. QED BY <1>1, <1>2, <1>3

\* Where a run of tests that has not failed stands.
Tidy == /\ PlanOK /\ TryOK /\ SysOK /\ HomeOK
        /\ SystemsOK /\ FallsOK /\ SeenOK /\ UpOK

LEMMA TidyInit == Init => Tidy
<1> SUFFICES ASSUME Init PROVE Tidy
  OBVIOUS
<1>0. todo = <<>> /\ op = Idle /\ goal = None BY DEF Init
<1>1. \A A, B : Followed(todo, A, B) BY <1>0 DEF Followed
<1>2. PlanOK BY <1>0, <1>1, EmptyHas, Different DEF PlanOK
<1>3. TryOK BY <1>0, EmptyHas, Different DEF TryOK, Prepares
<1>4. SysOK BY <1>0, EmptyHas, Different DEF SysOK
<1>5. HomeOK BY DEF Init, HomeOK
<1>6. SystemsOK BY DEF Init, SystemsOK, Systems
<1>7. FallsOK
  <2>1. ~Falling BY DEF Init, Falling
  <2>2. op \notin Ons BY <1>0, Different
  <2>3. QED BY <2>1, <2>2 DEF FallsOK
<1>8. SeenOK BY <1>0, Different DEF SeenOK, Starters, Ons
<1>9. UpOK BY DEF Init, UpOK
<1>10. QED BY <1>2, <1>3, <1>4, <1>5, <1>6, <1>7, <1>8, <1>9 DEF Tidy

LEMMA TidyStep ==
    ASSUME Shape, World, Tidy, [Next]_vars PROVE Tidy'
<1> USE DEF Tidy
<1>1. PlanOK' /\ TryOK' /\ SysOK' BY PlanStep, TryStep, SysStep
<1>2. HomeOK' /\ SystemsOK' BY HomeStep, SystemsStep
<1>3. FallsOK' /\ SeenOK' BY FallsStep, SeenStep
<1>4. UpOK' BY UpStep
<1>5. QED BY <1>1, <1>2, <1>3, <1>4

\* Tests that all pass leave the partition where they found it, its systems on,
\* and running where the state machine is at OS; but for a restart, or a power-on
\* that nobody waited for.
THEOREM PassedTestsTidy == Spec => []PassedLeavesAsFound
<1> DEFINE I == Shape /\ OrderOK /\ World /\ CrossOK /\ NamedOK /\ Tidy
<1>1. Init => I BY TypeInit, WorldInit, NamedInit, TidyInit DEF Shape
<1>2. ASSUME I, [Next]_vars PROVE I'
  <2>1. Shape' /\ OrderOK' BY <1>2, ShapeStep, OrderStep
  <2>2. World' BY <1>2, WorldKeeps
  <2>3. CrossOK' /\ NamedOK' BY <1>2, CrossStep, NamedStep
  <2>4. Tidy' BY <1>2, TidyStep
  <2>5. QED BY <2>1, <2>2, <2>3, <2>4
<1>3. I => PassedLeavesAsFound
  <2> SUFFICES ASSUME I, Ready, todo = <<>>, ~failed
               PROVE  /\ mg = Home
                      /\ unchecked \/ at = Home
                      /\ \A s \in Systems : cec[s] = "Operating"
                      /\ (~crashed /\ state = "OS") => part = "Running" \/ unwaited
    BY DEF PassedLeavesAsFound
  <2>0. op = Idle /\ goal = None /\ \A A : ~Has(todo, A) BY EmptyHas DEF Ready
  <2>1. mg = Home BY <2>0, Different DEF Tidy, HomeOK
  <2>2. ~Migrates BY <2>0, IdleNamed
  <2>3. unchecked \/ at = Home BY <2>0, <2>1, <2>2 DEF NamedOK
  <2>4. \A s \in Systems : cec[s] = "Operating"
    BY <2>0, Different DEF Tidy, SystemsOK
  <2>5. (~crashed /\ state = "OS") => part = "Running" \/ unwaited
    BY <2>0, Different DEF Tidy, UpOK, None
  <2>6. QED BY <2>1, <2>3, <2>4, <2>5
<1> HIDE DEF I
<1>4. I /\ [Next]_vars => I' BY <1>2
<1>5. QED BY <1>1, <1>3, <1>4, PTL DEF Spec
=============================================================================
