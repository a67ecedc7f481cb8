-------------------------------- MODULE LPAR --------------------------------
(***************************************************************************)
(* Tests on a logical partition behind an HMC: OpTestLPARSystem's state    *)
(* machine, the operations of HMCUtil on the partition and the managed     *)
(* system that it and the tests call, and the tests of power, restart,     *)
(* configuration, secure boot and Live Partition Mobility.                 *)
(*                                                                         *)
(* The HMC carries out what it was asked for in its own time, and op-test  *)
(* looks: between two looks, and between the two queries of one look, the  *)
(* partition moves on.                                                     *)
(***************************************************************************)
EXTENDS Naturals, Sequences

CONSTANTS
    Home, Away,         \* mg_system and tgt_mg_system of the configuration
    Kinds,              \* the tests of a run
    Last,               \* how many it has
    WaitLimit,          \* looks of a wait: 120, and 60 for a system
    ErrorLimit,         \* looks poweron_lpar() waits for an error to clear: 12
    booting_watermark,  \* the tunables of the state machine
    kill_cord

ASSUME SystemsAssumption == Home # Away
ASSUME LimitsAssumption ==
    /\ WaitLimit \in Nat /\ ErrorLimit \in Nat \ {0}
    /\ booting_watermark \in Nat /\ kill_cord \in Nat
    /\ booting_watermark <= kill_cord
ASSUME TestsAssumption ==
    /\ Last \in Nat
    /\ Kinds \subseteq {"off", "restore", "dkgsb", "restart", "hugepage", "cec",
                        "lpm", "inactive", "cross", "cold"}

Systems == {Home, Away}

VARIABLES
    left,       \* the tests still to run
    todo,       \* what the running test has still to call
    goal,       \* the state a goto_state() is to reach
    op,         \* the HMC operation that runs
    step,       \* where it is
    looks,      \* how often it has looked
    saw,        \* the state of the partition as its last look gave it
    src,        \* src_mg_sys of the test
    state,      \* OpTestSystem.state
    stop,       \* OpTestSystem.stop
    watermark,  \* OpTestSystem.booting_watermark
    mg,         \* OpTestHMC.mg_system
    part,       \* the partition
    cec,        \* the managed systems
    asked,      \* what the HMC has accepted to do with it and not begun
    at,         \* the system it runs on
    moving,     \* the migration the HMC has under way
    failed,     \* whether a test has failed
    crashed,    \* whether the partition's OS has crashed
    blind,      \* whether a power-on raised after its command was sent, or a
                \* test made one, or a restart, with the state machine at OFF
    unwaited,   \* whether the partition was restarted, or switched on, and
                \* nobody saw it come up
    unchecked   \* whether a migration is over that nobody checked

runner == <<left, todo, src>>
machine == <<goal, state, stop, watermark>>
call == <<op, step, looks, saw>>
partition == <<part, cec, asked, at, moving>>
history == <<failed, crashed, blind, unwaited, unchecked>>
vars == <<runner, machine, call, mg, partition, history>>

None == "none"
Idle == <<None, None>>
Parts == {"Not Activated", "Starting", "Open Firmware", "Booting", "Running",
          "Shutting Down", "Error"}

\* What a test calls: a goto_state(), the start of a test that copes with what
\* it finds, a command over ssh, or an operation of the HMC object on the system
\* that its own mg_system ("local") or remote_hmc's ("remote") names, also one
\* whose exceptions are caught ("try"); a migration goes from that system.
Calls == {"goto"} \X {"OFF", "OS"}
             \cup {"poweroff", "poweron"} \X {"local", "remote", "try"}
             \cup {"migrate", "crossmigrate"} \X {"local", "remote"}
             \cup {"restart", "prepare", "ssh", "sysoff", "syson", "kick"} \X {"local"}

Goto(s) == <<"goto", s>>
Off(h) == <<"poweroff", h>>
On(h) == <<"poweron", h>>
Migrate(h) == <<"migrate", h>>
Cross(h) == <<"crossmigrate", h>>
Do(name) == <<name, "local">>

\* The tests, as the calls they make when none fails.
PowerCycle == <<Goto("OFF"), Goto("OS")>>
RestoreConfig == <<Off("local"), On("local")>>
SecureBoot == <<Do("prepare"), Goto("OS"), Off("local"), On("local"), Goto("OS"),
                Off("local"), On("local"), Off("local"), On("local")>>
OnlyKdumpEnable == <<Do("ssh"), Do("restart"), Do("ssh")>>
Hugepage16G == <<Goto("OS"), Goto("OFF"), Do("sysoff"), Do("syson"), Goto("OS")>>
CecConfig == <<Do("sysoff"), Do("syson"), Do("kick")>>
ActiveMigration == <<Goto("OS"), Migrate("local"), Migrate("remote")>>
InactiveMigration == <<Goto("OS"), Off("local"), Migrate("local"), On("local"),
                       Off("local"), Migrate("remote"), On("local")>>
CrossMigration == <<Goto("OS"), Cross("local"), Cross("remote")>>
ColdMigration == <<Goto("OS"), Off("local"), Cross("local"), On("remote"),
                   Off("remote"), Cross("remote"), On("local")>>

Program == [
    off |-> PowerCycle, restore |-> RestoreConfig, dkgsb |-> SecureBoot,
    restart |-> OnlyKdumpEnable, hugepage |-> Hugepage16G, cec |-> CecConfig,
    lpm |-> ActiveMigration, inactive |-> InactiveMigration,
    cross |-> CrossMigration, cold |-> ColdMigration]

Looking == {"first", "clear", "again", "wait"}
Migrating == {"where", "validate", "start", "check", "answer", "stop", "recover"}
Powers == {"Operating", "Power Off In Progress", "Power Off", "Initializing"}
Seen == Parts \cup Powers \cup {"Migrating", "Not Available"}

TypeOK ==
    /\ left \in 0 .. Last
    /\ todo \in Seq(Calls)
    /\ src \in Systems
    /\ goal \in {None, "OFF", "OS"}
    /\ state \in {"UNKNOWN", "UNKNOWN_BAD", "OFF", "POWERING_OFF", "BOOTING", "OS"}
    /\ stop \in BOOLEAN
    /\ watermark \in booting_watermark .. kill_cord
    /\ op \in Calls \cup {Idle}
    /\ step \in Looking \cup Migrating \cup {None, "shutdown", "on", "ssh", "kick"}
    /\ looks \in 0 .. 1 + IF WaitLimit > ErrorLimit THEN WaitLimit ELSE ErrorLimit
    /\ saw \in Seen \cup {None, "up"}
    /\ mg \in Systems
    /\ part \in Parts
    /\ cec \in [Systems -> Powers]
    /\ asked \in {"nothing", "off", "on", "restart"}
    /\ at \in Systems
    /\ moving \in {None, "moving", "stuck"}
    /\ failed \in BOOLEAN /\ crashed \in BOOLEAN
    /\ blind \in BOOLEAN /\ unwaited \in BOOLEAN /\ unchecked \in BOOLEAN

\* --machine-state tells where the partition is, or that nobody knows.
Init ==
    /\ left = Last
    /\ todo = <<>>
    /\ src = Home
    /\ goal = None
    /\ \/ state = "OFF" /\ part = "Not Activated"
       \/ state = "OS" /\ part = "Running"
       \/ state \in {"UNKNOWN", "UNKNOWN_BAD"} /\ part \in Parts
    /\ stop = FALSE
    /\ watermark = booting_watermark
    /\ op = Idle
    /\ step = None
    /\ looks = 0
    /\ saw = None
    /\ mg = Home
    /\ cec = [s \in Systems |-> "Operating"]
    /\ asked = "nothing"
    /\ at = Home
    /\ moving = None
    /\ failed = FALSE
    /\ crashed = FALSE
    /\ blind = FALSE
    /\ unwaited = FALSE
    /\ unchecked = FALSE

-----------------------------------------------------------------------------
\* How calls begin and end.

Ready == op = Idle /\ goal = None
Other(s) == IF s = Home THEN Away ELSE Home

\* setUp() takes the systems of a migration from the HMC object.
BeginTest ==
    /\ Ready /\ todo = <<>> /\ left > 0
    /\ left' = left - 1
    /\ \E k \in Kinds : todo' = Program[k]
    /\ src' = mg
    /\ UNCHANGED <<machine, call, mg, partition, history>>

Enters(o, at_step) ==
    /\ op' = o
    /\ step' = at_step
    /\ looks' = 0
    /\ saw' = None

FirstStep(name) ==
    CASE name \in {"migrate", "crossmigrate"} -> "where"
      [] name \in {"ssh", "kick"} -> name
      [] OTHER -> "first"

Call ==
    /\ Ready /\ todo # <<>>
    /\ todo' = Tail(todo)
    /\ IF Head(todo)[1] = "goto"
       THEN goal' = Head(todo)[2] /\ UNCHANGED call
       ELSE Enters(Head(todo), FirstStep(Head(todo)[1])) /\ UNCHANGED goal
    /\ UNCHANGED <<left, src, state, stop, watermark, mg, partition, history>>

\* goto_state() goes on until it is where it is to be.
To(s) ==
    /\ state' = s
    /\ goal' = IF s = goal THEN None ELSE goal

\* An operation returns to goto_state(), or to the test.
Returns ==
    /\ Enters(Idle, None)
    /\ IF goal = None THEN UNCHANGED <<state, goal>>
       ELSE To(IF op[1] = "poweroff" THEN "POWERING_OFF" ELSE "BOOTING")
    /\ UNCHANGED <<stop, watermark, runner>>

\* An exception ends the test, or what the test tries, which are its next calls;
\* the state stays what it was.
Caught == op[2] = "try" \/ op[1] = "prepare"
AfterTry == IF todo # <<>> /\ Head(todo)[2] = "try" THEN Tail(todo) ELSE todo

Raises ==
    /\ Enters(Idle, None)
    /\ goal' = None
    /\ todo' = IF Caught THEN AfterTry ELSE <<>>
    /\ failed' = (failed \/ ~Caught)
    /\ blind' = (blind \/ step \in {"on", "kick"} \/ (op[1] = "poweron" /\ step = "wait"))
    /\ UNCHANGED <<left, src, crashed, unwaited, unchecked>>

\* An exception after the HMC was asked to bring the partition up.
Breaks ==
    /\ Enters(Idle, None)
    /\ goal' = None
    /\ todo' = <<>>
    /\ failed' = TRUE
    /\ unwaited' = TRUE
    /\ UNCHANGED <<left, src, crashed, blind, unchecked>>

-----------------------------------------------------------------------------
\* get_lpar_state(): the state, and the reference code for one that runs.

System == IF op[2] = "remote" THEN Away ELSE mg
Listed(s) == at = s \/ moving # None
OfSystem == op[1] \in {"sysoff", "syson"}
Dark(s) == cec[s] \in {"Power Off", "Initializing"}

LookAtState ==
    /\ step \in Looking /\ saw = None /\ ~OfSystem
    /\ Listed(System)
    /\ saw' = IF moving # None THEN "Migrating"
              ELSE IF Dark(at) THEN "Not Available"
              ELSE IF part \in {"Booting", "Running"} THEN "up" ELSE part
    /\ UNCHANGED <<op, step, looks, runner, machine, mg, partition, history>>

\* No reference code at all counts as Running.
LookAtRefcode ==
    /\ step \in Looking /\ saw = "up"
    /\ \/ part # "Booting" /\ saw' = "Running"
       \/ part # "Running" /\ saw' = "Booting"
    /\ UNCHANGED <<op, step, looks, runner, machine, mg, partition, history>>

\* get_system_state()
LookAtSystem ==
    /\ step \in Looking /\ saw = None /\ OfSystem
    /\ saw' = cec[mg]
    /\ UNCHANGED <<op, step, looks, runner, machine, mg, partition, history>>

\* Each query is a command on the HMC, which may fail; poweron_lpar() does not
\* mind while it waits for an error to clear.
LookFails ==
    /\ step \in Looking /\ saw \in {None, "up"}
    /\ IF step = "clear"
       THEN /\ step' = "again" /\ saw' = None
            /\ UNCHANGED <<op, looks, runner, goal, history>>
       ELSE Raises
    /\ UNCHANGED <<state, stop, watermark, mg, partition>>

Looked(s) == step = s /\ saw \in Seen
LooksOn(to) == step' = to /\ saw' = None /\ UNCHANGED op

-----------------------------------------------------------------------------
\* poweroff_lpar(), poweron_lpar(), restart_lpar() and wait_lpar_state()

Expected ==
    CASE op[1] = "poweroff" -> "Not Activated"
      [] op[1] = "sysoff" -> "Power Off"
      [] op[1] = "syson" -> "Operating"
      [] OTHER -> "Running"

AlreadyOff == {"Not Activated", "Not Available"}
AlsoShutting == saw \in IF op[1] = "poweron" THEN {"Running"}
                        ELSE AlreadyOff \cup {"Shutting Down"}
AlreadyThere == saw \in IF op[1] = "poweron" THEN {"Running"} ELSE AlreadyOff

Decide ==
    /\ Looked("first") /\ op[1] \in {"poweroff", "poweron", "restart"}
    /\ \/ AlreadyThere /\ Returns
       \/ /\ ~AlreadyThere
          /\ step' = IF op[1] = "poweron" /\ saw # "Error" THEN "again" ELSE "shutdown"
          /\ saw' = None
          /\ UNCHANGED <<op, looks, runner, machine>>
    /\ UNCHANGED <<mg, partition, history>>

\* chsysstate -o shutdown, with --restart or without: the HMC accepts it, or
\* refuses it for a partition it has nothing to shut down of; its answer may be
\* lost.
Command == IF op[1] = "restart" THEN "restart" ELSE "off"

Shutdown ==
    /\ step = "shutdown"
    /\ \/ /\ at = System /\ moving = None /\ part # "Not Activated"
          /\ asked' = Command
       \/ UNCHANGED asked
    /\ \/ /\ asked' = Command
          /\ LooksOn(IF op[1] = "poweron" THEN "clear" ELSE "wait")
          /\ looks' = IF op[1] = "poweron" THEN 1 ELSE 0
          /\ unwaited' = (unwaited \/ op[1] = "restart")
          /\ UNCHANGED <<runner, goal, failed, crashed, blind, unchecked>>
       \/ /\ op[1] = "poweron"
          /\ LooksOn("again")
          /\ UNCHANGED <<looks, runner, goal, history>>
       \/ op[1] = "poweroff" /\ Raises
       \/ op[1] = "restart" /\ asked' = asked /\ Raises
       \/ op[1] = "restart" /\ asked' = Command /\ Breaks
    /\ UNCHANGED <<state, stop, watermark, mg, part, cec, at, moving>>

SameLook == looks
Counted == looks + 1

ErrorClears ==
    /\ Looked("clear")
    /\ IF saw = "Not Activated" \/ looks = ErrorLimit
       THEN LooksOn("again") /\ looks' = 0
       ELSE LooksOn("clear") /\ looks' = Counted
    /\ UNCHANGED <<runner, machine, mg, partition, history>>

\* What the last look says is only logged.
GoesOn ==
    /\ Looked("again")
    /\ LooksOn("on")
    /\ UNCHANGED <<looks, runner, machine, mg, partition, history>>

\* chsysstate -o on: refused unless the partition is off, on a system that runs.
CanStart ==
    /\ at = System /\ moving = None
    /\ part = "Not Activated" /\ cec[at] = "Operating"

PowerOn ==
    /\ step = "on"
    /\ \/ /\ CanStart
          /\ asked' = "on"
          /\ Enters(op, "wait")
          /\ UNCHANGED <<runner, goal, history>>
       \/ Raises /\ UNCHANGED asked
       \/ Raises /\ CanStart /\ asked' = "on"
    /\ UNCHANGED <<state, stop, watermark, mg, part, cec, at, moving>>

\* The look after the last one that counts is made in vain.
OneLookMore == looks > WaitLimit + 1
Overdue == looks > WaitLimit

Waited ==
    /\ Looked("wait")
    /\ \/ Overdue /\ Raises /\ UNCHANGED <<state, stop, watermark>>
       \/ /\ ~Overdue /\ saw = Expected
          /\ Returns
          /\ blind' = (blind \/ (Expected = "Running" /\ goal = None /\ state = "OFF"))
          /\ unwaited' = (unwaited /\ ~(part = "Running" /\ asked = "nothing"))
          /\ UNCHANGED <<failed, crashed, unchecked>>
       \* poweron_system() goes on with the VIOS, which may not start
       \/ ~Overdue /\ saw = Expected /\ op[1] = "syson" /\ Raises
          /\ UNCHANGED <<state, stop, watermark>>
       \/ /\ ~Overdue /\ saw # Expected
          /\ LooksOn("wait") /\ looks' = Counted
          /\ UNCHANGED <<runner, machine, history>>
    /\ UNCHANGED <<mg, partition>>

-----------------------------------------------------------------------------
\* poweroff_system() and poweron_system(), and what tests do by themselves

Needed == IF op[1] = "sysoff" THEN "Operating" ELSE "Power Off"
Begun == IF op[1] = "sysoff" THEN "Power Off In Progress" ELSE "Initializing"

PowerSystem ==
    /\ Looked("first") /\ OfSystem
    /\ \/ /\ saw = Needed /\ cec[mg] = saw /\ moving = None
          /\ cec' = [cec EXCEPT ![mg] = Begun]
       \/ UNCHANGED cec
    /\ \/ /\ cec' # cec
          /\ LooksOn("wait")
          /\ UNCHANGED <<looks, runner, goal, history>>
       \/ Raises
    /\ UNCHANGED <<state, stop, watermark, mg, part, asked, at, moving>>

\* setUp() of the secure boot tests brings a partition up that is not, as far as
\* it can.
Prepare ==
    /\ Looked("first") /\ op[1] = "prepare"
    /\ todo' = CASE saw = "Open Firmware" -> <<Off("try"), On("try")>> \o todo
                 [] saw \in {"Running", "Booting"} -> todo
                 [] OTHER -> <<On("try")>> \o todo
    /\ Enters(Idle, None)
    /\ UNCHANGED <<left, src, machine, mg, partition, history>>

\* A command over ssh, or wait_for_ssh_after_reboot().
OverSSH ==
    /\ step = "ssh"
    /\ \/ /\ part = "Running"
          /\ Returns
          /\ UNCHANGED history
       \/ Raises /\ UNCHANGED <<state, stop, watermark>>
    /\ UNCHANGED <<mg, partition>>

\* CecSetup() ends with a power-on of its own, and does not wait.
Kick ==
    /\ step = "kick"
    /\ \/ /\ CanStart
          /\ asked' = "on"
          /\ Enters(Idle, None)
          /\ unwaited' = TRUE
          /\ blind' = (blind \/ state = "OFF")
          /\ UNCHANGED <<runner, goal, failed, crashed, unchecked>>
       \/ CanStart /\ asked' = "on" /\ Raises
       \/ UNCHANGED asked /\ Raises
    /\ UNCHANGED <<state, stop, watermark, mg, part, cec, at, moving>>

-----------------------------------------------------------------------------
\* migrate_lpar() and cross_hmc_migration()

From == IF op[2] = "local" THEN src ELSE Away
Dest == IF op[2] = "local" THEN Away ELSE src
Migrates == op[1] \in {"migrate", "crossmigrate"}

\* A command of a migration fails: the exception leaves what the HMC does alone.
MigrationFails ==
    /\ Migrates
    /\ Raises
    /\ UNCHANGED <<state, stop, watermark, mg, partition>>

FindsIt ==
    /\ step = "where" /\ Listed(From)
    /\ step' = "validate"
    /\ UNCHANGED <<op, looks, saw, runner, machine, mg, partition, history>>

Validate ==
    /\ step = "validate"
    /\ From # Dest /\ at = From /\ moving = None
    /\ \A s \in Systems : cec[s] = "Operating"
    /\ step' = "start"
    /\ UNCHANGED <<op, looks, saw, runner, machine, mg, partition, history>>

\* migrlpar -o m may end before the migration does, or in vain.
Start ==
    /\ step = "start" /\ at = From /\ moving = None
    /\ at' \in {From, Dest}
    /\ moving' \in {None, "moving", "stuck"}
    /\ at' = Dest => moving' = None
    /\ \/ /\ op[1] = "migrate"
          /\ step' = "check"
          /\ UNCHANGED <<op, looks, saw, runner, goal, history>>
       \/ /\ op[1] = "crossmigrate" /\ at' = From /\ moving' # None
          /\ unchecked' = TRUE
          /\ Enters(Idle, None)
          /\ UNCHANGED <<goal, runner, failed, crashed, blind, unwaited>>
       \/ /\ op[1] = "crossmigrate" /\ at' = Dest
          /\ Enters(Idle, None)
          /\ UNCHANGED <<goal, runner, history>>
       \/ Raises
    /\ UNCHANGED <<state, stop, watermark, mg, part, cec, asked>>

\* After its pause migrate_lpar() looks for the partition where it should be.
Check ==
    /\ step = "check"
    /\ \/ /\ Listed(Dest)
          /\ step' = "answer"
          /\ UNCHANGED <<op, looks, saw, runner, goal, history>>
       \/ ~Listed(Dest) /\ Raises
    /\ UNCHANGED <<state, stop, watermark, mg, partition>>

AssumedOver == TRUE
Over == moving = None
Forgets(s) == mg' = mg
Names(s) == mg' = s

CheckState ==
    /\ step = "answer" /\ Listed(Dest)
    /\ \/ /\ Over
          /\ Names(Dest)
          /\ unchecked' = FALSE
          /\ Enters(Idle, None)
          /\ UNCHANGED <<failed, crashed, blind, unwaited>>
       \/ /\ ~Over
          /\ step' = "stop"
          /\ UNCHANGED <<op, looks, saw, mg, history>>
    /\ UNCHANGED <<runner, machine, partition>>

\* recover_lpar(): the migration is stopped, the partition recovered at its
\* source; the test fails whatever comes of it.
StopMigration ==
    /\ step = "stop" /\ moving # None
    /\ moving' = "stuck"
    /\ step' = "recover"
    /\ UNCHANGED <<op, looks, saw, runner, machine, mg, part, cec, asked,
                   at, history>>

Recover ==
    /\ step = "recover"
    /\ moving' = None
    /\ Raises
    /\ UNCHANGED <<state, stop, watermark, mg, part, cec, asked, at>>

-----------------------------------------------------------------------------
\* goto_state() and the handlers of OpTestLPARSystem

In(s) == goal # None /\ op = Idle /\ state = s

\* Detection, which is in OpTestSystem, comes before anything else.
Detect ==
    /\ In("UNKNOWN") /\ ~stop
    /\ \/ part = "Running" /\ To("OS")
       \/ To("UNKNOWN_BAD")
    /\ UNCHANGED <<runner, stop, watermark, call, mg, partition, history>>

Stopped ==
    /\ goal # None /\ op = Idle /\ stop
    /\ \/ UNCHANGED state
       \/ state = "UNKNOWN" /\ part = "Running" /\ state' = "OS"
    /\ Raises
    /\ UNCHANGED <<stop, watermark, mg, partition>>

\* run_UNKNOWN() and run_OS() power off; run_OS() asks nobody when the OS is
\* what is wanted.
RunUNKNOWN ==
    /\ In("UNKNOWN_BAD") /\ ~stop
    /\ Enters(Off("local"), "first")
    /\ UNCHANGED <<runner, machine, mg, partition, history>>

RunOS ==
    /\ In("OS") /\ ~stop
    /\ \/ goal = "OS" /\ To("OS") /\ UNCHANGED call
       \/ goal # "OS" /\ Enters(Off("local"), "first") /\ UNCHANGED <<state,
                                                                      goal>>
    /\ UNCHANGED <<runner, stop, watermark, mg, partition, history>>

\* sys_wait_for_standby_state() of an LPAR answers at once.
RunPOWERINGOFF ==
    /\ In("POWERING_OFF") /\ ~stop
    /\ To("OFF")
    /\ UNCHANGED <<runner, stop, watermark, call, mg, partition, history>>

RunOFF ==
    /\ In("OFF") /\ ~stop
    /\ \/ goal = "OFF" /\ To("OFF") /\ UNCHANGED call
       \/ goal # "OFF" /\ Enters(On("local"), "first") /\ UNCHANGED <<state,
                                                                      goal>>
    /\ UNCHANGED <<runner, stop, watermark, mg, partition, history>>

\* The partition's sshd, or its console, asks for a login.
Booted ==
    /\ In("BOOTING") /\ ~stop
    /\ part = "Running"
    /\ To("OS")
    /\ UNCHANGED <<runner, stop, watermark, call, mg, partition, history>>

\* It does not in time: power off and try again, until the kill cord.
BootOverdue ==
    /\ In("BOOTING") /\ ~stop
    /\ \/ /\ watermark < kill_cord
          /\ watermark' = watermark + 1
          /\ To("UNKNOWN_BAD")
          /\ UNCHANGED <<stop, runner, call, history>>
       \/ /\ watermark >= kill_cord
          /\ state' = "UNKNOWN"
          /\ stop' = TRUE
          /\ Raises
          /\ UNCHANGED watermark
    /\ UNCHANGED <<mg, partition>>

\* The console fails, or shows that the kernel does.
BootFails ==
    /\ In("BOOTING") /\ ~stop
    /\ state' = "UNKNOWN_BAD"
    /\ stop' = TRUE
    /\ Raises
    /\ UNCHANGED <<watermark, mg, partition>>

-----------------------------------------------------------------------------
\* The HMC and the partition.

optest == <<runner, machine, call, mg>>

BeginsOff ==
    /\ asked = "off"
    /\ asked' = "nothing"
    /\ part' = IF part = "Not Activated" THEN part ELSE "Shutting Down"
    /\ UNCHANGED <<optest, cec, at, moving, history>>

BeginsOn ==
    /\ asked = "on" /\ part = "Not Activated"
    /\ asked' = "nothing"
    /\ part' = "Starting"
    /\ UNCHANGED <<optest, cec, at, moving, history>>

BeginsRestart ==
    /\ asked = "restart"
    /\ asked' = "on"
    /\ part' = IF part = "Not Activated" THEN part ELSE "Shutting Down"
    /\ UNCHANGED <<optest, cec, at, moving, history>>

\* A system that goes off takes its partition with it.
SystemGoesOff ==
    \E s \in Systems :
        /\ cec[s] = "Power Off In Progress"
        /\ cec' = [cec EXCEPT ![s] = "Power Off"]
        /\ IF at = s THEN part' = "Not Activated" /\ asked' = "nothing"
                     ELSE UNCHANGED <<part, asked>>
        /\ UNCHANGED <<optest, at, moving, history>>

SystemComesUp ==
    \E s \in Systems :
        /\ cec[s] = "Initializing"
        /\ cec' = [cec EXCEPT ![s] = "Operating"]
        /\ UNCHANGED <<optest, part, asked, at, moving, history>>

Boots == [from \in {"Starting", "Open Firmware", "Booting", "Shutting Down"} |->
    CASE from = "Starting" -> "Open Firmware"
      [] from = "Open Firmware" -> "Booting"
      [] from = "Booting" -> "Running"
      [] from = "Shutting Down" -> "Not Activated"]

Progresses ==
    /\ part \in DOMAIN Boots
    /\ part' = Boots[part]
    /\ UNCHANGED <<optest, cec, asked, at, moving, history>>

Crashes ==
    /\ part \in {"Open Firmware", "Booting", "Running"}
    /\ part' \in {"Booting", "Error", "Not Activated"}
    /\ crashed' = TRUE
    /\ UNCHANGED <<optest, cec, asked, at, moving, failed, blind, unwaited,
                   unchecked>>

MigrationEnds ==
    /\ moving = "moving"
    /\ \/ moving' = None /\ at' \in Systems
       \/ moving' = "stuck" /\ UNCHANGED at
    /\ UNCHANGED <<optest, part, cec, asked, history>>

-----------------------------------------------------------------------------
OpTest ==
    \/ BeginTest \/ Call
    \/ LookAtState \/ LookAtRefcode \/ LookAtSystem \/ LookFails
    \/ Decide \/ Shutdown \/ ErrorClears \/ GoesOn \/ PowerOn \/ Waited
    \/ PowerSystem \/ Prepare \/ OverSSH \/ Kick
    \/ MigrationFails \/ FindsIt \/ Validate \/ Start \/ Check \/ CheckState
    \/ StopMigration \/ Recover
    \/ Detect \/ Stopped \/ RunUNKNOWN \/ RunOS \/ RunPOWERINGOFF \/ RunOFF
    \/ Booted \/ BootOverdue \/ BootFails

Environment ==
    \/ BeginsOff \/ BeginsOn \/ BeginsRestart \/ Progresses \/ Crashes
    \/ SystemGoesOff \/ SystemComesUp \/ MigrationEnds

Next == OpTest \/ Environment

\* op-test is never stuck in a step: every command and wait has a timeout.
\* Nothing is promised of the HMC and the partition.
Spec == Init /\ [][Next]_vars /\ WF_vars(OpTest)

-----------------------------------------------------------------------------
\* A state machine that believes the partition to be off is right, although
\* its wait for standby asks nobody: unless a power-on raised after the HMC had
\* been asked, or a test made one, or a restart, which leaves the state at OFF;
\* or a restart that nobody saw the end of was taken for a power-off.
OffIsOff ==
    state = "OFF" =>
        \/ part = "Not Activated" /\ asked # "on"
        \/ op[1] = "poweron" /\ step = "wait"
        \/ blind \/ unwaited

\* The HMC object names the system the partition is on, or a test has failed:
\* except while a migration is being made, or when cross_hmc_migration()
\* returned before the migration was over.
UnderWay == Migrates \/ \E i \in DOMAIN todo : todo[i][1] = "crossmigrate"
MisnamedIsReported ==
    (at # mg \/ moving # None) =>
        failed \/ unchecked \/ UnderWay

\* Tests that all pass leave the partition where they found it, its systems on,
\* and in the state the next goto_state() will start from, also those that power
\* it and move it behind the state machine's back; but a restart, or a power-on
\* that nobody waited for, may still be under way.
PassedLeavesAsFound ==
    (Ready /\ todo = <<>> /\ ~failed) =>
        /\ mg = Home
        /\ unchecked \/ at = Home
        /\ \A s \in Systems : cec[s] = "Operating"
        /\ (~crashed /\ state = "OS") => part = "Running" \/ unwaited

\* Whatever the HMC and the partition do, all the tests come to an end.
TestsEnd == <>[](left = 0 /\ todo = <<>> /\ Ready)
=============================================================================
