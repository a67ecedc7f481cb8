------------------------------ MODULE Scripts -------------------------------
(***************************************************************************)
(* The vocabulary in which the modules PowerTests, PlatformTests,          *)
(* DumpTests, FirmwareTests and DeviceTests write down what a test does to *)
(* the machine and to op-test's belief about it.  A test is a sequence of  *)
(* steps; what a step means is said in the module Platform.                *)
(*                                                                         *)
(* Of the commands of a test only their effects are kept, and that any of  *)
(* them may raise (CommandFailed, a timeout, an assertion on its output):  *)
(* Runs(way) stands for all the commands and assertions between two effects.*)
(***************************************************************************)
EXTENDS Naturals, Sequences, TLC

Out == 0                            \* the exception leaves setUp, body, tearDown
Skip == 1000                        \* it is SkipTest

\* way: what a command goes over.  els: where to go on when the step raises,
\* relative to the step.
Step(op, arg, n) == [op |-> op, arg |-> arg, way |-> "", n |-> n, els |-> {Out}]

Goto(t)        == Step("goto", t, 1)            \* cv_SYSTEM.goto_state(t)
Tells(s)       == Step("tells", s, 1)           \* cv_SYSTEM.set_state(s)
ClearsStop     == Step("unstop", "", 1)         \* cv_SYSTEM.stop = 0
Runs(way)      == Step("runs", way, 1)          \* commands over the console, ssh,
                                                \* or to the BMC; "any": what may be
                                                \* heard wherever the machine is
                                                \* a command that makes the change
Sets(way, c)   == [Step("sets", c, 1) EXCEPT !.way = way]
Clears(way, c) == [Step("clears", c, 1) EXCEPT !.way = way]     \* c, or takes it back
Powers(how)    == Step("powers", how, 1)        \* the power: on, off, soft, cycle
Types(how)     == Step("types", how, 1)         \* sendline() of a reboot, a shutdown,
                                                \* or of what makes it checkstop
Commands(how)  == Step("commands", how, 1)      \* the same over ssh
Resets         == Step("resets", "", 1)         \* the BMC restarts
Sees(h)        == Step("sees", h, 1)            \* waits until the machine is at h
AwaitsOffline  == Step("awaits", "", 1)         \* waits, for ever, until no ping is answered
Checks(c)      == Step("checks", c, 1)          \* asserts that c is not the case
Fails          == Step("fails", "", 1)          \* raises
Fork(n)        == Step("fork", "", n)           \* goes on with the next, or the n-th
Jump(n)        == Step("jump", "", n)
Unless(c, n)   == Step("unless", c, n)          \* to the n-th unless c is the case
UnlessIn(s, n) == Step("unlessin", s, n)        \* ... unless op-test is in state s

\* The step raises SkipTest instead, or what it raises is passed over.
OrSkips(step) == [step EXCEPT !.els = {Skip}]
Ignoring(step) == [step EXCEPT !.els = {1}]
IgnoringSome(step) == [step EXCEPT !.els = {Out, 1}]
OrAlsoSkips(step) == [step EXCEPT !.els = {Out, Skip}]

Maybe(seq) == <<Fork(Len(seq) + 1)>> \o seq
Either(a, b) == <<Fork(Len(a) + 2)>> \o a \o <<Jump(Len(b) + 1)>> \o b
When(c, seq) == <<Unless(c, Len(seq) + 1)>> \o seq
WhenIn(s, seq) == <<UnlessIn(s, Len(seq) + 1)>> \o seq
Depending(c, a, b) == <<Unless(c, Len(a) + 2)>> \o a \o <<Jump(Len(b) + 1)>> \o b
Requires(c) == <<Unless(c, 2), Jump(2), Fails>>

\* A step whose failure ends a loop n steps long, without an exception.
Breaking(step, n) == [step EXCEPT !.els = {n}]

\* Loops run twice, whatever their length in the code.
Twice(seq) == seq \o seq

\* try: seq; except: handler, for every exception or for some kinds of it.
Caught(seq, handler, kinds) ==
    [i \in 1 .. Len(seq) |->
        IF Out \in seq[i].els
        THEN [seq[i] EXCEPT !.els = (seq[i].els \ {Out}) \cup kinds \cup {Len(seq) + 2 - i}]
        ELSE seq[i]]
      \o <<Jump(Len(handler) + 1)>> \o handler
TryAll(seq, handler) == Caught(seq, handler, {})
TrySome(seq, handler) == Caught(seq, handler, {Out})

\* A test case: its steps, and where its body and its tearDown begin.
Test(setUp, body, tearDown) ==
    [steps |-> setUp \o body \o tearDown,
     body |-> Len(setUp) + 1, tearDown |-> Len(setUp) + Len(body) + 1]

Case(setUp, body) == Test(setUp, body, <<>>)
Body(body) == Test(<<>>, body, <<>>)

\* The tests of a class: its name before theirs.
Of(class, tests) ==
    [name \in {class \o t : t \in DOMAIN tests} |->
        tests[CHOOSE t \in DOMAIN tests : class \o t = name]]
-----------------------------------------------------------------------------
\* What many tests call.

\* The connection to a machine that is at t: skiroot has no ssh.
WayTo(t) == IF t = "OS" THEN "ssh" ELSE "console"

PowerCycle(t) == <<Goto("OFF"), Goto(t)>>

\* OpTestSystem answers FW_FAILED, which no test looks at; OpTestOpenBMCSystem
\* and OpTestFSPSystem raise.
sys_power_on == IgnoringSome(Powers("on"))
sys_power_soft == IgnoringSome(Powers("soft"))
sys_reset_bmc == IgnoringSome(Resets)
sys_wait_for_standby_state == IgnoringSome(Sees("off"))
run_command_ignore_fail == IgnoringSome(Runs("console"))
run_over_ssh_ignore_fail == IgnoringSome(Runs("ssh"))
PingFunc == Sees("ping")
MaySkip == OrSkips(Runs("bmc"))
=============================================================================
