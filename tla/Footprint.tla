----------------------------- MODULE Footprint ------------------------------
(***************************************************************************)
(* What one test of Platform can do to the machine, whatever the tests     *)
(* before it have done: the configurations that it comes through, as long  *)
(* as nothing has failed, from any belief of op-test and any place of the  *)
(* machine.  They are found by one sweep over its steps, for a test only   *)
(* ever goes forward; what Platform does with any number of tests follows  *)
(* from them.                                                              *)
(***************************************************************************)
EXTENDS Platform

\* A configuration, at a step: what op-test believes, where the machine is, what
\* may be changed of what the test changes and of what it asks for, and whether
\* op-test "knew" where the machine was when the test began, was "lost" or has to
\* do with a machine that HTX reboots, or knew and then the firmware "refused" to
\* boot what an earlier test had left.
Config(i, s, h, own, trust) ==
    [at |-> i, state |-> s, host |-> h, own |-> own, trust |-> trust]

\* What decides of a test's way, of what it may find changed.
Asked(t) ==
    LET S == Programs[t].steps IN
    {S[i].arg : i \in {j \in 1 .. Len(S) : S[j].op = "unless"}}
      \cup {c \in {"policy"} : \E j \in 1 .. Len(S) : S[j].op = "resets"}

Starts(f) ==
    {Config(1, s, h, f, "lost") : s \in States, h \in Hosts}
      \cup {Config(1, p[1], p[2], f, "knew") : p \in {q \in States \X Hosts : Agrees(q[1], q[2])}}

\* A test that passes in d has found f of what it asks for.
Knows(f, d) ==
    \/ Agrees(d.state, d.host)
    \/ d.state \in {"IPLing", "BOOTING"} /\ (d.trust = "refused" \/ f \cap Refusing # {})
EndsWell(t, f, d) ==
    /\ d.own \subseteq f \cup LeavesBehind[t] \cup {c \in {"backup"} : "kdumpconf" \in f}
    /\ d.trust # "lost" /\ t \notin Careless /\ "policy" \notin f => Knows(f, d)

-----------------------------------------------------------------------------
\* Where a step leads to, after Platform's actions.

On(c) == {c.at + 1}
Caught(step, c) == {c.at + e : e \in step.els \ {0, Skip}}
Either(step, c) == On(c) \cup Caught(step, c)

Only(condition, moves) == IF condition THEN moves ELSE {}
Moved(c, places, states, hosts, own) ==
    {Config(i, s, h, own, c.trust) : i \in places, s \in states, h \in hosts}
Stay(c, places) == Moved(c, places, {c.state}, {c.host}, c.own)

ControlMoves(step, c) ==
    Only(step.op = "fails", Stay(c, Caught(step, c)))
      \cup Only(step.op = "fork", Stay(c, On(c) \cup {c.at + step.n}))
      \cup Only(step.op = "jump", Stay(c, {c.at + step.n}))
      \cup Only(step.op = "unless" /\ step.arg \in c.own, Stay(c, On(c)))
      \cup Only(step.op = "unless",
                Moved(c, {c.at + step.n}, {c.state}, {c.host}, c.own \ {step.arg}))
      \cup Only(step.op = "unlessin",
                Stay(c, IF step.arg = c.state THEN On(c) ELSE {c.at + step.n}))

StateMoves(step, c) ==
    Only(step.op = "tells", Moved(c, On(c), {step.arg}, {c.host}, c.own))
      \cup Only(step.op = "unstop", Stay(c, On(c)))

\* goto_state() gives up, or has detected: that may be anywhere.
GivesUpMoves(step, c) ==
    UNION {Moved(c, Caught(step, c), {p[1]}, {p[2]}, Kept(c.own, c.host, p[2])) :
              p \in GivenUp(step.arg, c.state, c.host)}

GotoMoves(step, c) ==
    LET t == step.arg
        Arrived(h, own) == Moved(c, On(c), {t}, {h}, own) IN
    Stay(c, Caught(step, c))
      \cup Only(Stands(t, c.state, c.host), Arrived(c.host, c.own))
      \cup Only(Boots(t, c.state, c.host), Arrived(HostOf(t), Booted(c.own)))
      \cup Only(PowerCycles(t, c.state, c.host), Arrived(HostOf(t), Cycled(c.own)))
      \cup Only(Caught(step, c) # {} /\ Leaving(t, c.state), GivesUpMoves(step, c))

Changed(step, c, own) ==
    Stay(c, Caught(step, c))
      \cup Only(Reaches(step.way, c.host), Moved(c, Either(step, c), {c.state}, {c.host}, own))
ChangeMoves(step, c) ==
    Only(step.op = "sets", Changed(step, c, c.own \cup {step.arg}))
      \cup Only(step.op = "clears", Changed(step, c, c.own \ {step.arg}))

LookMoves(step, c) ==
    Stay(c, Caught(step, c))
      \cup Only(step.op = "runs" /\ Reaches(step.arg, c.host), Stay(c, On(c)))
      \cup Only(step.op = "sees" /\ Shown(step.arg, c.host), Stay(c, On(c)))
      \cup Only(step.op = "checks", Moved(c, On(c), {c.state}, {c.host}, c.own \ {step.arg}))

PowerMoves(step, c) ==
    Stay(c, Caught(step, c))
      \cup Only(step.op = "powers",
                Moved(c, On(c), {c.state}, {Powered(step.arg, c.host)},
                      IF CutsPower(step.arg, c.host) THEN Cycled(c.own) ELSE c.own))
      \cup Only(step.op = "resets",
                Moved(c, On(c), {c.state},
                      IF c.host = "off" /\ "policy" \in c.own THEN {c.host, "ipl"}
                      ELSE {c.host}, c.own))

RebootMoves(step, c) ==
    Stay(c, IF step.op = "types" THEN Either(step, c) ELSE Caught(step, c))
      \cup Only(Obeys(step.op, c.host),
                Moved(c, Either(step, c), {c.state}, {GoingTo(step.arg)},
                      IF step.arg = "checkstop" THEN Booted(c.own) ELSE c.own))

After(step, c) ==
    CASE step.op \in {"fails", "fork", "jump", "unless", "unlessin"} -> ControlMoves(step, c)
      [] step.op \in {"tells", "unstop"} -> StateMoves(step, c)
      [] step.op = "goto" -> GotoMoves(step, c)
      [] step.op \in {"sets", "clears"} -> ChangeMoves(step, c)
      [] step.op \in {"runs", "sees", "checks"} -> LookMoves(step, c)
      [] step.op \in {"powers", "resets"} -> PowerMoves(step, c)
      [] step.op \in {"types", "commands"} -> RebootMoves(step, c)
      [] step.op = "awaits" -> Stay(c, On(c))

MachineMoves(c) ==
    Only(c.host = "os" /\ (c.trust = "lost" \/ "bootme" \in c.own),
         Moved(c, {c.at}, {c.state}, {"rebooting"}, c.own))
      \cup Only(c.host = "rebooting", Moved(c, {c.at}, {c.state}, {"ipl"}, Booted(c.own)))
      \cup Only(c.host = "halting", Moved(c, {c.at}, {c.state}, {"off"}, Cycled(c.own)))
      \cup Only(c.host = "ipl", Moved(c, {c.at}, {c.state}, {"petitboot", "os"}, c.own)
            \cup {Config(c.at, c.state, "off", Cycled(c.own),
                         IF c.trust = "knew" /\ c.own \cap Refusing = {} THEN "refused"
                         ELSE c.trust)})

-----------------------------------------------------------------------------
\* From an OS that HTX reboots to the end of the boot, and to the next reboot, it is
\* four moves.
Settled(cs) ==
    LET Round(r) ==
            LET new == UNION {MachineMoves(c) : c \in r.new} \ r.known
            IN [known |-> r.known \cup new, new |-> new]
        Rounds[n \in 0 .. 4] ==
            IF n = 0 THEN [known |-> cs, new |-> cs] ELSE Round(Rounds[n - 1])
    IN Rounds[4].known

\* The configurations at each step of a test that has found f.
Reached(t, f) ==
    LET S == Programs[t].steps
        Arrive(swept, i) ==
            LET here == Settled({c \in swept.ahead : c.at = i})
            IN [seen |-> Append(swept.seen, here),
                ahead |-> {c \in swept.ahead : c.at > i} \cup UNION {After(S[i], c) : c \in here}]
        Sweep[i \in 0 .. Len(S)] ==
            IF i = 0 THEN [seen |-> <<>>, ahead |-> Starts(f)] ELSE Arrive(Sweep[i - 1], i)
    IN Sweep[Len(S)].seen

\* Those in which it passes.
Ends(R, t) ==
    LET S == Programs[t].steps IN
    {d \in UNION {UNION {After(S[i], c) : c \in R[i]} : i \in 1 .. Len(S)} : d.at > Len(S)}

\* Nothing leads out of them, but for a good end.
Bounds(R, t, f) ==
    /\ Starts(f) \subseteq R[1]
    /\ \A i \in 1 .. Len(Programs[t].steps) : \A c \in R[i] :
          /\ MachineMoves(c) \subseteq R[i]
          /\ \A d \in After(Programs[t].steps[i], c) :
                IF d.at > Len(Programs[t].steps) THEN EndsWell(t, f, d) ELSE d \in R[d.at]
=============================================================================
