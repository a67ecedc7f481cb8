--------------------------- MODULE ConnectionPool ---------------------------
(***************************************************************************)
(* The pool of ssh connections of common/OpTestConnectionManager.py, its   *)
(* users and its health monitor threads.  The manager's lock is held over  *)
(* a whole operation; checking or closing a connection also needs that     *)
(* connection's own lock, which a running command holds, so an operation   *)
(* takes the manager's lock in one step and does its work in a later one.  *)
(***************************************************************************)
EXTENDS Naturals, FiniteSets

CONSTANTS
    Users,              \* threads that get, use and release connections
    Monitors,           \* threads that may run _health_monitor_loop
    Keys,               \* username@host:port
    MayAsk,             \* the keys each user asks for
    Conns,              \* connection objects
    MaxConnections,
    NoConn, Nobody

Threads == Users \cup Monitors

ASSUME UsersAssumption == MayAsk \in [Users -> SUBSET Keys]
\* A connection object always has a host, so there is a key.
ASSUME KeysAssumption == Keys # {}
ASSUME DistinctAssumption ==
    Users \cap Monitors = {} /\ NoConn \notin Conns /\ Nobody \notin Threads
ASSUME MaxAssumption == MaxConnections \in Nat

VARIABLES
    connections,        \* the pool: at most one connection per key
    in_use,             \* ConnectionInfo.in_use
    stale,              \* "idle" and "old": past max_idle_time, past max_connection_age
    session,            \* the ssh session: "closed", "up", or "dead" and not noticed
    keyOf,              \* host, username and port of the connection
    lock,               \* OpTestConnectionManager.lock
    health_monitor_running,
    pc,                 \* what each thread does
    ask,                \* the key a user asks for
    holds               \* the connection a user was handed

vars == <<connections, in_use, stale, session, keyOf, lock,
          health_monitor_running, pc, ask, holds>>
pool == <<connections, in_use, stale, session, keyOf>>

UserSteps == {"out", "get", "connect", "have", "command", "close", "all"}
MonitorSteps == {"none", "sleep", "clean"}

TypeOK ==
    /\ connections \in [Keys -> Conns \cup {NoConn}]
    /\ in_use \in [Conns -> BOOLEAN]
    /\ stale \in [Conns -> {"fresh", "idle", "old"}]
    /\ session \in [Conns -> {"closed", "up", "dead"}]
    /\ keyOf \in [Conns -> Keys]
    /\ lock \in Threads \cup {Nobody}
    /\ health_monitor_running \in BOOLEAN
    /\ pc \in [Threads -> UserSteps \cup MonitorSteps]
    /\ ask \in [Users -> Keys]
    /\ holds \in [Users -> Conns \cup {NoConn}]

Init ==
    /\ connections = [k \in Keys |-> NoConn]
    /\ in_use = [c \in Conns |-> FALSE] /\ stale = [c \in Conns |-> "fresh"]
    /\ session = [c \in Conns |-> "closed"]
    /\ keyOf = [c \in Conns |-> CHOOSE k \in Keys : TRUE]
    /\ lock = Nobody /\ health_monitor_running = FALSE
    /\ pc = [t \in Threads |-> IF t \in Users THEN "out" ELSE "none"]
    /\ ask = [u \in Users |-> CHOOSE k \in Keys : TRUE]
    /\ holds = [u \in Users |-> NoConn]

-----------------------------------------------------------------------------
(* Connections.                                                            *)

Pooled == {connections[k] : k \in Keys} \ {NoConn}

\* A running command holds the connection's lock until the host answered.
Busy(c) == \E u \in Users : pc[u] = "command" /\ holds[u] = c
Healthy(c) == session[c] = "up"

\* ConnectionInfo.acquire, and what it and release do to the idle time.
Acquire(c) == ~in_use[c]
Touched(c) == IF stale[c] = "idle" THEN "fresh" ELSE stale[c]

\* _close_connection on every connection of cs.
Drop(cs) == connections' = [k \in Keys |->
                        IF connections[k] \in cs THEN NoConn ELSE connections[k]]
KeptOpen(cs) == session
Closed(cs) == [c \in Conns |-> IF c \in cs THEN "closed" ELSE session[c]]

\* _cleanup_stale_connections_internal skips the connections in use.
CleanAll == {c \in Pooled : ~Healthy(c) \/ stale[c] # "fresh"}
ToClean == {c \in Pooled : ~in_use[c] /\ (~Healthy(c) \/ stale[c] # "fresh")}

\* A connection object nobody refers to: a new one.
Unused(c) == c \notin Pooled /\ session[c] = "closed" /\ \A u \in Users : holds[u] # c

-----------------------------------------------------------------------------
(* get_connection, release_connection, close_connection, cleanup_all.      *)

Goes(t, step) == pc' = [pc EXCEPT ![t] = step]
Holds(u, c) == holds' = [holds EXCEPT ![u] = c]
TakesLock(t) == lock = Nobody /\ lock' = t
LeavesLock == UNCHANGED lock
FreesLock == lock' = Nobody

Begins(u, step) ==
    /\ TakesLock(u) /\ Goes(u, step)
    /\ UNCHANGED <<pool, health_monitor_running, holds>>

BeginGet(u) ==
    /\ pc[u] = "out" /\ Begins(u, "get")
    /\ \E k \in MayAsk[u] : ask' = [ask EXCEPT ![u] = k]

\* Reuse needs an answer of the connection, so it waits for a running command.
Reuses(u) ==
    LET c == connections[ask[u]] IN
    /\ pc[u] = "get" /\ c # NoConn /\ ~Busy(c)
    /\ Healthy(c) /\ stale[c] # "old" /\ Acquire(c)
    /\ in_use' = [in_use EXCEPT ![c] = TRUE]
    /\ stale' = [stale EXCEPT ![c] = Touched(c)]
    /\ Holds(u, c) /\ Goes(u, "have") /\ FreesLock
    /\ UNCHANGED <<connections, session, keyOf, health_monitor_running, ask>>

\* In use: left as it is, and replaced below.  Unhealthy or too old: closed,
\* whoever uses it.  Then the connection limit only triggers a clean-up.
NeedsNew(u) ==
    LET c == connections[ask[u]]
        gone == IF c # NoConn /\ (~Healthy(c) \/ stale[c] = "old") THEN {c} ELSE {}
        full == Cardinality(Pooled \ gone) >= MaxConnections
        clean == IF full THEN ToClean \ gone ELSE {} IN
    /\ pc[u] = "get"
    /\ c # NoConn => ~Busy(c) /\ (gone # {} \/ ~Acquire(c))
    /\ \A d \in clean : ~Busy(d)
    /\ Drop(gone \cup clean) /\ session' = Closed(gone \cup clean)
    /\ Goes(u, "connect")
    /\ UNCHANGED <<in_use, stale, keyOf, lock, health_monitor_running, ask,
                   holds>>

\* OpTestSSHConnection.connect under the lock: it succeeds, and the new
\* connection replaces any other of its key, or it raises.
Connects(u) ==
    /\ pc[u] = "connect" /\ FreesLock
    /\ \/ \E c \in Conns :
            /\ Unused(c)
            /\ connections' = [connections EXCEPT ![ask[u]] = c]
            /\ in_use' = [in_use EXCEPT ![c] = TRUE]
            /\ stale' = [stale EXCEPT ![c] = "fresh"]
            /\ session' = [session EXCEPT ![c] = "up"]
            /\ keyOf' = [keyOf EXCEPT ![c] = ask[u]]
            /\ Holds(u, c) /\ Goes(u, "have")
       \/ Goes(u, "out") /\ UNCHANGED <<pool, holds>>
    /\ UNCHANGED <<health_monitor_running, ask>>

\* release_connection finds its entry by the key of the connection.
ReleasesToNone(c) == [in_use EXCEPT ![c] = NoConn]
Released(c) == [in_use EXCEPT ![c] = FALSE]

ReleaseConnection(u) ==
    LET c == connections[keyOf[holds[u]]] IN
    /\ pc[u] = "have" /\ lock = Nobody
    /\ Holds(u, NoConn) /\ Goes(u, "out")
    /\ IF c = NoConn THEN UNCHANGED <<in_use, stale>>
       ELSE in_use' = Released(c) /\ stale' = [stale EXCEPT ![c] = Touched(c)]
    /\ UNCHANGED <<connections, session, keyOf, lock, health_monitor_running,
                   ask>>

BeginClose(u) == pc[u] = "have" /\ Begins(u, "close") /\ UNCHANGED ask

CloseConnection(u) ==
    LET c == connections[keyOf[holds[u]]] IN
    /\ pc[u] = "close" /\ (c # NoConn => ~Busy(c))
    /\ Drop({c} \ {NoConn}) /\ session' = Closed({c} \ {NoConn})
    /\ Holds(u, NoConn) /\ Goes(u, "out") /\ FreesLock
    /\ UNCHANGED <<in_use, stale, keyOf, health_monitor_running, ask>>

\* __exit__: the with block is over, and so is every use of its connections.
BeginCleanupAll(u) ==
    /\ \A v \in Users : pc[v] = "out"
    /\ Begins(u, "all") /\ UNCHANGED ask

CleanupAll(u) ==
    /\ pc[u] = "all"
    /\ Drop(Pooled) /\ session' = Closed(Pooled)
    /\ Goes(u, "out") /\ FreesLock
    /\ UNCHANGED <<in_use, stale, keyOf, health_monitor_running, ask, holds>>

-----------------------------------------------------------------------------
(* Use of a connection: execute_command, which reconnects a dead session.  *)

BeginCommand(u) ==
    /\ pc[u] = "have" /\ ~Busy(holds[u])
    /\ \/ Goes(u, "command") /\ session' = [session EXCEPT ![holds[u]] = "up"]
       \/ /\ ~Healthy(holds[u]) /\ UNCHANGED pc
          /\ session' = [session EXCEPT ![holds[u]] = "closed"]
    /\ UNCHANGED <<connections, in_use, stale, keyOf, lock,
                   health_monitor_running, ask, holds>>

\* An SSHException marks the connection as not connected.
EndCommand(u) ==
    /\ pc[u] = "command" /\ Goes(u, "have")
    /\ session' \in {session, [session EXCEPT ![holds[u]] = "dead"]}
    /\ UNCHANGED <<connections, in_use, stale, keyOf, lock,
                   health_monitor_running, ask, holds>>

\* The host reboots, the network fails; and time passes.
SessionDies(c) ==
    /\ session[c] = "up" /\ session' = [session EXCEPT ![c] = "dead"]
    /\ UNCHANGED <<connections, in_use, stale, keyOf, lock,
                   health_monitor_running, pc, ask, holds>>

Ages(c) ==
    /\ c \in Pooled
    /\ \/ stale[c] = "fresh" /\ stale' = [stale EXCEPT ![c] = "idle"]
       \/ stale[c] # "old" /\ stale' = [stale EXCEPT ![c] = "old"]
    /\ UNCHANGED <<connections, in_use, session, keyOf, lock,
                   health_monitor_running, pc, ask, holds>>

-----------------------------------------------------------------------------
(* The health monitor.  stop waits five seconds for a thread that sleeps   *)
(* sixty, so it usually returns before that thread has noticed.            *)

StartHealthMonitor(m) ==
    /\ ~health_monitor_running /\ pc[m] = "none"
    /\ health_monitor_running' = TRUE /\ Goes(m, "sleep")
    /\ UNCHANGED <<pool, lock, ask, holds>>

StopHealthMonitor ==
    /\ health_monitor_running /\ health_monitor_running' = FALSE
    /\ UNCHANGED <<pool, lock, pc, ask, holds>>

LoopHead(m) == Goes(m, IF health_monitor_running THEN "sleep" ELSE "none")

MonitorWakes(m) ==
    /\ pc[m] = "sleep"
    /\ IF health_monitor_running THEN TakesLock(m) /\ Goes(m, "clean")
                                 ELSE Goes(m, "none") /\ UNCHANGED lock
    /\ UNCHANGED <<pool, health_monitor_running, ask, holds>>

CleanupStale(m) ==
    /\ pc[m] = "clean"
    /\ \A c \in Pooled : in_use[c] \/ ~Busy(c)
    /\ Drop(ToClean) /\ session' = Closed(ToClean)
    /\ LoopHead(m) /\ FreesLock
    /\ UNCHANGED <<in_use, stale, keyOf, health_monitor_running, ask, holds>>

-----------------------------------------------------------------------------

GetConnection(u) == Reuses(u) \/ NeedsNew(u) \/ Connects(u)

\* The steps of a thread that holds the manager's lock.
Proceeds(u) == GetConnection(u) \/ CloseConnection(u) \/ CleanupAll(u)

User(u) == \/ BeginGet(u) \/ ReleaseConnection(u) \/ BeginClose(u) \/ BeginCleanupAll(u)
           \/ Proceeds(u) \/ BeginCommand(u) \/ EndCommand(u)
Monitor(m) == StartHealthMonitor(m) \/ MonitorWakes(m) \/ CleanupStale(m)

Next == \/ \E u \in Users : User(u)
        \/ \E m \in Monitors : Monitor(m)
        \/ StopHealthMonitor
        \/ \E c \in Conns : SessionDies(c) \/ Ages(c)

\* Nobody stops half way with the lock; nothing is owed by the hosts (a
\* command's exit status is waited for without a timeout) or by the locks.
Spec == /\ Init /\ [][Next]_vars
        /\ \A u \in Users : WF_vars(Proceeds(u))
        /\ \A m \in Monitors : WF_vars(CleanupStale(m))

-----------------------------------------------------------------------------
(* What holds when no two users ask for the same key, as in op-test, where *)
(* each OpTestHost has a manager of its own and gets one connection.       *)

\* No ssh session is left open that nobody can use or close any more, and no
\* entry stays in use, and so out of reach of clean-up, for nobody: through
\* reconnects, failures, release, close, clean-up and the health monitor.
NoneForgotten ==
    /\ \A c \in Conns : session[c] # "closed" =>
            c \in Pooled \/ \E u \in Users : holds[u] = c
    /\ \A c \in Pooled : in_use[c] => \E u \in Users : holds[u] = c

\* Nobody closes the connection another thread holds, whether it executes a
\* command or not.
HeldIsKept ==
    [][\A u \in Users : holds[u] \in Pooled /\ holds'[u] = holds[u]
                            => holds[u] \in Pooled']_vars

\* What holds however the pool is used.

\* The lock is kept only as long as a running command keeps it: no order in
\* which the two locks are taken, and no failure, leaves it taken for ever.
LockWaitsOnlyForCommands ==
    \A t \in Threads : lock = t ~> (lock # t \/ \E c \in Conns : Busy(c))

=============================================================================
