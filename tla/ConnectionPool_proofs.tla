------------------------ MODULE ConnectionPool_proofs ------------------------
(***************************************************************************)
(* What the connection pool promises for every number of users, monitor    *)
(* threads, keys and connections, and every limit.  Its types and its lock *)
(* hold however it is used; that nothing is forgotten and nothing taken    *)
(* away holds when every key has one user, as it has in op-test.           *)
(***************************************************************************)
EXTENDS ConnectionPool, TLAPS

-----------------------------------------------------------------------------
(* Types.                                                                  *)

LEMMA InitTypes == Init => TypeOK
<1>1. (CHOOSE k \in Keys : TRUE) \in Keys
  BY KeysAssumption
<1>2. ASSUME Init PROVE TypeOK
  <2>1. pc \in [Threads -> UserSteps \cup MonitorSteps]
    BY <1>2 DEF Init, UserSteps, MonitorSteps
  <2>2. keyOf \in [Conns -> Keys] /\ ask \in [Users -> Keys]
    BY <1>1, <1>2 DEF Init
  <2>3. /\ connections \in [Keys -> Conns \cup {NoConn}]
        /\ in_use \in [Conns -> BOOLEAN]
        /\ stale \in [Conns -> {"fresh", "idle", "old"}]
        /\ session \in [Conns -> {"closed", "up", "dead"}]
        /\ holds \in [Users -> Conns \cup {NoConn}]
    BY <1>2 DEF Init
  <2>4. QED BY <1>2, <2>1, <2>2, <2>3 DEF Init, TypeOK
<1>3. QED BY <1>2

\* Closing a set of connections keeps the entries and the sessions in type.
LEMMA ClosingTypes ==
    ASSUME TypeOK, NEW cs, Drop(cs), session' = Closed(cs)
    PROVE  /\ connections' \in [Keys -> Conns \cup {NoConn}]
           /\ session' \in [Conns -> {"closed", "up", "dead"}]
  BY DEF TypeOK, Drop, Closed

LEMMA UserTypes ==
    ASSUME TypeOK, NEW u \in Users, User(u) PROVE TypeOK'
<1> USE DEF TypeOK, UserSteps, Threads, pool, Goes, Holds, TakesLock, FreesLock
<1>1. CASE BeginGet(u)
  BY <1>1, UsersAssumption DEF BeginGet, Begins
<1>2. CASE Reuses(u)
  BY <1>2 DEF Reuses, Touched
<1>3. CASE NeedsNew(u)
  <2>1. PICK cs : Drop(cs) /\ session' = Closed(cs)
    BY <1>3 DEF NeedsNew
  <2>2. QED BY <1>3, <2>1, ClosingTypes DEF NeedsNew
<1>4. CASE Connects(u)
  <2>1. lock' = Nobody /\ UNCHANGED <<health_monitor_running, ask>> /\ ask[u] \in Keys
    BY <1>4 DEF Connects
  <2>2. ASSUME NEW c \in Conns,
               connections' = [connections EXCEPT ![ask[u]] = c],
               in_use' = [in_use EXCEPT ![c] = TRUE],
               stale' = [stale EXCEPT ![c] = "fresh"],
               session' = [session EXCEPT ![c] = "up"],
               keyOf' = [keyOf EXCEPT ![c] = ask[u]],
               holds' = [holds EXCEPT ![u] = c], pc' = [pc EXCEPT ![u] = "have"]
        PROVE  TypeOK'
    BY <2>1, <2>2
  <2>3. CASE pc' = [pc EXCEPT ![u] = "out"] /\ UNCHANGED <<pool, holds>>
    BY <2>1, <2>3
  <2>4. QED BY <1>4, <2>2, <2>3 DEF Connects
<1>5. CASE ReleaseConnection(u)
  <2> DEFINE c == connections[keyOf[holds[u]]]
  <2>1. in_use' = in_use \/ in_use' = [in_use EXCEPT ![c] = FALSE]
    BY <1>5 DEF ReleaseConnection, Released
  <2>2. stale' = stale \/ stale' = [stale EXCEPT ![c] = Touched(c)]
    BY <1>5 DEF ReleaseConnection
  <2>3. in_use' \in [Conns -> BOOLEAN] BY <2>1
  <2>4. stale' \in [Conns -> {"fresh", "idle", "old"}] BY <2>2 DEF Touched
  <2>5. QED BY <1>5, <2>3, <2>4 DEF ReleaseConnection
<1>6. CASE BeginClose(u) \/ BeginCleanupAll(u)
  <2>1. CASE BeginClose(u) BY <2>1 DEF BeginClose, Begins
  <2>2. CASE BeginCleanupAll(u) BY <2>2 DEF BeginCleanupAll, Begins
  <2>3. QED BY <1>6, <2>1, <2>2
<1>7. CASE CloseConnection(u)
  <2>1. PICK cs : Drop(cs) /\ session' = Closed(cs)
    BY <1>7 DEF CloseConnection
  <2>2. QED BY <1>7, <2>1, ClosingTypes DEF CloseConnection
<1>8. CASE CleanupAll(u)
  <2>1. PICK cs : Drop(cs) /\ session' = Closed(cs)
    BY <1>8 DEF CleanupAll
  <2>2. QED BY <1>8, <2>1, ClosingTypes DEF CleanupAll
<1>9. CASE BeginCommand(u)
  BY <1>9 DEF BeginCommand
<1>10. CASE EndCommand(u)
  BY <1>10 DEF EndCommand
<1>11. QED
  BY <1>1, <1>2, <1>3, <1>4, <1>5, <1>6, <1>7, <1>8, <1>9, <1>10
     DEF User, Proceeds, GetConnection

LEMMA MonitorTypes ==
    ASSUME TypeOK, NEW m \in Monitors, Monitor(m) PROVE TypeOK'
<1> USE DEF TypeOK, MonitorSteps, Threads, pool, Goes, TakesLock, FreesLock
<1>1. CASE StartHealthMonitor(m)
  BY <1>1 DEF StartHealthMonitor
<1>2. CASE MonitorWakes(m)
  BY <1>2 DEF MonitorWakes
<1>3. CASE CleanupStale(m)
  <2>1. Drop(ToClean) /\ session' = Closed(ToClean)
    BY <1>3 DEF CleanupStale
  <2>2. QED BY <1>3, <2>1, ClosingTypes DEF CleanupStale, LoopHead
<1>4. QED BY <1>1, <1>2, <1>3 DEF Monitor

LEMMA TypesStep ==
    ASSUME TypeOK, [Next]_vars PROVE TypeOK'
<1>1. CASE StopHealthMonitor
  BY <1>1 DEF StopHealthMonitor, TypeOK, pool
<1>2. ASSUME NEW c \in Conns, SessionDies(c) \/ Ages(c) PROVE TypeOK'
  BY <1>2 DEF SessionDies, Ages, TypeOK
<1>3. CASE UNCHANGED vars
  BY <1>3 DEF vars, TypeOK
<1>4. QED
  BY <1>1, <1>2, <1>3, UserTypes, MonitorTypes DEF Next

-----------------------------------------------------------------------------
(* The manager's lock.                                                     *)

\* The steps a thread takes inside "with self.lock".
Inside(t) == pc[t] \in {"get", "connect", "close", "all", "clean"}

LockInv == \A t \in Threads : Inside(t) => lock = t

LEMMA LockStep ==
    ASSUME TypeOK, LockInv, [Next]_vars PROVE LockInv'
<1> USE DistinctAssumption DEF Threads
<1>1. ASSUME NEW t \in Threads, NEW step, TakesLock(t), Goes(t, step) PROVE LockInv'
  BY <1>1 DEF TakesLock, Goes, LockInv, Inside, TypeOK
<1>2. ASSUME NEW t \in Threads, NEW step \in {"have", "out", "sleep", "none"},
             Goes(t, step), FreesLock, Inside(t)
      PROVE  LockInv'
  BY <1>2 DEF FreesLock, Goes, LockInv, Inside, TypeOK
<1>3. ASSUME NEW t \in Threads, NEW step, UNCHANGED lock,
             Goes(t, step), Inside(t) \/ step \in {"have", "out", "command", "sleep", "none"}
      PROVE  LockInv'
  BY <1>3 DEF Goes, LockInv, Inside, TypeOK
<1>4. CASE UNCHANGED <<lock, pc>>
  BY <1>4 DEF LockInv, Inside
<1>5. ASSUME NEW u \in Users, User(u) PROVE LockInv'
  <2>1. CASE BeginGet(u) \/ BeginClose(u) \/ BeginCleanupAll(u)
    BY <1>1, <2>1 DEF BeginGet, BeginClose, BeginCleanupAll, Begins
  <2>2. CASE Reuses(u) \/ Connects(u) \/ CloseConnection(u) \/ CleanupAll(u)
    BY <1>2, <2>2 DEF Reuses, Connects, CloseConnection, CleanupAll, Inside
  <2>3. CASE NeedsNew(u)
    BY <1>3, <2>3 DEF NeedsNew, Inside
  <2>4. CASE ReleaseConnection(u) \/ EndCommand(u)
    BY <1>3, <2>4 DEF ReleaseConnection, EndCommand
  <2>5. CASE BeginCommand(u)
    BY <1>3, <1>4, <2>5 DEF BeginCommand
  <2>6. QED
    BY <1>5, <2>1, <2>2, <2>3, <2>4, <2>5 DEF User, Proceeds, GetConnection
<1>6. ASSUME NEW m \in Monitors, Monitor(m) PROVE LockInv'
  <2>1. CASE StartHealthMonitor(m)
    BY <1>3, <2>1 DEF StartHealthMonitor
  <2>2. CASE MonitorWakes(m)
    BY <1>1, <1>3, <2>2 DEF MonitorWakes
  <2>3. CASE CleanupStale(m)
    BY <1>2, <2>3 DEF CleanupStale, LoopHead, Inside
  <2>4. QED BY <1>6, <2>1, <2>2, <2>3 DEF Monitor
<1>7. CASE StopHealthMonitor
  BY <1>4, <1>7 DEF StopHealthMonitor
<1>8. ASSUME NEW c \in Conns, SessionDies(c) \/ Ages(c) PROVE LockInv'
  BY <1>4, <1>8 DEF SessionDies, Ages
<1>9. CASE UNCHANGED vars
  BY <1>4, <1>9 DEF vars
<1>10. QED BY <1>5, <1>6, <1>7, <1>8, <1>9 DEF Next

-----------------------------------------------------------------------------
(* The pool, when no key has two users.                                    *)

\* Each OpTestHost has a manager of its own and asks it for its own host.
OwnKeys == \A u, v \in Users : MayAsk[u] \cap MayAsk[v] # {} => u = v

\* Where the connections are: an entry has the key of its connection; a user
\* holds the entry of a key of its own, marked as in use; every open session
\* has an entry, and every entry in use a holder.
PoolInv ==
    /\ \A k \in Keys : connections[k] # NoConn => keyOf[connections[k]] = k
    /\ \A u \in Users : holds[u] # NoConn =>
          /\ connections[keyOf[holds[u]]] = holds[u]
          /\ in_use[holds[u]] /\ keyOf[holds[u]] \in MayAsk[u]
    /\ \A c \in Conns : session[c] # "closed" => connections[keyOf[c]] = c
    /\ \A c \in Conns : connections[keyOf[c]] = c /\ in_use[c] =>
          \E u \in Users : holds[u] = c

\* Where the users are: with a connection or without one, asking for a key of
\* their own, about to connect only once its entry is gone, or alone.
StepInv ==
    \A u \in Users :
        /\ pc[u] \in {"have", "command", "close"} <=> holds[u] # NoConn
        /\ pc[u] \in {"get", "connect"} => ask[u] \in MayAsk[u]
        /\ pc[u] = "connect" => connections[ask[u]] = NoConn
        /\ pc[u] = "all" => \A v \in Users : v # u => pc[v] = "out"

OwnInv == TypeOK /\ LockInv /\ PoolInv /\ StepInv

\* A connection is pooled exactly if the entry of its key is this connection.
LEMMA PooledByKey ==
    ASSUME TypeOK, PoolInv
    PROVE  \A c \in Conns : c \in Pooled <=> connections[keyOf[c]] = c
  BY DistinctAssumption DEF TypeOK, PoolInv, Pooled

\* Two users never hold the same connection.
LEMMA HoldersDiffer ==
    ASSUME OwnKeys, TypeOK, PoolInv, NEW u \in Users, NEW v \in Users,
           holds[u] = holds[v], holds[u] # NoConn
    PROVE  u = v
  BY DEF OwnKeys, TypeOK, PoolInv

\* Closing connections that nobody holds forgets none, and takes none away.
LEMMA ClosingKeeps ==
    ASSUME TypeOK, PoolInv, NEW cs, Drop(cs), session' = Closed(cs),
           UNCHANGED <<in_use, keyOf, holds>>,
           \A u \in Users : holds[u] # NoConn => holds[u] \notin cs
    PROVE  PoolInv'
<1> USE DistinctAssumption DEF TypeOK
<1>1. \A k \in Keys : connections'[k] = IF connections[k] \in cs THEN NoConn ELSE connections[k]
  BY DEF Drop
<1>2. \A c \in Conns : session'[c] = IF c \in cs THEN "closed" ELSE session[c]
  BY DEF Closed
<1>3. \A c \in Conns : connections'[keyOf[c]] = c <=> connections[keyOf[c]] = c /\ c \notin cs
  BY <1>1
<1>4. QED BY <1>1, <1>2, <1>3 DEF PoolInv

\* A user's step keeps StepInv if it leaves the other users as they are, no
\* entry appears where one of them connects, and its own new step is right.
LEMMA StepKeeps ==
    ASSUME TypeOK, StepInv, NEW u \in Users, NEW step, Goes(u, step),
           \A v \in Users \ {u} :
              /\ holds'[v] = holds[v] /\ ask'[v] = ask[v]
              /\ pc[v] = "connect" => connections'[ask[v]] = NoConn
              /\ pc[v] # "all",
           step \in {"have", "command", "close"} <=> holds'[u] # NoConn,
           step \in {"get", "connect"} => ask'[u] \in MayAsk[u],
           step = "connect" => connections'[ask'[u]] = NoConn,
           step = "all" => \A v \in Users : pc[v] = "out"
    PROVE  StepInv'
<1>1. \A v \in Users : pc'[v] = IF v = u THEN step ELSE pc[v]
  BY DEF TypeOK, Goes, Threads
<1>2. QED BY <1>1 DEF StepInv

LEMMA BeginKeeps ==
    ASSUME OwnInv, NEW u \in Users,
           BeginGet(u) \/ BeginClose(u) \/ BeginCleanupAll(u)
    PROVE  PoolInv' /\ StepInv'
<1> USE DEF OwnInv, Begins, TakesLock, pool
<1>1. PoolInv'
  <2>1. UNCHANGED <<pool, holds>>
    BY DEF BeginGet, BeginClose, BeginCleanupAll
  <2>2. QED BY <2>1 DEF PoolInv
<1>2. \A v \in Users : pc[v] # "all"
  BY DistinctAssumption
     DEF BeginGet, BeginClose, BeginCleanupAll, LockInv, Inside, Threads
<1>3. UNCHANGED <<connections, holds>>
  BY DEF BeginGet, BeginClose, BeginCleanupAll
<1>4. ASSUME BeginGet(u) PROVE StepInv'
  <2>1. PICK k \in MayAsk[u] : ask' = [ask EXCEPT ![u] = k]
    BY <1>4 DEF BeginGet
  <2>2. /\ ask'[u] \in MayAsk[u] /\ holds[u] = NoConn /\ Goes(u, "get")
        /\ \A v \in Users \ {u} : ask'[v] = ask[v]
    BY <1>4, <2>1 DEF BeginGet, StepInv, TypeOK
  <2>3. QED BY <1>2, <1>3, <2>2, StepKeeps DEF StepInv
<1>5. ASSUME BeginClose(u) PROVE StepInv'
  <2>1. Goes(u, "close") /\ pc[u] = "have" /\ UNCHANGED ask
    BY <1>5 DEF BeginClose
  <2>2. holds'[u] # NoConn
    BY <1>3, <2>1 DEF StepInv
  <2>3. QED BY <1>2, <1>3, <2>1, <2>2, StepKeeps DEF StepInv
<1>6. ASSUME BeginCleanupAll(u) PROVE StepInv'
  <2>1. Goes(u, "all") /\ UNCHANGED ask /\ \A v \in Users : pc[v] = "out"
    BY <1>6 DEF BeginCleanupAll
  <2>2. holds'[u] = NoConn
    BY <1>3, <2>1 DEF StepInv
  <2>3. QED BY <1>2, <1>3, <2>1, <2>2, StepKeeps DEF StepInv
<1>7. QED BY <1>1, <1>4, <1>5, <1>6

LEMMA ReusesKeeps ==
    ASSUME OwnInv, NEW u \in Users, Reuses(u) PROVE PoolInv' /\ StepInv'
<1> DEFINE c == connections[ask[u]]
<1> USE DEF OwnInv, Reuses, Holds
<1>1. /\ c \in Conns /\ keyOf[c] = ask[u] /\ ask[u] \in MayAsk[u]
      /\ connections[keyOf[c]] = c /\ ~in_use[c]
  BY DEF TypeOK, PoolInv, StepInv, Acquire
<1>2. \A v \in Users : pc[v] # "all"
  BY DEF StepInv
<1> HIDE DEF c
<1>3. /\ in_use' = [in_use EXCEPT ![c] = TRUE]
      /\ holds' = [holds EXCEPT ![u] = c] /\ Goes(u, "have")
      /\ UNCHANGED <<connections, session, keyOf, ask>>
  BY DEF c
<1>4. PoolInv'
  <2>1. /\ holds'[u] = c /\ in_use'[c] = TRUE
        /\ \A v \in Users \ {u} : holds'[v] = holds[v]
        /\ \A d \in Conns : d # c => in_use'[d] = in_use[d]
    BY <1>1, <1>3 DEF TypeOK
  <2>2. holds[u] = NoConn
    BY DEF StepInv
  <2>3. \A v \in Users : holds[v] # NoConn => in_use'[holds[v]]
    BY <2>1 DEF PoolInv, TypeOK
  <2>4. ASSUME NEW d \in Conns, connections[keyOf[d]] = d, in_use'[d]
        PROVE  \E v \in Users : holds'[v] = d
    <3>1. CASE d = c
      BY <2>1, <3>1
    <3>2. CASE d # c
      <4>1. PICK v \in Users : holds[v] = d
        BY <2>1, <2>4, <3>2 DEF PoolInv
      <4>2. QED BY <2>1, <2>2, <4>1, DistinctAssumption
    <3>3. QED BY <3>1, <3>2
  <2>5. QED BY <1>1, <1>3, <2>1, <2>3, <2>4 DEF PoolInv
<1>5. StepInv'
  <2>1. holds'[u] = c /\ \A v \in Users \ {u} : holds'[v] = holds[v]
    BY <1>3 DEF TypeOK
  <2>2. c # NoConn
    BY <1>1, DistinctAssumption
  <2>3. QED BY <1>2, <1>3, <2>1, <2>2, StepKeeps DEF StepInv
<1>6. QED BY <1>4, <1>5

\* The entry of a user's own key can only be in use if the user holds it, so
\* what it finds there is unhealthy or too old, and gone before it connects.
LEMMA NeedsNewKeeps ==
    ASSUME OwnKeys, OwnInv, NEW u \in Users, NeedsNew(u) PROVE PoolInv' /\ StepInv'
<1> DEFINE c == connections[ask[u]]
           gone == IF c # NoConn /\ (~Healthy(c) \/ stale[c] = "old") THEN {c} ELSE {}
<1> USE DEF OwnInv
<1>1. /\ ask[u] \in MayAsk[u] /\ ask[u] \in Keys /\ holds[u] = NoConn /\ pc[u] = "get"
      /\ UNCHANGED <<in_use, keyOf, holds, ask>> /\ Goes(u, "connect")
  BY DEF NeedsNew, StepInv, TypeOK
<1>2. c # NoConn => c \in Conns /\ keyOf[c] = ask[u] /\ connections[keyOf[c]] = c
  BY <1>1 DEF TypeOK, PoolInv
<1>3. \A v \in Users : holds[v] # c \/ c = NoConn
  BY <1>1, <1>2 DEF OwnKeys, PoolInv
<1>4. PICK clean \in SUBSET ToClean : Drop(gone \cup clean) /\ session' = Closed(gone \cup clean)
  <2>1. ToClean \ gone \subseteq ToClean /\ {} \subseteq ToClean
    OBVIOUS
  <2>2. QED BY <2>1 DEF NeedsNew
<1>5. c # NoConn => c \in gone
  BY <1>2, <1>3 DEF NeedsNew, Acquire, PoolInv
<1>6. \A v \in Users : holds[v] # NoConn => holds[v] \notin gone \cup clean
  BY <1>3, <1>4 DEF ToClean, PoolInv
<1> HIDE DEF c, gone
<1>7. PoolInv'
  BY <1>1, <1>4, <1>6, ClosingKeeps
<1>8. connections'[ask[u]] = NoConn
  BY <1>1, <1>4, <1>5 DEF Drop, c
<1>9. \A k \in Keys : connections[k] = NoConn => connections'[k] = NoConn
  BY <1>4 DEF Drop
<1>10. StepInv'
  <2>1. \A v \in Users : ask[v] \in Keys /\ pc[v] # "all"
    BY <1>1 DEF StepInv, TypeOK
  <2>2. QED BY <1>1, <1>8, <1>9, <2>1, StepKeeps DEF StepInv
<1>11. QED BY <1>7, <1>10

\* A new connection takes the place its key has free, and is held at once.
LEMMA ConnectsKeeps ==
    ASSUME OwnKeys, OwnInv, NEW u \in Users, Connects(u) PROVE PoolInv' /\ StepInv'
<1> USE DEF OwnInv
<1>1. /\ ask[u] \in MayAsk[u] /\ ask[u] \in Keys /\ holds[u] = NoConn
      /\ connections[ask[u]] = NoConn /\ UNCHANGED ask
      /\ \A v \in Users : pc[v] # "all"
  BY DEF Connects, StepInv, TypeOK
<1>2. ASSUME Goes(u, "out"), UNCHANGED <<pool, holds>> PROVE PoolInv' /\ StepInv'
  <2>1. UNCHANGED <<connections, in_use, session, keyOf, holds>>
    BY <1>2 DEF pool
  <2>2. StepInv'
    BY <1>1, <1>2, <2>1, StepKeeps DEF StepInv
  <2>3. QED BY <2>1, <2>2 DEF PoolInv
<1>3. ASSUME NEW c \in Conns, Unused(c),
             connections' = [connections EXCEPT ![ask[u]] = c],
             in_use' = [in_use EXCEPT ![c] = TRUE],
             session' = [session EXCEPT ![c] = "up"],
             keyOf' = [keyOf EXCEPT ![c] = ask[u]],
             Holds(u, c), Goes(u, "have")
      PROVE  PoolInv' /\ StepInv'
  <2>1. /\ connections'[ask[u]] = c
        /\ \A k \in Keys : k # ask[u] => connections'[k] = connections[k]
        /\ in_use'[c] = TRUE /\ session'[c] = "up" /\ keyOf'[c] = ask[u] /\ holds'[u] = c
        /\ \A d \in Conns : d # c => /\ in_use'[d] = in_use[d] /\ session'[d] = session[d]
                                     /\ keyOf'[d] = keyOf[d]
        /\ \A v \in Users \ {u} : holds'[v] = holds[v]
    BY <1>1, <1>3 DEF TypeOK, Holds
  <2>2. /\ \A k \in Keys : connections[k] # c
        /\ \A v \in Users : holds[v] # c
        /\ c # NoConn
    BY <1>3, DistinctAssumption DEF Unused, Pooled
  <2>3. \A k \in Keys : connections'[k] # NoConn => keyOf'[connections'[k]] = k
    BY <2>1, <2>2 DEF PoolInv, TypeOK
  <2>4. \A d \in Conns : d # c /\ connections[keyOf[d]] = d => connections'[keyOf[d]] = d
    BY <1>1, <2>1, DistinctAssumption DEF TypeOK
  <2>5. ASSUME NEW v \in Users, holds'[v] # NoConn
        PROVE  /\ connections'[keyOf'[holds'[v]]] = holds'[v]
               /\ in_use'[holds'[v]] /\ keyOf'[holds'[v]] \in MayAsk[v]
    <3>1. CASE v = u
      BY <1>1, <2>1, <3>1
    <3>2. CASE v # u
      <4>1. holds'[v] = holds[v] /\ holds[v] \in Conns /\ holds[v] # c
        BY <2>1, <2>2, <2>5, <3>2 DEF TypeOK
      <4>2. QED BY <2>1, <2>4, <2>5, <4>1 DEF PoolInv
    <3>3. QED BY <3>1, <3>2
  <2>6. \A d \in Conns : session'[d] # "closed" => connections'[keyOf'[d]] = d
    BY <2>1, <2>4 DEF PoolInv
  <2>7. ASSUME NEW d \in Conns, connections'[keyOf'[d]] = d, in_use'[d]
        PROVE  \E v \in Users : holds'[v] = d
    <3>1. CASE d = c
      BY <2>1, <3>1
    <3>2. CASE d # c
      <4>1. connections[keyOf[d]] = d /\ in_use[d]
        BY <2>1, <2>7, <3>2 DEF TypeOK
      <4>2. PICK v \in Users : holds[v] = d
        BY <4>1 DEF PoolInv
      <4>3. QED BY <1>1, <2>1, <4>2, DistinctAssumption
    <3>3. QED BY <3>1, <3>2
  <2>8. PoolInv'
    BY <2>3, <2>5, <2>6, <2>7 DEF PoolInv
  <2>9. \A v \in Users \ {u} : pc[v] = "connect" => connections'[ask[v]] = NoConn
    <3>1. \A v \in Users \ {u} : pc[v] = "connect" => ask[v] \in MayAsk[v]
                                  /\ ask[v] \in Keys /\ connections[ask[v]] = NoConn
      BY DEF StepInv, TypeOK
    <3>2. QED BY <1>1, <2>1, <3>1 DEF OwnKeys
  <2>10. StepInv'
    BY <1>1, <1>3, <2>1, <2>2, <2>9, StepKeeps
  <2>11. QED BY <2>8, <2>10
<1>4. QED BY <1>2, <1>3 DEF Connects

\* What a user gives back is what it holds, whatever happened in between.
LEMMA ReleaseKeeps ==
    ASSUME OwnKeys, OwnInv, NEW u \in Users, ReleaseConnection(u)
    PROVE  PoolInv' /\ StepInv'
<1> USE DEF OwnInv
<1> DEFINE c == holds[u]
<1>1. /\ c \in Conns /\ c # NoConn /\ connections[keyOf[c]] = c
      /\ \A v \in Users : pc[v] # "all"
  BY DEF ReleaseConnection, StepInv, PoolInv, TypeOK
<1>2. /\ in_use' = [in_use EXCEPT ![c] = FALSE] /\ Holds(u, NoConn) /\ Goes(u, "out")
      /\ UNCHANGED <<connections, session, keyOf, ask>>
  BY <1>1 DEF ReleaseConnection, Released
<1>3. \A v \in Users \ {u} : holds[v] # c
  BY <1>1, HoldersDiffer
<1> HIDE DEF c
<1>4. /\ in_use'[c] = FALSE /\ \A d \in Conns : d # c => in_use'[d] = in_use[d]
      /\ holds'[u] = NoConn /\ \A v \in Users \ {u} : holds'[v] = holds[v]
  BY <1>1, <1>2 DEF TypeOK, Holds
<1>5. \A v \in Users : holds[v] \in Conns \cup {NoConn}
  BY DEF TypeOK
<1>6. \A v \in Users : holds'[v] # NoConn => v # u
  BY <1>4
<1>7. \A v \in Users : holds'[v] # NoConn =>
          /\ connections[keyOf[holds'[v]]] = holds'[v]
          /\ in_use'[holds'[v]] /\ keyOf[holds'[v]] \in MayAsk[v]
  BY <1>3, <1>4, <1>5, <1>6 DEF PoolInv
<1>8. ASSUME NEW d \in Conns, connections[keyOf[d]] = d, in_use'[d]
      PROVE  \E v \in Users : holds'[v] = d
  <2>1. d # c /\ in_use[d]
    BY <1>4, <1>8
  <2>2. PICK v \in Users : holds[v] = d
    BY <1>8, <2>1 DEF PoolInv
  <2>3. QED BY <1>4, <2>1, <2>2 DEF c
<1>9. PoolInv'
  BY <1>2, <1>7, <1>8 DEF PoolInv
<1>10. StepInv'
  BY <1>1, <1>2, <1>4, StepKeeps DEF StepInv
<1>11. QED BY <1>9, <1>10

\* close_connection closes the connection its caller holds, and no other.
LEMMA CloseKeeps ==
    ASSUME OwnKeys, OwnInv, NEW u \in Users, CloseConnection(u)
    PROVE  PoolInv' /\ StepInv'
<1> USE DEF OwnInv
<1> DEFINE c == holds[u]
<1>1. /\ c \in Conns /\ c # NoConn /\ connections[keyOf[c]] = c
      /\ \A v \in Users : pc[v] # "all"
  BY DEF CloseConnection, StepInv, PoolInv, TypeOK
<1>2. /\ Drop({c}) /\ session' = Closed({c}) /\ Holds(u, NoConn) /\ Goes(u, "out")
      /\ UNCHANGED <<in_use, keyOf, ask>>
  <2>1. {c} \ {NoConn} = {c}
    BY <1>1
  <2>2. QED BY <1>1, <2>1 DEF CloseConnection
<1>3. \A v \in Users \ {u} : holds[v] # c
  BY <1>1, HoldersDiffer
<1> HIDE DEF c
<1>4. /\ \A k \in Keys : connections'[k] = IF connections[k] = c THEN NoConn ELSE connections[k]
      /\ \A d \in Conns : session'[d] = IF d = c THEN "closed" ELSE session[d]
      /\ holds'[u] = NoConn /\ \A v \in Users \ {u} : holds'[v] = holds[v]
  BY <1>2 DEF Drop, Closed, Holds, TypeOK
<1>5. \A d \in Conns : connections'[keyOf[d]] = d <=> connections[keyOf[d]] = d /\ d # c
  BY <1>4, DistinctAssumption DEF TypeOK
<1>6. \A v \in Users : holds[v] \in Conns \cup {NoConn}
  BY DEF TypeOK
<1>7. \A k \in Keys : connections'[k] # NoConn => keyOf[connections'[k]] = k
  BY <1>4 DEF PoolInv
<1>8. \A v \in Users : holds'[v] # NoConn =>
          /\ connections'[keyOf[holds'[v]]] = holds'[v]
          /\ in_use[holds'[v]] /\ keyOf[holds'[v]] \in MayAsk[v]
  <2>1. ASSUME NEW v \in Users, holds'[v] # NoConn
        PROVE  v # u /\ holds'[v] = holds[v] /\ holds[v] \in Conns /\ holds[v] # c
    BY <1>3, <1>4, <1>6, <2>1
  <2>2. QED BY <1>5, <2>1 DEF PoolInv
<1>9. \A d \in Conns : session'[d] # "closed" => connections'[keyOf[d]] = d
  BY <1>4, <1>5 DEF PoolInv
<1>10. ASSUME NEW d \in Conns, connections'[keyOf[d]] = d, in_use[d]
       PROVE  \E v \in Users : holds'[v] = d
  <2>1. d # c /\ connections[keyOf[d]] = d
    BY <1>5, <1>10
  <2>2. PICK v \in Users : holds[v] = d
    BY <1>10, <2>1 DEF PoolInv
  <2>3. QED BY <1>4, <2>1, <2>2 DEF c
<1>11. PoolInv'
  BY <1>2, <1>7, <1>8, <1>9, <1>10 DEF PoolInv
<1>12. \A k \in Keys : connections[k] = NoConn => connections'[k] = NoConn
  BY <1>4
<1>13. \A v \in Users : ask[v] \in Keys
  BY DEF TypeOK
<1>14. StepInv'
  BY <1>1, <1>2, <1>4, <1>12, <1>13, StepKeeps DEF StepInv
<1>15. QED BY <1>11, <1>14

\* __exit__ closes everything when nobody holds anything.
LEMMA CleanupAllKeeps ==
    ASSUME OwnInv, NEW u \in Users, CleanupAll(u) PROVE PoolInv' /\ StepInv'
<1> USE DEF OwnInv
<1>1. /\ Drop(Pooled) /\ session' = Closed(Pooled) /\ Goes(u, "out")
      /\ UNCHANGED <<in_use, keyOf, ask, holds>> /\ pc[u] = "all"
  BY DEF CleanupAll
<1>2. \A v \in Users : holds[v] = NoConn /\ pc[v] \in {"out", "all"} /\ (v # u => pc[v] = "out")
  BY <1>1 DEF StepInv
<1>3. PoolInv'
  BY <1>1, <1>2, ClosingKeeps
<1>4. StepInv'
  BY <1>1, <1>2, StepKeeps
<1>5. QED BY <1>3, <1>4

\* A command may find its session dead, revive it, or lose it: the connection
\* stays where it is, with its user.
LEMMA CommandKeeps ==
    ASSUME OwnInv, NEW u \in Users, BeginCommand(u) \/ EndCommand(u)
    PROVE  PoolInv' /\ StepInv'
<1> USE DEF OwnInv
<1>1. /\ holds[u] \in Conns /\ holds[u] # NoConn /\ connections[keyOf[holds[u]]] = holds[u]
      /\ UNCHANGED <<connections, in_use, keyOf, ask, holds>>
      /\ \A v \in Users : pc[v] # "all"
  BY DEF BeginCommand, EndCommand, StepInv, PoolInv, TypeOK
<1>2. \A d \in Conns : d # holds[u] => session'[d] = session[d]
  BY <1>1 DEF BeginCommand, EndCommand, TypeOK
<1>3. PoolInv'
  BY <1>1, <1>2 DEF PoolInv
<1>4. Goes(u, "command") \/ Goes(u, "have") \/ UNCHANGED pc
  BY DEF BeginCommand, EndCommand
<1>5. CASE Goes(u, "command") \/ Goes(u, "have")
  BY <1>1, <1>3, <1>5, StepKeeps DEF StepInv
<1>6. CASE UNCHANGED pc
  BY <1>1, <1>3, <1>6 DEF StepInv
<1>7. QED BY <1>4, <1>5, <1>6

\* The health monitor closes no connection in use, so none that is held.
LEMMA MonitorKeeps ==
    ASSUME OwnInv, NEW m \in Monitors, Monitor(m) PROVE PoolInv' /\ StepInv'
<1> USE DEF OwnInv
<1>1. \A v \in Users : pc'[v] = pc[v]
  <2>1. \A v \in Users : v # m
    BY DistinctAssumption
  <2>2. \A step : Goes(m, step) => \A v \in Users : pc'[v] = pc[v]
    BY <2>1 DEF Goes, TypeOK, Threads
  <2>3. QED
    BY <2>2 DEF Monitor, StartHealthMonitor, MonitorWakes, CleanupStale, LoopHead
<1>2. CASE UNCHANGED <<pool, ask, holds>>
  BY <1>1, <1>2 DEF pool, PoolInv, StepInv
<1>3. CASE CleanupStale(m)
  <2>1. /\ Drop(ToClean) /\ session' = Closed(ToClean)
        /\ UNCHANGED <<in_use, keyOf, ask, holds>>
    BY <1>3 DEF CleanupStale
  <2>2. \A v \in Users : holds[v] # NoConn => holds[v] \notin ToClean
    BY DEF ToClean, PoolInv
  <2>3. PoolInv'
    BY <2>1, <2>2, ClosingKeeps
  <2>4. \A k \in Keys : connections[k] = NoConn => connections'[k] = NoConn
    BY <2>1 DEF Drop
  <2>5. \A v \in Users : ask[v] \in Keys
    BY DEF TypeOK
  <2>6. QED BY <1>1, <2>1, <2>3, <2>4, <2>5 DEF StepInv
<1>4. QED BY <1>2, <1>3 DEF Monitor, StartHealthMonitor, MonitorWakes

LEMMA OwnStep ==
    ASSUME OwnKeys, OwnInv, [Next]_vars PROVE OwnInv'
<1>1. TypeOK' /\ LockInv'
  BY TypesStep, LockStep DEF OwnInv
<1>2. ASSUME NEW u \in Users, User(u) PROVE PoolInv' /\ StepInv'
  BY <1>2, BeginKeeps, ReusesKeeps, NeedsNewKeeps, ConnectsKeeps, ReleaseKeeps,
     CloseKeeps, CleanupAllKeeps, CommandKeeps
     DEF User, Proceeds, GetConnection
<1>3. ASSUME NEW m \in Monitors, Monitor(m) PROVE PoolInv' /\ StepInv'
  BY <1>3, MonitorKeeps
<1>4. ASSUME UNCHANGED <<connections, in_use, keyOf, pc, ask, holds>>,
             \A c \in Conns : session[c] = "closed" => session'[c] = "closed"
      PROVE  PoolInv' /\ StepInv'
  BY <1>4 DEF OwnInv, PoolInv, StepInv
<1>5. ASSUME StopHealthMonitor \/ UNCHANGED vars PROVE PoolInv' /\ StepInv'
  <2>1. UNCHANGED <<connections, in_use, keyOf, session, pc, ask, holds>>
    BY <1>5 DEF StopHealthMonitor, pool, vars
  <2>2. QED BY <1>4, <2>1
<1>6. ASSUME NEW c \in Conns, SessionDies(c) \/ Ages(c) PROVE PoolInv' /\ StepInv'
  <2>1. \A d \in Conns : session[d] = "closed" => session'[d] = "closed"
    BY <1>6 DEF SessionDies, Ages, OwnInv, TypeOK
  <2>2. QED BY <1>4, <1>6, <2>1 DEF SessionDies, Ages
<1>7. PoolInv' /\ StepInv'
  <2>1. CASE Next
    BY <1>2, <1>3, <1>5, <1>6, <2>1 DEF Next
  <2>2. QED BY <1>5, <2>1
<1>8. QED BY <1>1, <1>7 DEF OwnInv

-----------------------------------------------------------------------------
(* The theorems.                                                           *)

\* However the pool is used: every entry is a connection or empty, and every
\* flag, session and user is in one of its states.
THEOREM TypeCorrect == Spec => []TypeOK
<1>1. TypeOK /\ [Next]_vars => TypeOK'
  BY TypesStep
<1>2. QED BY <1>1, InitTypes, PTL DEF Spec

LEMMA InitLock == Init => LockInv
  BY DEF Init, LockInv, Inside, Threads

\* However the pool is used, and with any number of monitor threads: the
\* manager's lock is taken and given back in pairs, so two threads are never
\* inside get_connection, close_connection, cleanup_all or the clean-up at once.
THEOREM OneInside == Spec => [](\A t1, t2 \in Threads : Inside(t1) /\ Inside(t2) => t1 = t2)
<1>1. TypeOK /\ LockInv /\ [Next]_vars => LockInv'
  BY LockStep
<1>2. LockInv => \A t1, t2 \in Threads : Inside(t1) /\ Inside(t2) => t1 = t2
  BY DEF LockInv
<1>3. QED BY <1>1, <1>2, InitLock, TypeCorrect, PTL DEF Spec

LEMMA OwnInvariance ==
    ASSUME OwnKeys PROVE Spec => []OwnInv
<1>1. Init => OwnInv
  <2>1. ASSUME Init PROVE PoolInv /\ StepInv
    <3>1. /\ \A k \in Keys : connections[k] = NoConn
          /\ \A c \in Conns : session[c] = "closed" /\ ~in_use[c]
          /\ \A u \in Users : holds[u] = NoConn /\ pc[u] = "out"
      BY <2>1 DEF Init, Threads
    <3>2. QED BY <3>1 DEF PoolInv, StepInv
  <2>2. QED BY <2>1, InitTypes, InitLock DEF OwnInv
<1>2. OwnInv /\ [Next]_vars => OwnInv'
  BY OwnStep
<1>3. QED BY <1>1, <1>2, PTL DEF Spec

\* When no key has two users: every ssh session left open is in the pool, and
\* every entry marked in use is held by a thread that will give it back.
THEOREM NothingForgotten ==
    ASSUME OwnKeys PROVE Spec => []NoneForgotten
<1>1. ASSUME OwnInv PROVE NoneForgotten
  <2>1. \A c \in Conns : c \in Pooled <=> connections[keyOf[c]] = c
    BY <1>1, PooledByKey DEF OwnInv
  <2>2. Pooled \subseteq Conns
    BY <1>1 DEF OwnInv, TypeOK, Pooled
  <2>3. QED BY <1>1, <2>1, <2>2 DEF OwnInv, PoolInv, NoneForgotten
<1>2. QED BY <1>1, OwnInvariance, PTL

\* When no key has two users: no release, close, clean-up or health monitor
\* takes a connection out of the pool while its user holds it.
THEOREM HoldersKeep ==
    ASSUME OwnKeys PROVE Spec => HeldIsKept
<1>1. OwnInv /\ OwnInv' =>
        \A u \in Users : holds[u] \in Pooled /\ holds'[u] = holds[u]
                            => holds[u] \in Pooled'
  <2>1. ASSUME OwnInv, OwnInv', NEW u \in Users, holds[u] \in Pooled, holds'[u] = holds[u]
        PROVE  holds[u] \in Pooled'
    <3>1. holds'[u] \in Conns /\ holds'[u] # NoConn
      BY <2>1 DEF OwnInv, TypeOK, Pooled
    <3>2. connections'[keyOf'[holds'[u]]] = holds'[u] /\ keyOf'[holds'[u]] \in Keys
      BY <2>1, <3>1 DEF OwnInv, PoolInv, TypeOK
    <3>3. QED BY <2>1, <3>1, <3>2 DEF Pooled
  <2>2. QED BY <2>1
<1>2. OwnInv /\ OwnInv' =>
        [\A u \in Users : holds[u] \in Pooled /\ holds'[u] = holds[u]
                             => holds[u] \in Pooled']_vars
  BY <1>1
<1>3. QED BY <1>2, OwnInvariance, PTL DEF HeldIsKept

=============================================================================
