-------------------------------- MODULE AES --------------------------------
(***************************************************************************)
(* Runs of op-test that reserve one of several environments with AES, the  *)
(* Automated Environment Sharing: check_lockers() of a run without a flag, *)
(* aes_lock(), aes_lock_env() and aes_release_reservation() of OpTestUtil, *)
(* the wait of OpTestConfiguration.do_testing_setup(), cleanup(), and the  *)
(* signal handler of op-test.                                              *)
(*                                                                         *)
(* The service answers requests one at a time; what a run read of the      *)
(* environments may be stale when it acts on it.  A reservation is named   *)
(* for the run that made it, or whose user made it before the run: a run   *)
(* is granted one at most.                                                 *)
(***************************************************************************)
EXTENDS Naturals, FiniteSets

CONSTANTS
    Runs,           \* the op-test processes
    NoRun,
    Envs,           \* the environments
    UserOf,         \* aes_user of each run
    Searched,       \* the environments the search arguments of a run match
    Priors,         \* who may have the environments reserved before anything runs
    KeepLock,       \* the runs with --aes-keep-lock
    Adding,         \* the runs with an --aes-add-locktime other than 0
    Endless,        \* the runs whose earlier reservation never expires
    LockerWait      \* --locker-wait: how often a minute is waited

ASSUME RunsAssumption == NoRun \notin Runs
ASSUME EnvsAssumption ==
    /\ Priors \subseteq [Envs -> Runs \cup {NoRun}]
    /\ Searched \in [Runs -> SUBSET Envs]
ASSUME WaitAssumption == LockerWait \in Nat

VARIABLES
    pc,             \* where a run is
    tries,          \* the minutes a run has waited
    snap,           \* who had an environment reserved when a run asked
    todo,           \* the environments of its answer a run has not tried
    env,            \* the environment a run tries, or has
    res_id,         \* lock_dict['res_id']
    said,           \* what became of the run's release
    interrupted,    \* the runs whose tests the signal handler interrupted
    escaped,        \* the runs whose signal handler has raised
    reserved,       \* the service: who has each environment reserved
    flight,         \* the service: requests it has not processed yet
    asked,          \* the runs whose request to reserve they have no answer to
    answer,         \* the service's answer to a request to reserve
    lapsed,         \* the reservations whose time is over
    prior           \* who had the environments reserved at first

client == <<pc, tries, snap, todo, env, res_id, said, interrupted, escaped, asked>>
service == <<reserved, flight, answer, lapsed, prior>>
vars == <<client, service>>

Reserving == {"start", "choose", "enqueue", "extend", "denied", "info"}
Releasing == {"release", "handler"}
Over == {"done", "killed"}

TypeOK ==
    /\ pc \in [Runs -> Reserving \cup {"testing"} \cup Releasing \cup Over]
    /\ tries \in [Runs -> 0 .. LockerWait]
    /\ snap \in [Runs -> [Envs -> Runs \cup {NoRun}]]
    /\ todo \in [Runs -> SUBSET Envs]
    /\ env \in [Runs -> Envs]
    /\ res_id \in [Runs -> Runs \cup {NoRun}]
    /\ said \in [Runs -> {"nothing", "released", "failed"}]
    /\ interrupted \subseteq Runs /\ escaped \subseteq Runs
    /\ reserved \in [Envs -> Runs \cup {NoRun}]
    /\ flight \subseteq Runs
    /\ asked \subseteq Runs
    /\ answer \in [Runs -> {"none", "ok", "no"}]
    /\ lapsed \subseteq Runs \X Envs
    /\ prior \in Priors

Init ==
    /\ prior \in Priors
    /\ pc = [r \in Runs |-> "start"]
    /\ tries = [r \in Runs |-> 0]
    /\ snap = [r \in Runs |-> prior]
    /\ todo = [r \in Runs |-> {}]
    /\ env \in [Runs -> Envs]
    /\ res_id = [r \in Runs |-> NoRun]
    /\ said = [r \in Runs |-> "nothing"]
    /\ interrupted = {} /\ escaped = {}
    /\ reserved = prior
    /\ flight = {}
    /\ asked = {}
    /\ answer = [r \in Runs |-> "none"]
    /\ lapsed = {}

Goes(r, to) == pc' = [pc EXCEPT ![r] = to]
Notes(r, id) == res_id' = [res_id EXCEPT ![r] = id]

\* cleanup() releases what lock_dict names, unless it is to be kept.
AfterTests(r) == pc[r] = "testing" /\ res_id[r] # NoRun /\ r \notin KeepLock
ToRelease(r) == res_id[r] # NoRun /\ r \notin KeepLock
Exits(r) == Goes(r, IF ToRelease(r) THEN "release" ELSE "done")

-----------------------------------------------------------------------------
\* aes_lock()

\* aes_get_environments(): what it returns is what the run decides on.
GetEnvironments(r) ==
    /\ pc[r] = "start"
    /\ \/ /\ snap' = [snap EXCEPT ![r] = reserved]
          /\ todo' = [todo EXCEPT ![r] = Searched[r]]
          /\ Goes(r, "choose")
       \/ /\ Exits(r)
          /\ UNCHANGED <<snap, todo>>
    /\ UNCHANGED <<tries, env, res_id, said, interrupted, escaped, asked,
                   service>>

Free(r, e) == snap[r][e] = NoRun
Own(r, e) == snap[r][e] # NoRun /\ UserOf[snap[r][e]] = UserOf[r]

\* A reservation the user had is extended with --aes-add-locktime, or when
\* it is all there is; one that never expires is taken without a request,
\* and noted only when aes_get_env() has not failed.
Extends(r, e) == Own(r, e) /\ (r \in Adding \/ Cardinality(Searched[r]) = 1)
Takes(r, e) == Extends(r, e) /\ r \notin Adding

LockEnv(r) ==
    /\ pc[r] = "choose"
    /\ \E e \in todo[r] :
          /\ todo' = [todo EXCEPT ![r] = @ \ {e}]
          /\ env' = [env EXCEPT ![r] = e]
          /\ \/ /\ Free(r, e)
                /\ Goes(r, "enqueue")
                /\ flight' = flight \cup {r}
                /\ asked' = asked \cup {r}
                /\ answer' = [answer EXCEPT ![r] = "none"]
                /\ UNCHANGED res_id
             \/ /\ Extends(r, e)
                /\ Goes(r, IF Takes(r, e) /\ r \in Endless THEN "info" ELSE "extend")
                /\ IF Takes(r, e) THEN Notes(r, snap[r][e]) ELSE UNCHANGED res_id
                /\ UNCHANGED <<flight, asked, answer>>
             \/ /\ Takes(r, e) /\ r \in Endless
                /\ Exits(r)
                /\ UNCHANGED <<res_id, flight, asked, answer>>
             \/ /\ ~Free(r, e) /\ ~Extends(r, e)
                /\ UNCHANGED <<pc, res_id, flight, asked, answer>>
    /\ UNCHANGED <<tries, snap, said, interrupted, escaped, reserved, lapsed,
                   prior>>

NothingToLock(r) ==
    /\ pc[r] = "choose"
    /\ todo[r] = {}
    /\ Goes(r, "denied")
    /\ UNCHANGED <<tries, snap, todo, env, res_id, said, interrupted, escaped,
                   asked, service>>

\* The reservation is noted when the answer is there.
Enqueued(r) ==
    /\ pc[r] = "enqueue"
    /\ answer[r] # "none"
    /\ asked' = asked \ {r}
    /\ IF answer[r] = "ok"
       THEN Notes(r, r) /\ Goes(r, "info")
       ELSE Goes(r, "choose") /\ UNCHANGED res_id
    /\ UNCHANGED <<tries, snap, todo, env, said, interrupted, escaped, service>>

\* A request without an answer, or with an error: the exception is not
\* "unable to lock".
Unanswered(r) ==
    /\ pc[r] = "enqueue"
    /\ Exits(r)
    /\ UNCHANGED <<tries, snap, todo, env, res_id, said, interrupted, escaped,
                   asked, service>>

\* aes_add_time() finds the reservation, or raises.
Found(r) == reserved[env[r]] = snap[r][env[r]]

AddTime(r) ==
    /\ pc[r] = "extend"
    /\ \/ /\ Found(r)
          /\ Notes(r, snap[r][env[r]])
          /\ Goes(r, "info")
       \/ /\ Exits(r)
          /\ UNCHANGED res_id
    /\ UNCHANGED <<tries, snap, todo, env, said, interrupted, escaped, asked,
                   service>>

\* "unable to lock" is retried every minute until locker_timeout.
TimeLeft(r) == tries[r] < LockerWait

Minute(r) == [tries EXCEPT ![r] = @ + 1]

WaitOrGiveUp(r) ==
    /\ pc[r] = "denied"
    /\ \/ /\ TimeLeft(r)
          /\ tries' = Minute(r)
          /\ Goes(r, "start")
       \/ /\ Exits(r)
          /\ UNCHANGED tries
    /\ UNCHANGED <<snap, todo, env, res_id, said, interrupted, escaped, asked,
                   service>>

\* aes_get_env(), aes_get_creds() and the ping of objs()
SetUp(r) ==
    /\ pc[r] = "info"
    /\ Goes(r, "testing") \/ Exits(r)
    /\ UNCHANGED <<tries, snap, todo, env, res_id, said, interrupted, escaped,
                   asked, service>>

TestsEnd(r) ==
    /\ pc[r] = "testing"
    /\ Exits(r)
    /\ UNCHANGED <<tries, snap, todo, env, res_id, said, interrupted, escaped,
                   asked, service>>

-----------------------------------------------------------------------------
\* cleanup(), at the end of a run and in the signal handler

\* The request names the reservation: the service knows it or does nothing.
WhoeverHas(r) == [reserved EXCEPT ![env[r]] = NoRun]
Released(r) ==
    [e \in Envs |-> IF e = env[r] /\ reserved[e] = res_id[r] THEN NoRun ELSE reserved[e]]

Release(r) ==
    /\ pc[r] \in Releasing
    /\ reserved' = Released(r)
    /\ said' = [said EXCEPT ![r] = "released"]
    /\ Notes(r, NoRun)
    /\ Goes(r, "done")
    /\ UNCHANGED <<tries, snap, todo, env, interrupted, escaped, asked, flight,
                   answer, lapsed, prior>>

\* The answer is an error or none came, whether or not the service released:
\* an exception.  At the end of a run atexit calls cleanup() again.
ReleaseFails(r) ==
    /\ pc[r] = "release"
    /\ reserved' \in {reserved, Released(r)}
    /\ said' = [said EXCEPT ![r] = "failed"]
    /\ \/ said[r] # "failed" /\ UNCHANGED pc
       \/ Goes(r, "done")
    /\ UNCHANGED <<tries, snap, todo, env, res_id, interrupted, escaped, asked,
                   flight, answer, lapsed, prior>>

\* The handler cleans up before os._exit().
Signal(r) ==
    /\ pc[r] \notin Over
    /\ Goes(r, IF ToRelease(r) THEN "handler" ELSE "done")
    /\ interrupted' = IF pc[r] = "testing" THEN interrupted \cup {r} ELSE interrupted
    /\ UNCHANGED <<tries, snap, todo, env, res_id, said, escaped, asked,
                   service>>

\* What it raises is raised in the frame the signal interrupted, before
\* os._exit(); a test, or the test runner, catches it, and the tests go on.
HandlerRaises(r) ==
    /\ pc[r] = "handler"
    /\ reserved' \in {reserved, Released(r)}
    /\ said' = [said EXCEPT ![r] = "failed"]
    /\ Goes(r, IF r \in interrupted THEN "testing" ELSE "release")
    /\ interrupted' = interrupted \ {r}
    /\ escaped' = escaped \cup {r}
    /\ UNCHANGED <<tries, snap, todo, env, res_id, asked, flight, answer,
                   lapsed, prior>>

Killed(r) ==
    /\ pc[r] \notin Over
    /\ Goes(r, "killed")
    /\ UNCHANGED <<tries, snap, todo, env, res_id, said, interrupted, escaped,
                   asked, service>>

-----------------------------------------------------------------------------
\* the service

ServiceReserves(r) ==
    /\ r \in flight
    /\ flight' = flight \ {r}
    /\ \/ /\ reserved[env[r]] = NoRun
          /\ reserved' = [reserved EXCEPT ![env[r]] = r]
          /\ answer' = [answer EXCEPT ![r] = "ok"]
       \/ /\ answer' = [answer EXCEPT ![r] = "no"]
          /\ UNCHANGED reserved
    /\ UNCHANGED <<client, lapsed, prior>>

Expires(r) ==
    \E e \in Envs :
        /\ reserved[e] = r
        /\ r \notin Endless
        /\ reserved' = [reserved EXCEPT ![e] = NoRun]
        /\ lapsed' = lapsed \cup {<<r, e>>}
        /\ UNCHANGED <<client, flight, answer, prior>>

-----------------------------------------------------------------------------
Step(r) ==
    \/ GetEnvironments(r) \/ LockEnv(r) \/ NothingToLock(r) \/ Enqueued(r) \/ Unanswered(r)
    \/ AddTime(r) \/ WaitOrGiveUp(r) \/ SetUp(r) \/ TestsEnd(r)
    \/ Release(r) \/ ReleaseFails(r) \/ HandlerRaises(r)

Next ==
    \E r \in Runs :
        Step(r) \/ Signal(r) \/ Killed(r) \/ ServiceReserves(r) \/ Expires(r)

Spec == Init /\ [][Next]_vars

-----------------------------------------------------------------------------
Promise(e) ==
    INSTANCE Reservation WITH
        holder <- reserved[e],
        testing <- {r \in Runs \ escaped : pc[r] = "testing" /\ env[r] = e},
        lapsed <- {r \in Runs : <<r, e>> \in lapsed}

(* Every environment keeps the promise of a reservation: a run tests only  *)
(* on its own, although it decides on an old answer, and gives it back     *)
(* only when its tests are over (aes_lock, cleanup, optest_handler); but   *)
(* for a run whose signal handler raised, which tests on what it gave back.*)
KeepsPromise ==
    /\ \A e \in Envs : Promise(e)!Init
    /\ [][\A e \in Envs : [Promise(e)!Next]_(Promise(e)!vars)]_vars

(* A run that is over and not told to keep its lock leaves a reservation   *)
(* behind only when it was never answered, or with an exception: what was  *)
(* granted is noted before anything else can fail (aes_lock's lock_dict).  *)
LeftBehindIsReported ==
    \A r \in Runs, e \in Envs :
        pc[r] = "done" /\ reserved[e] = r
           => r \in KeepLock \cup asked \/ said[r] = "failed" \/ prior[e] = r
=============================================================================
