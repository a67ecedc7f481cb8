----------------------------- MODULE HostLocker -----------------------------
(***************************************************************************)
(* Runs of op-test that reserve one host with HostLocker, a web service:   *)
(* OpTestUtil.hostlocker_lock(), hostlocker_locked(), hostlocker_unlock()  *)
(* and cleanup(), the wait of OpTestConfiguration.do_testing_setup(), and  *)
(* the ways op-test ends: its tests are over, its setup fails, a signal    *)
(* runs the cleanup in a handler, or SIGKILL runs nothing at all.          *)
(*                                                                         *)
(* The service answers requests one at a time; a request may be under way  *)
(* while its sender is interrupted.  A run is granted the lock once at     *)
(* most (it sends no request after an answer other than "locked", or after *)
(* none), so a run's name stands for the identity of its lock.             *)
(***************************************************************************)
EXTENDS Naturals, FiniteSets

CONSTANTS
    Runs,           \* the op-test processes
    NoRun,
    UserOf,         \* hostlocker_user of each run
    KeepLock,       \* the runs with --hostlocker-keep-lock
    Codes,          \* the codes that answer a request to lock a free host
    LockerWait      \* --locker-wait: how often a minute is waited for the lock

ASSUME RunsAssumption == NoRun \notin Runs
ASSUME CodesAssumption == Codes \subseteq {"ok", "conflict", "other"}
ASSUME WaitAssumption == LockerWait \in Nat

VARIABLES
    pc,         \* where a run is
    known,      \* the runs whose hostlocker_user is set
    tries,      \* the minutes a run has waited
    lock,       \* the service: the run whose request locked the host
    flight,     \* the service: requests to lock it has not processed yet
    asked,      \* the runs whose request to lock they have no answer to
    answer,     \* the service's answer to a request to lock
    found,      \* the lock hostlocker_unlock() is about to delete
    said,       \* what cleanup() told the user
    frame,      \* where the signal was that cleanup() runs for: "none" if it
                \* does not run in the handler
    escaped,    \* the runs whose setup or tests went on after their handler raised
    lapsed,     \* the runs whose lock's expiry time came
    taken       \* the runs whose lock was deleted by a run that knew no user,
                \* or had the same

handler == <<frame, escaped>>
server == <<lock, flight, lapsed, taken>>
vars == <<pc, known, tries, asked, answer, found, said, handler, server>>

Using == {"setup", "testing"}
Cleaning == {"unlock", "delete", "confirm"}
Over == {"done", "killed"}
Locking == {"start", "query", "post", "denied", "sleep"}

\* What catches an exception raised under it and goes on: do_testing_setup()'s
\* look at the BMC, the setup, tests and their runner.
Frames == {"start"} \cup Using

TypeOK ==
    /\ pc \in [Runs -> Locking \cup Using \cup Cleaning \cup Over]
    /\ known \subseteq Runs
    /\ tries \in [Runs -> 0 .. LockerWait]
    /\ lock \in Runs \cup {NoRun}
    /\ flight \subseteq Runs
    /\ asked \subseteq Runs
    /\ answer \in [Runs -> Codes \cup {"none", "locked"}]
    /\ found \in [Runs -> Runs \cup {NoRun}]
    /\ said \in [Runs -> {"nothing", "released", "unverified", "raised"}]
    /\ frame \in [Runs -> Frames \cup {"none", "other"}]
    /\ escaped \subseteq Runs /\ lapsed \subseteq Runs /\ taken \subseteq Runs

Init ==
    /\ pc = [r \in Runs |-> "start"]
    /\ known \in SUBSET Runs
    /\ tries = [r \in Runs |-> 0]
    /\ lock = NoRun
    /\ flight = {}
    /\ asked = {}
    /\ answer = [r \in Runs |-> "none"]
    /\ found = [r \in Runs |-> NoRun]
    /\ said = [r \in Runs |-> "nothing"]
    /\ frame = [r \in Runs |-> "none"]
    /\ escaped = {} /\ lapsed = {} /\ taken = {}

Goes(r, to) == pc' = [pc EXCEPT ![r] = to]

\* cleanup() deletes the lock unless it is to be kept, and every call of it
\* is followed by the end of the run.
Cleanup == [r \in Runs |-> IF r \in KeepLock THEN "done" ELSE "unlock"]

-----------------------------------------------------------------------------
\* hostlocker_lock() and the loop around it

\* Where the answer to a request to lock leads: any code but 423, 409, 400
\* and 404 counts as a grant.
LedTo(r) ==
    CASE answer[r] = "locked" -> "denied"
      [] answer[r] = "conflict" -> Cleanup[r]
      [] OTHER -> "setup"

\* "unable to lock" is retried every minute until locker_timeout; what
\* hostlocker_locked() raises after a 423 is not.
TimeLeft(r) == tries[r] < LockerWait

NoMinute(r) == tries
Minute(r) == [tries EXCEPT ![r] = @ + 1]

BeginLock(r) ==
    /\ pc[r] = "start"
    /\ known' = known \cup {r}
    /\ Goes(r, "query")
    /\ UNCHANGED <<tries, asked, answer, found, said, handler, server>>

\* The host is looked up and the lock requested; without an answer, or
\* without such a host, hostlocker_lock() raises what is not retried.
QueryHost(r) ==
    /\ pc[r] = "query"
    /\ \/ /\ Goes(r, "post")
          /\ flight' = flight \cup {r}
          /\ asked' = asked \cup {r}
          /\ answer' = [answer EXCEPT ![r] = "none"]
       \/ /\ Goes(r, Cleanup[r])
          /\ UNCHANGED <<flight, asked, answer>>
    /\ UNCHANGED <<known, tries, lock, found, said, handler, lapsed, taken>>

Answered(r) ==
    /\ pc[r] = "post"
    /\ answer[r] # "none"
    /\ asked' = asked \ {r}
    /\ Goes(r, LedTo(r))
    /\ UNCHANGED <<known, tries, answer, found, said, handler, server>>

\* The request times out or its connection breaks: the answer, if there is
\* one, is lost, and the service may still receive the request.
Unanswered(r) ==
    /\ pc[r] = "post"
    /\ Goes(r, Cleanup[r])
    /\ UNCHANGED <<known, tries, asked, answer, found, said, handler, server>>

WaitOrGiveUp(r) ==
    /\ pc[r] = "denied"
    /\ \/ /\ TimeLeft(r)
          /\ tries' = Minute(r)
          /\ Goes(r, "sleep")
       \/ /\ Goes(r, Cleanup[r])
          /\ UNCHANGED tries
    /\ UNCHANGED <<known, asked, answer, found, said, handler, server>>

Retry(r) ==
    /\ pc[r] = "sleep"
    /\ Goes(r, "query")
    /\ UNCHANGED <<known, tries, asked, answer, found, said, handler, server>>

\* objs() pings the BMC; a run that cannot reach it cleans up.
SetUp(r) ==
    /\ pc[r] = "setup"
    /\ Goes(r, "testing") \/ Goes(r, Cleanup[r])
    /\ UNCHANGED <<known, tries, asked, answer, found, said, handler, server>>

TestsEnd(r) ==
    /\ pc[r] = "testing"
    /\ Goes(r, Cleanup[r])
    /\ UNCHANGED <<known, tries, asked, answer, found, said, handler, server>>

-----------------------------------------------------------------------------
\* hostlocker_unlock() and hostlocker_locked() in cleanup()

\* hostlocker_locked()
UserHolds(r) == lock # NoRun /\ UserOf[lock] = UserOf[r]

\* The locks of the host that hostlocker_unlock() asks for: those of the
\* user, or all of them when the user is not set (a parameter that is None
\* is not sent).
MatchesAny(r) == lock # NoRun
Matches(r) == IF r \in known THEN UserHolds(r) ELSE lock # NoRun

\* No answer, or no lock: nothing to delete.
FindLock(r) ==
    /\ pc[r] = "unlock"
    /\ \/ /\ Matches(r)
          /\ found' = [found EXCEPT ![r] = lock]
          /\ Goes(r, "delete")
       \/ /\ Goes(r, "confirm")
          /\ UNCHANGED found
    /\ UNCHANGED <<known, tries, asked, answer, said, handler, server>>

\* Whose lock a run may take for its own.
Mistakes(r, s) == s \in Runs \ {r} /\ (r \notin known \/ UserOf[s] = UserOf[r])

\* The lock is deleted by its identity, whoever's it is; when the request
\* fails, or the lock is gone, the exception is logged.
DeleteLock(r) ==
    /\ pc[r] = "delete"
    /\ \/ /\ lock = found[r]
          /\ lock' = NoRun
          /\ taken' = IF Mistakes(r, lock) THEN taken \cup {lock} ELSE taken
       \/ UNCHANGED <<lock, taken>>
    /\ Goes(r, "confirm")
    /\ UNCHANGED <<known, tries, flight, asked, answer, found, said, handler, lapsed>>

\* What hostlocker_locked() has to find for cleanup() to call the host
\* unlocked.
UnlessHeld(r) == r \in known
Released(r) == r \in known /\ ~UserHolds(r)

Confirm(r) ==
    /\ pc[r] = "confirm"
    /\ Goes(r, "done")
    /\ \/ /\ Released(r)
          /\ said' = [said EXCEPT ![r] = "released"]
       \/ said' = [said EXCEPT ![r] = "unverified"]
    /\ UNCHANGED <<known, tries, asked, answer, found, handler, server>>

\* hostlocker_locked() raises when its login fails, or 401 goes on for five
\* minutes, or the answer is not a list of locks, for which it returns None.
\* In the handler of a signal that is raised in the interrupted frame, before
\* os._exit(): there it is caught, and the run goes on; or it gets to op-test,
\* which cleans up again, as its exit does.  (In an interrupted cleanup it only
\* cuts short what was there before the confirmation.)
ConfirmRaises(r) ==
    /\ pc[r] = "confirm" /\ r \in known
    /\ said' = [said EXCEPT ![r] = "raised"]
    /\ \/ /\ frame[r] \in Frames /\ Goes(r, frame[r])
          /\ escaped' = IF frame[r] \in Using THEN escaped \cup {r} ELSE escaped
       \/ /\ Goes(r, "unlock") \/ (frame[r] = "none" /\ Goes(r, "done"))
          /\ UNCHANGED escaped
    /\ frame' = [frame EXCEPT ![r] = "none"]
    /\ UNCHANGED <<known, tries, asked, answer, found, server>>

\* optest_handler(): any signal but SIGHUP cleans up, whatever the run was
\* doing, and a second one starts the cleanup again.
Signal(r) ==
    /\ pc[r] \notin Over
    /\ Goes(r, Cleanup[r])
    /\ frame' = IF pc[r] \in Cleaning THEN frame
                ELSE [frame EXCEPT ![r] = IF pc[r] \in Frames THEN pc[r] ELSE "other"]
    /\ UNCHANGED <<known, tries, asked, answer, found, said, escaped, server>>

Killed(r) ==
    /\ pc[r] \notin Over
    /\ Goes(r, "killed")
    /\ UNCHANGED <<known, tries, asked, answer, found, said, handler, server>>

-----------------------------------------------------------------------------
\* the service

\* An answer that is neither success nor one of the known refusals may be of a
\* request that locked the host, or not (a proxy's, for one).
ServerLocks(r) ==
    /\ r \in flight
    /\ flight' = flight \ {r}
    /\ \/ /\ lock # NoRun
          /\ answer' = [answer EXCEPT ![r] = "locked"]
          /\ UNCHANGED lock
       \/ /\ lock = NoRun
          /\ \E c \in Codes :
                /\ answer' = [answer EXCEPT ![r] = c]
                /\ \/ c # "conflict" /\ lock' = r
                   \/ c # "ok" /\ UNCHANGED lock
    /\ UNCHANGED <<pc, known, tries, asked, found, said, handler, lapsed, taken>>

\* hostlocker_locktime is over
LockExpires(r) ==
    /\ lock = r
    /\ lock' = NoRun
    /\ lapsed' = lapsed \cup {r}
    /\ UNCHANGED <<pc, known, tries, flight, asked, answer, found, said, handler, taken>>

-----------------------------------------------------------------------------
Step(r) ==
    \/ BeginLock(r) \/ QueryHost(r) \/ Answered(r) \/ Unanswered(r)
    \/ WaitOrGiveUp(r) \/ Retry(r) \/ SetUp(r) \/ TestsEnd(r)
    \/ FindLock(r) \/ DeleteLock(r) \/ Confirm(r) \/ ConfirmRaises(r)

Next ==
    \E r \in Runs :
        \/ Step(r) \/ Signal(r) \/ Killed(r)
        \/ ServerLocks(r) \/ LockExpires(r)

\* A process runs, and its requests time out; tests end.  No signal, no
\* expiry and no answer of the service is due.
Fairness == \A r \in Runs : WF_vars(Step(r))

Spec == Init /\ [][Next]_vars /\ Fairness

-----------------------------------------------------------------------------
\* The runs that use the host believing in a lock, but for those that took an
\* unknown code for a grant and those whose handler raised under their tests.
Relying == {r \in Runs \ escaped : pc[r] \in Using /\ answer[r] # "other"}

(* Who relies on a grant has the lock, and no cleanup takes it away, in    *)
(* whatever order requests, answers and signals come; but for a run whose  *)
(* lock ran out, or was deleted by one of the same user, or by one that a  *)
(* signal interrupted before it knew its user (check_lockers,              *)
(* hostlocker_unlock, optest_handler).                                     *)
Promise ==
    INSTANCE Reservation WITH
        holder <- lock,
        testing <- Relying,
        lapsed <- lapsed \cup taken

KeepsPromise == Promise!Spec

(* Two runs use the host at once only when one of them lost its lock (to   *)
(* time, to a run of its user, or to one that knew no user), had an answer *)
(* of an unknown code, or goes on after its signal handler has raised.     *)
Exclusive == \A r, s \in Relying \ (lapsed \cup taken) : r = s

(* A run that is over, and was not killed or told to keep its lock, leaves *)
(* its lock behind only with the warning or an exception of cleanup(), or  *)
(* when its request to lock was under way as it was interrupted: unlock    *)
(* and confirmation are separate requests, either of which can fail or be  *)
(* interrupted.                                                            *)
LeftBehindIsReported ==
    \A r \in Runs :
        pc[r] = "done" /\ lock = r
           => r \in KeepLock \cup asked \/ said[r] \in {"unverified", "raised"}

(* A run does not wait for the lock for ever: it gets it, or gives up      *)
(* (do_testing_setup's locker_timeout).                                    *)
WaitEnds == \A r \in Runs : <>(pc[r] \in Using \cup Cleaning \cup Over)
=============================================================================
