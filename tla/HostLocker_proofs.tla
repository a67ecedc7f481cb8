-------------------------- MODULE HostLocker_proofs --------------------------
(***************************************************************************)
(* Runs of op-test exclude each other, whatever their users, the codes of  *)
(* the service and the signals: but for a run whose lock expired or was    *)
(* deleted by one of the same user or one that knew no user, a run that    *)
(* took an unknown code for a grant, and one that goes on after its signal *)
(* handler has raised.                                                     *)
(***************************************************************************)
EXTENDS HostLocker, TLAPS

\* Who relies on the lock has been granted it, and so has who is about to.
Granted ==
    \A r \in Runs :
        r \in Relying \/ (pc[r] = "post" /\ answer[r] = "ok") => lock = r \/ r \in lapsed \cup taken

\* A request under way has no answer, and no run uses the host, or goes back
\* to it from its handler, without one; only a run in the handler has a frame.
Asked ==
    \A r \in Runs :
        /\ r \in flight => answer[r] = "none"
        /\ pc[r] \in Using \/ frame[r] \in Using => answer[r] # "none"
        /\ pc[r] \notin Cleaning \cup Over => frame[r] = "none"

\* The lock a run is about to delete is its own, or one it takes for its own.
FindsOwn == \A r \in Runs : pc[r] = "delete" => found[r] = r \/ Mistakes(r, found[r])

IInv == TypeOK /\ Granted /\ Asked /\ FindsOwn

\* Cleanup is the start of the cleanup or, with a lock to keep, the end.
LEMMA CleanupEnds == \A r \in Runs : Cleanup[r] \in {"unlock", "done"}
BY DEF Cleanup

LEMMA InitIInv == Init => IInv
<1> SUFFICES ASSUME Init PROVE IInv
  OBVIOUS
<1>1. TypeOK
  <2>1. pc \in [Runs -> Locking \cup Using \cup Cleaning \cup Over]
    BY DEF Init, Locking
  <2>2. tries \in [Runs -> 0 .. LockerWait]
    BY WaitAssumption DEF Init
  <2> QED
    BY <2>1, <2>2 DEF Init, TypeOK
<1>2. Granted
  BY DEF Init, Granted, Relying, Using
<1>3. FindsOwn
  BY DEF Init, FindsOwn
<1>4. Asked
  BY DEF Init, Asked, Using
<1> QED
  BY <1>1, <1>2, <1>3, <1>4 DEF IInv

\* A step keeps the types of the state.
LEMMA StepTypeOK == TypeOK /\ [Next]_vars => TypeOK'
<1> SUFFICES ASSUME TypeOK, [Next]_vars PROVE TypeOK'
  OBVIOUS
<1> USE CleanupEnds
<1>1. ASSUME NEW r \in Runs, Step(r) \/ Signal(r) \/ Killed(r) PROVE TypeOK'
  <2>1. CASE BeginLock(r)
    BY <2>1 DEF TypeOK, BeginLock, Locking, Goes, server, handler
  <2>2. CASE QueryHost(r)
    BY <2>2 DEF TypeOK, QueryHost, Locking, Cleaning, Over, Goes, handler
  <2>3. CASE Answered(r)
    BY <2>3 DEF TypeOK, Answered, LedTo, Locking, Using, Cleaning, Over, Goes, server, handler
  <2>4. CASE Unanswered(r)
    BY <2>4 DEF TypeOK, Unanswered, Cleaning, Over, Goes, server, handler
  <2>5. CASE WaitOrGiveUp(r)
    BY <2>5, WaitAssumption DEF TypeOK, WaitOrGiveUp, TimeLeft, Minute, Locking, Cleaning, Over, Goes, server, handler
  <2>6. CASE Retry(r)
    BY <2>6 DEF TypeOK, Retry, Locking, Goes, server, handler
  <2>7. CASE SetUp(r)
    BY <2>7 DEF TypeOK, SetUp, Using, Cleaning, Over, Goes, server, handler
  <2>8. CASE TestsEnd(r)
    BY <2>8 DEF TypeOK, TestsEnd, Cleaning, Over, Goes, server, handler
  <2>9. CASE FindLock(r)
    BY <2>9 DEF TypeOK, FindLock, Cleaning, Goes, server, handler, Matches, UserHolds
  <2>10. CASE DeleteLock(r)
    BY <2>10 DEF TypeOK, DeleteLock, Mistakes, Cleaning, Goes, handler
  <2>11. CASE Confirm(r)
    BY <2>11 DEF TypeOK, Confirm, Released, Over, Goes, server, handler
  <2>12. CASE Signal(r)
    BY <2>12 DEF TypeOK, Signal, Cleaning, Over, Goes, server, Frames, Using
  <2>13. CASE Killed(r)
    BY <2>13 DEF TypeOK, Killed, Over, Goes, server, handler
  <2>14. CASE ConfirmRaises(r)
    BY <2>14 DEF TypeOK, ConfirmRaises, Frames, Locking, Using, Cleaning, Over, Goes, server
  <2> QED
    BY <1>1, <2>14, <2>1, <2>2, <2>3, <2>4, <2>5, <2>6, <2>7, <2>8, <2>9, <2>10, <2>11, <2>12, <2>13 DEF Step
<1>2. ASSUME NEW r \in Runs, ServerLocks(r) PROVE TypeOK'
  BY <1>2 DEF TypeOK, ServerLocks, handler
<1>3. ASSUME NEW r \in Runs, LockExpires(r) PROVE TypeOK'
  BY <1>3 DEF TypeOK, LockExpires, handler
<1>4. CASE UNCHANGED vars
  BY <1>4 DEF TypeOK, vars, server, handler
<1> QED
  BY <1>1, <1>2, <1>3, <1>4 DEF Next

\* Only a step towards the host makes a run rely on it, and a step of the
\* service only lets it go on.
LEMMA RelyingMoves ==
    ASSUME TypeOK, Asked, NEW r \in Runs
    PROVE  /\ BeginLock(r) \/ QueryHost(r) \/ Unanswered(r) \/ WaitOrGiveUp(r) \/ Retry(r) \/ FindLock(r)
                \/ DeleteLock(r) \/ Confirm(r) \/ ConfirmRaises(r) \/ ServerLocks(r) \/ LockExpires(r)
              => Relying' = Relying
           /\ SetUp(r) \/ TestsEnd(r) \/ Signal(r) \/ Killed(r)
              => Relying' = Relying \/ (r \in Relying /\ Relying' = Relying \ {r})
           /\ Answered(r) /\ answer[r] # "ok" => Relying' = Relying
           /\ Answered(r) => Relying' \in {Relying, Relying \cup {r}}
<1> USE CleanupEnds DEF Relying, TypeOK, Using
<1>1. ASSUME BeginLock(r) PROVE Relying' = Relying
  BY <1>1 DEF BeginLock, Goes, server, handler
<1>2. ASSUME QueryHost(r) PROVE Relying' = Relying
  BY <1>2 DEF QueryHost, Goes, handler
<1>3. ASSUME Unanswered(r) PROVE Relying' = Relying
  BY <1>3 DEF Unanswered, Goes, server, handler
<1>4. ASSUME WaitOrGiveUp(r) PROVE Relying' = Relying
  BY <1>4 DEF WaitOrGiveUp, Goes, server, handler
<1>5. ASSUME Retry(r) PROVE Relying' = Relying
  BY <1>5 DEF Retry, Goes, server, handler
<1>6. ASSUME FindLock(r) PROVE Relying' = Relying
  BY <1>6 DEF FindLock, Goes, server, handler
<1>7. ASSUME DeleteLock(r) PROVE Relying' = Relying
  BY <1>7 DEF DeleteLock, Goes, handler
<1>8. ASSUME Confirm(r) PROVE Relying' = Relying
  BY <1>8 DEF Confirm, Goes, server, handler
<1>9. ASSUME ConfirmRaises(r) PROVE Relying' = Relying
  BY <1>9 DEF ConfirmRaises, Frames, Goes, server
<1>10. ASSUME ServerLocks(r) PROVE Relying' = Relying
  BY <1>10 DEF ServerLocks, handler, Asked
<1>11. ASSUME LockExpires(r) PROVE Relying' = Relying
  BY <1>11 DEF LockExpires, handler
<1>12. ASSUME SetUp(r) \/ TestsEnd(r) \/ Killed(r)
       PROVE  Relying' = Relying \/ (r \in Relying /\ Relying' = Relying \ {r})
  BY <1>12 DEF SetUp, TestsEnd, Killed, Goes, server, handler
<1>13. ASSUME Signal(r) PROVE Relying' = Relying \/ (r \in Relying /\ Relying' = Relying \ {r})
  BY <1>13 DEF Signal, Goes, server
<1>14. ASSUME Answered(r) PROVE /\ answer[r] # "ok" => Relying' = Relying
                               /\ Relying' \in {Relying, Relying \cup {r}}
  <2>1. answer' = answer /\ escaped' = escaped /\ pc' = [pc EXCEPT ![r] = LedTo(r)] /\ pc[r] = "post"
    BY <1>14 DEF Answered, Goes, handler
  <2>2. answer[r] # "none" /\ answer[r] \in {"ok", "conflict", "other", "locked"}
    BY <1>14, CodesAssumption DEF Answered
  <2>3. answer[r] \in {"locked", "conflict"} => LedTo(r) \notin Using
    BY DEF LedTo
  <2>4. Relying' \in {Relying, Relying \cup {r}}
    BY <2>1
  <2>5. answer[r] # "ok" => r \notin Relying' /\ r \notin Relying
    BY <2>1, <2>2, <2>3
  <2> QED
    BY <2>4, <2>5
<1> QED
  BY <1>1, <1>2, <1>3, <1>4, <1>5, <1>6, <1>7, <1>8, <1>9, <1>10, <1>11, <1>12, <1>13, <1>14

\* A grant is kept until the run that has it gives it back, or loses it.
LEMMA StepGranted == IInv /\ [Next]_vars => Granted'
<1> SUFFICES ASSUME IInv, [Next]_vars, NEW q \in Runs
             PROVE  (q \in Relying \/ (pc[q] = "post" /\ answer[q] = "ok") => lock = q \/ q \in lapsed \cup taken)'
  BY DEF Granted
<1> DEFINE Sure == q \in Relying \/ (pc[q] = "post" /\ answer[q] = "ok") => lock = q \/ q \in lapsed \cup taken
<1> USE CleanupEnds DEF IInv
<1>0. Sure
  BY DEF Granted
<1>1. ASSUME NEW r \in Runs, Step(r) \/ Signal(r) \/ Killed(r), ~DeleteLock(r), ~QueryHost(r)
      PROVE  UNCHANGED <<lock, lapsed, taken, answer>> /\ (pc'[q] = "post" => pc[q] = "post")
  BY <1>1 DEF TypeOK, Step, BeginLock, Answered, LedTo, Unanswered, WaitOrGiveUp, Retry, SetUp, TestsEnd,
     FindLock, Confirm, ConfirmRaises, Frames, Using, Signal, Killed, Goes, server
<1>2. ASSUME NEW r \in Runs, Step(r) \/ Signal(r) \/ Killed(r), ~DeleteLock(r), ~QueryHost(r), ~Answered(r) PROVE Sure'
  <2>1. Relying' \subseteq Relying
    BY <1>2, RelyingMoves DEF Step
  <2> QED
    BY <1>0, <1>1, <1>2, <2>1
<1>3. ASSUME NEW r \in Runs, Answered(r) PROVE Sure'
  <2>1. answer[r] # "ok" => Relying' = Relying
    BY <1>3, RelyingMoves
  <2>2. Relying' \in {Relying, Relying \cup {r}}
    BY <1>3, RelyingMoves
  <2>3. /\ UNCHANGED <<lock, lapsed, taken, answer>> /\ pc[r] = "post"
        /\ pc' = [pc EXCEPT ![r] = LedTo(r)] /\ LedTo(r) # "post"
    BY <1>3 DEF Answered, Goes, server, LedTo
  <2> QED
    BY <1>0, <2>1, <2>2, <2>3 DEF TypeOK
<1>4. ASSUME NEW r \in Runs, QueryHost(r) PROVE Sure'
  <2>1. Relying' = Relying
    BY <1>4, RelyingMoves
  <2> QED
    BY <1>0, <1>4, <2>1 DEF QueryHost, Goes, TypeOK
<1>5. ASSUME NEW r \in Runs, DeleteLock(r) PROVE Sure'
  <2>1. Relying' = Relying
    BY <1>5, RelyingMoves
  <2>2. r \notin Relying
    BY <1>5 DEF DeleteLock, Relying, Using
  <2>3. found[r] = r \/ Mistakes(r, found[r])
    BY <1>5 DEF DeleteLock, FindsOwn
  <2> QED
    BY <1>0, <1>5, <2>1, <2>2, <2>3 DEF DeleteLock, Goes, TypeOK
<1>6. ASSUME NEW r \in Runs, ServerLocks(r) PROVE Sure'
  <2>1. Relying' = Relying
    BY <1>6, RelyingMoves
  <2> QED
    BY <1>0, <1>6, <2>1, RunsAssumption DEF ServerLocks, TypeOK
<1>7. ASSUME NEW r \in Runs, LockExpires(r) PROVE Sure'
  <2>1. Relying' = Relying
    BY <1>7, RelyingMoves
  <2> QED
    BY <1>0, <1>7, <2>1 DEF LockExpires
<1>8. CASE UNCHANGED vars
  BY <1>0, <1>8 DEF vars, server, handler, Relying
<1> QED
  BY <1>2, <1>3, <1>4, <1>5, <1>6, <1>7, <1>8 DEF Next, Step

\* No step uses the host without an answer, or loses track of a request.
LEMMA StepAsked == TypeOK /\ Asked /\ [Next]_vars => Asked'
<1> SUFFICES ASSUME TypeOK, Asked, [Next]_vars PROVE Asked'
  OBVIOUS
<1> USE CleanupEnds DEF Asked, TypeOK, Using, Cleaning, Over, Goes
<1>1. ASSUME NEW r \in Runs, Step(r) \/ Signal(r) \/ Killed(r) PROVE Asked'
  <2>1. CASE BeginLock(r)
    BY <2>1 DEF BeginLock, server, handler
  <2>2. CASE QueryHost(r)
    BY <2>2 DEF QueryHost, handler
  <2>3. CASE Answered(r)
    BY <2>3 DEF Answered, LedTo, server, handler
  <2>4. CASE Unanswered(r)
    BY <2>4 DEF Unanswered, server, handler
  <2>5. CASE WaitOrGiveUp(r)
    BY <2>5 DEF WaitOrGiveUp, server, handler
  <2>6. CASE Retry(r)
    BY <2>6 DEF Retry, server, handler
  <2>7. CASE SetUp(r)
    BY <2>7 DEF SetUp, server, handler
  <2>8. CASE TestsEnd(r)
    BY <2>8 DEF TestsEnd, server, handler
  <2>9. CASE FindLock(r)
    BY <2>9 DEF FindLock, server, handler
  <2>10. CASE DeleteLock(r)
    BY <2>10 DEF DeleteLock, handler
  <2>11. CASE Confirm(r)
    BY <2>11 DEF Confirm, server, handler
  <2>12. CASE ConfirmRaises(r)
    BY <2>12 DEF ConfirmRaises, Frames, server
  <2>13. CASE Signal(r)
    BY <2>13 DEF Signal, Frames, server
  <2>14. CASE Killed(r)
    BY <2>14 DEF Killed, server, handler
  <2> QED
    BY <1>1, <2>1, <2>2, <2>3, <2>4, <2>5, <2>6, <2>7, <2>8, <2>9, <2>10, <2>11, <2>12, <2>13, <2>14 DEF Step
<1>2. ASSUME NEW r \in Runs, ServerLocks(r) PROVE Asked'
  BY <1>2, CodesAssumption DEF ServerLocks, handler
<1>3. ASSUME NEW r \in Runs, LockExpires(r) PROVE Asked'
  BY <1>3 DEF LockExpires, handler
<1>4. CASE UNCHANGED vars
  BY <1>4 DEF vars, server, handler
<1> QED
  BY <1>1, <1>2, <1>3, <1>4 DEF Next

\* The lock a run is about to delete is its own, or seems to be.
LEMMA StepFindsOwn == IInv /\ [Next]_vars => FindsOwn'
<1> SUFFICES ASSUME IInv, [Next]_vars, NEW q \in Runs, pc'[q] = "delete"
             PROVE  (found[q] = q \/ Mistakes(q, found[q]))'
  BY DEF FindsOwn
<1> USE DEF IInv
<1>1. CASE \E r \in Runs : FindLock(r)
  <2> PICK r \in Runs : FindLock(r)
    BY <1>1
  <2>1. CASE q = r
    <3>1. found'[q] = lock /\ known' = known /\ Matches(q)
      BY <2>1 DEF FindLock, TypeOK, Goes
    <3> QED
      BY <3>1 DEF Matches, UserHolds, Mistakes, TypeOK
  <2>2. CASE q # r
    BY <2>2 DEF FindLock, TypeOK, Goes, FindsOwn, Mistakes
  <2> QED
    BY <2>1, <2>2
<1>2. CASE ~\E r \in Runs : FindLock(r)
  <2>1. pc[q] = "delete" /\ found'[q] = found[q] /\ (q \in known' <=> q \in known)
    <3>1. ASSUME NEW r \in Runs, Step(r) \/ Signal(r) \/ Killed(r)
          PROVE  pc[q] = "delete" /\ found'[q] = found[q] /\ (q \in known' <=> q \in known)
      BY <3>1, <1>2, CleanupEnds DEF TypeOK, Step, BeginLock, QueryHost, Answered, LedTo, Unanswered, WaitOrGiveUp,
         Retry, SetUp, TestsEnd, DeleteLock, Confirm, ConfirmRaises, Frames, Using, Signal, Killed, Goes
    <3>2. ASSUME NEW r \in Runs, ServerLocks(r) \/ LockExpires(r)
          PROVE  pc[q] = "delete" /\ found'[q] = found[q] /\ (q \in known' <=> q \in known)
      BY <3>2 DEF ServerLocks, LockExpires
    <3>3. CASE UNCHANGED vars
      BY <3>3 DEF vars
    <3> QED
      BY <3>1, <3>2, <3>3 DEF Next
  <2> QED
    BY <2>1 DEF FindsOwn, Mistakes
<1> QED
  BY <1>1, <1>2

LEMMA StepIInv == IInv /\ [Next]_vars => IInv'
BY StepTypeOK, StepGranted, StepAsked, StepFindsOwn DEF IInv

(* The state of the runs and of the service is of the types it should be. *)
THEOREM HostLockerTypeCorrect == Spec => []TypeOK
<1>1. Init => TypeOK
  BY InitIInv DEF IInv
<1> QED
  BY <1>1, StepTypeOK, PTL DEF Spec

(* Two runs use the host at once only when one of them has lost its lock,  *)
(* to its expiry, to a run of its own user or to one that knew no user, or *)
(* has taken an unknown code for a grant, or goes on after its signal      *)
(* handler raised: what check_lockers() is for.                            *)
THEOREM HostLockerExclusive == Spec => []Exclusive
<1>1. Granted => Exclusive
  BY DEF Granted, Exclusive, Relying
<1> QED
  BY <1>1, InitIInv, StepIInv, PTL DEF Spec, IInv

\* The lock, who relies on it and who lost it change as a reservation may.
LEMMA StepReserves == IInv /\ [Next]_vars => [Promise!Next]_(Promise!vars)
<1> SUFFICES ASSUME IInv, [Next]_vars
             PROVE  [Promise!Next]_(Promise!vars)
  OBVIOUS
<1> USE DEF IInv
<1>1. ASSUME NEW r \in Runs, BeginLock(r) \/ QueryHost(r) \/ Unanswered(r) \/ WaitOrGiveUp(r) \/ Retry(r)
                             \/ FindLock(r) \/ Confirm(r) \/ ConfirmRaises(r)
      PROVE  UNCHANGED Promise!vars
  <2>1. Relying' = Relying
    BY <1>1, RelyingMoves
  <2>2. UNCHANGED <<lock, lapsed, taken>>
    BY <1>1 DEF BeginLock, QueryHost, Unanswered, WaitOrGiveUp, Retry, FindLock, Confirm, ConfirmRaises, server
  <2> QED
    BY <2>1, <2>2 DEF Promise!vars
<1>2. ASSUME NEW r \in Runs, Answered(r) PROVE Promise!Begin(r) \/ UNCHANGED Promise!vars
  <2>1. UNCHANGED <<lock, lapsed, taken>> /\ pc[r] = "post"
    BY <1>2 DEF Answered, server
  <2>2. CASE Relying' = Relying
    BY <2>1, <2>2 DEF Promise!vars
  <2>3. CASE Relying' # Relying
    <3>1. Relying' = Relying \cup {r} /\ answer[r] = "ok"
      BY <1>2, <2>3, RelyingMoves
    <3>2. lock = r \/ r \in lapsed \cup taken
      BY <2>1, <3>1 DEF Granted
    <3> QED
      BY <2>1, <3>1, <3>2 DEF Promise!Begin
  <2> QED
    BY <2>2, <2>3
<1>3. ASSUME NEW r \in Runs, SetUp(r) \/ TestsEnd(r) \/ Signal(r) \/ Killed(r)
      PROVE  Promise!End(r) \/ UNCHANGED Promise!vars
  <2>1. Relying' = Relying \/ (r \in Relying /\ Relying' = Relying \ {r})
    BY <1>3, RelyingMoves
  <2>2. UNCHANGED <<lock, lapsed, taken>>
    BY <1>3 DEF SetUp, TestsEnd, Signal, Killed, server
  <2> QED
    BY <2>1, <2>2 DEF Promise!End, Promise!vars
<1>4. ASSUME NEW r \in Runs, DeleteLock(r)
      PROVE  Promise!GiveBack(r) \/ UNCHANGED Promise!vars \/ \E s \in Runs : Promise!Lapse(s)
  <2>1. Relying' = Relying /\ lapsed' = lapsed /\ r \notin Relying
    BY <1>4, RelyingMoves DEF DeleteLock, Relying, Using
  <2>2. CASE lock' = lock /\ taken' = taken
    BY <2>1, <2>2 DEF Promise!vars
  <2>3. CASE lock = found[r] /\ lock' = NoRun /\ ~Mistakes(r, lock) /\ taken' = taken
    <3>1. lock = r
      BY <1>4, <2>3 DEF FindsOwn, DeleteLock
    <3> QED
      BY <2>1, <2>3, <3>1 DEF Promise!GiveBack
  <2>4. CASE lock = found[r] /\ lock' = NoRun /\ taken' = taken \cup {lock}
    <3>1. Promise!Lapse(lock)
      BY <2>1, <2>4 DEF Promise!Lapse
    <3>2. CASE lock \in Runs
      BY <3>1, <3>2
    <3>3. CASE lock = NoRun
      BY <1>4, <2>4, <3>3, RunsAssumption DEF FindsOwn, DeleteLock, Mistakes
    <3> QED
      BY <3>2, <3>3 DEF TypeOK
  <2> QED
    BY <1>4, <2>2, <2>3, <2>4 DEF DeleteLock
<1>5. ASSUME NEW r \in Runs, ServerLocks(r) PROVE Promise!Grant(r) \/ UNCHANGED Promise!vars
  <2>1. Relying' = Relying
    BY <1>5, RelyingMoves
  <2> QED
    BY <1>5, <2>1 DEF ServerLocks, Promise!Grant, Promise!vars
<1>6. ASSUME NEW r \in Runs, LockExpires(r) PROVE Promise!Lapse(r)
  <2>1. Relying' = Relying
    BY <1>6, RelyingMoves
  <2> QED
    BY <1>6, <2>1 DEF LockExpires, Promise!Lapse
<1>7. CASE UNCHANGED vars
  BY <1>7 DEF vars, server, handler, Promise!vars, Relying
<1> QED
  BY <1>1, <1>2, <1>3, <1>4, <1>5, <1>6, <1>7 DEF Next, Step, Promise!Next

(* HostLocker's runs keep what a reservation promises: no run relies on    *)
(* another's lock, and no cleanup takes the lock of a run that relies on   *)
(* it but one of the same user, or of a run that knew no user.             *)
THEOREM HostLockerReserves == Spec => KeepsPromise
<1>1. Init => Promise!Init
  BY DEF Init, Relying, Using, Promise!Init
<1> QED
  BY <1>1, InitIInv, StepIInv, StepReserves, PTL DEF Spec, KeepsPromise, Promise!Spec

\* A request under way has no answer; a run that said "released" is over, and
\* holds no lock but for a request that was under way; one that ended without
\* a word keeps its lock.
Told ==
    \A r \in Runs :
        /\ r \in flight => r \in asked /\ answer[r] = "none"
        /\ said[r] = "released" => pc[r] = "done"
        /\ pc[r] = "done" => r \in KeepLock \/ said[r] # "nothing"
        /\ said[r] = "released" /\ lock = r => r \in asked

LEMMA StepTold == TypeOK /\ Told /\ [Next]_vars => Told'
<1> SUFFICES ASSUME TypeOK, Told, [Next]_vars, NEW q \in Runs PROVE Told!(q)'
  BY DEF Told
<1>1. ASSUME NEW r \in Runs, Step(r) \/ Signal(r) \/ Killed(r) PROVE Told!(q)'
  <2>1. CASE BeginLock(r)
    BY <2>1 DEF Told, TypeOK, BeginLock, Goes, server, handler, Cleanup
  <2>2. CASE QueryHost(r)
    BY <2>2 DEF Told, TypeOK, QueryHost, Goes, handler, Cleanup
  <2>3. CASE Answered(r)
    BY <2>3 DEF Told, TypeOK, Answered, LedTo, Goes, server, handler, Cleanup
  <2>4. CASE Unanswered(r)
    BY <2>4 DEF Told, TypeOK, Unanswered, Goes, server, handler, Cleanup
  <2>5. CASE WaitOrGiveUp(r)
    BY <2>5 DEF Told, TypeOK, WaitOrGiveUp, TimeLeft, Minute, Goes, server, handler, Cleanup
  <2>6. CASE Retry(r)
    BY <2>6 DEF Told, TypeOK, Retry, Goes, server, handler, Cleanup
  <2>7. CASE SetUp(r)
    BY <2>7 DEF Told, TypeOK, SetUp, Goes, server, handler, Cleanup
  <2>8. CASE TestsEnd(r)
    BY <2>8 DEF Told, TypeOK, TestsEnd, Goes, server, handler, Cleanup
  <2>9. CASE FindLock(r)
    BY <2>9 DEF Told, TypeOK, FindLock, Goes, server, handler
  <2>10. CASE DeleteLock(r)
    BY <2>10, RunsAssumption DEF Told, TypeOK, DeleteLock, Goes, handler
  <2>11. CASE Confirm(r)
    BY <2>11, RunsAssumption DEF Told, TypeOK, Confirm, Released, Goes, server, handler, UserHolds
  <2>12. CASE Signal(r)
    BY <2>12 DEF Told, TypeOK, Signal, Goes, server, Cleanup, Over
  <2>13. CASE Killed(r)
    BY <2>13 DEF Told, TypeOK, Killed, Goes, server, handler, Over
  <2>14. CASE ConfirmRaises(r)
    BY <2>14 DEF Told, TypeOK, ConfirmRaises, Frames, Using, Goes, server
  <2> QED
    BY <1>1, <2>14, <2>1, <2>2, <2>3, <2>4, <2>5, <2>6, <2>7, <2>8, <2>9, <2>10, <2>11, <2>12, <2>13 DEF Step
<1>2. ASSUME NEW r \in Runs, ServerLocks(r) PROVE Told!(q)'
  BY <1>2 DEF Told, TypeOK, ServerLocks, handler
<1>3. ASSUME NEW r \in Runs, LockExpires(r) PROVE Told!(q)'
  BY <1>3, RunsAssumption DEF Told, LockExpires, handler
<1>4. CASE UNCHANGED vars
  BY <1>4 DEF Told, vars, server, handler
<1> QED
  BY <1>1, <1>2, <1>3, <1>4 DEF Next

(* Whatever the users, the codes and the signals: a run that is over and   *)
(* still holds its lock was told to keep it, or warned that it may, or was *)
(* interrupted while its request was under way (cleanup()).                *)
THEOREM HostLockerLeftBehind == Spec => []LeftBehindIsReported
<1>1. Init => TypeOK /\ Told
  <2>1. Init => Told
    BY DEF Init, Told
  <2> QED
    BY <2>1, InitIInv DEF IInv
<1>2. TypeOK /\ Told => LeftBehindIsReported
  <2> SUFFICES ASSUME TypeOK, Told, NEW r \in Runs, pc[r] = "done", lock = r, r \notin KeepLock, r \notin asked
               PROVE  said[r] \in {"unverified", "raised"}
    BY DEF LeftBehindIsReported
  <2> QED
    BY DEF TypeOK, Told
<1> QED
  BY <1>1, <1>2, StepTypeOK, StepTold, PTL DEF Spec

=============================================================================
