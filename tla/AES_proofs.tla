----------------------------- MODULE AES_proofs -----------------------------
(***************************************************************************)
(* Runs of op-test of different users keep, for every environment, the     *)
(* promise of a reservation, however stale the answers they decide on; and *)
(* no reservation a run was granted is left behind without an exception.   *)
(***************************************************************************)
EXTENDS AES, TLAPS

Distinct == \A r, s \in Runs : UserOf[r] = UserOf[s] => r = s

\* The environment of a run that tests, or is about to, is reserved for it.
Held ==
    \A r \in Runs :
        /\ r \notin escaped
        /\ pc[r] \in {"info", "testing"} \/ (pc[r] = "enqueue" /\ answer[r] = "ok")
        => reserved[env[r]] = r \/ <<r, env[r]>> \in lapsed

\* What a run extends or releases is its own, and one that never expires is
\* still what it was when the run asked.
OwnOnly ==
    \A r \in Runs :
        /\ res_id[r] \in {r, NoRun}
        /\ pc[r] = "extend" => snap[r][env[r]] = r
        /\ pc[r] \in {"choose", "enqueue"} /\ r \in Endless
               => \A e \in Envs : snap[r][e] = r => reserved[e] = r

IInv == TypeOK /\ Held /\ OwnOnly

LEMMA InitTypeOK == Init => TypeOK
BY EnvsAssumption, WaitAssumption DEF Init, TypeOK, Reserving

LEMMA SearchedEnvs == \A r \in Runs : Searched[r] \in SUBSET Envs
BY EnvsAssumption

\* A step keeps the types of the state.
LEMMA StepTypeOK == TypeOK /\ [Next]_vars => TypeOK'
<1> SUFFICES ASSUME TypeOK, [Next]_vars PROVE TypeOK'
  OBVIOUS
<1>1. ASSUME NEW r \in Runs, Step(r) \/ Signal(r) \/ Killed(r) PROVE TypeOK'
  <2> USE DEF TypeOK, Goes, Notes, Exits, ToRelease
  <2>1. CASE GetEnvironments(r)
    <3>1. Searched[r] \in SUBSET Envs
      BY SearchedEnvs
    <3>2. pc' \in [Runs -> Reserving \cup {"testing"} \cup Releasing \cup Over]
      BY <2>1 DEF GetEnvironments, Reserving, Releasing, Over
    <3>3. snap' \in [Runs -> [Envs -> Runs \cup {NoRun}]]
      <4>1. snap' = [snap EXCEPT ![r] = reserved] \/ snap' = snap
        BY <2>1 DEF GetEnvironments
      <4> QED
        BY <4>1
    <3>4. todo' \in [Runs -> SUBSET Envs]
      <4>1. todo' = [todo EXCEPT ![r] = Searched[r]] \/ todo' = todo
        BY <2>1 DEF GetEnvironments
      <4> QED
        BY <4>1, <3>1
    <3> QED
      BY <2>1, <3>2, <3>3, <3>4 DEF GetEnvironments, service
  <2>2. CASE LockEnv(r)
    <3>1. PICK e \in todo[r] : LockEnv(r)!2!(e)
      BY <2>2 DEF LockEnv
    <3>2. e \in Envs /\ snap[r][e] \in Runs \cup {NoRun}
      OBVIOUS
    <3>3. /\ pc' \in [Runs -> Reserving \cup {"testing"} \cup Releasing \cup Over]
          /\ res_id' \in [Runs -> Runs \cup {NoRun}]
          /\ answer' \in [Runs -> {"none", "ok", "no"}]
          /\ flight' \subseteq Runs /\ asked' \subseteq Runs
      BY <3>1, <3>2 DEF Reserving, Releasing, Over
    <3>4. /\ todo' \in [Runs -> SUBSET Envs]
          /\ env' \in [Runs -> Envs]
      BY <3>1, <3>2
    <3> QED
      BY <2>2, <3>3, <3>4 DEF LockEnv
  <2>3. CASE NothingToLock(r)
    BY <2>3 DEF NothingToLock, Reserving, service
  <2>4. CASE Enqueued(r)
    BY <2>4 DEF Enqueued, Reserving, service
  <2>5. CASE Unanswered(r)
    BY <2>5 DEF Unanswered, Releasing, Over, service
  <2>6. CASE AddTime(r)
    <3>1. snap[r][env[r]] \in Runs \cup {NoRun}
      OBVIOUS
    <3> QED
      BY <2>6, <3>1 DEF AddTime, Reserving, Releasing, Over, service
  <2>7. CASE WaitOrGiveUp(r)
    BY <2>7, WaitAssumption DEF WaitOrGiveUp, TimeLeft, Minute, Reserving, Releasing, Over, service
  <2>8. CASE SetUp(r)
    BY <2>8 DEF SetUp, Releasing, Over, service
  <2>9. CASE TestsEnd(r)
    BY <2>9 DEF TestsEnd, Releasing, Over, service
  <2>10. Released(r) \in [Envs -> Runs \cup {NoRun}]
    BY DEF Released
  <2>11. CASE Release(r)
    BY <2>10, <2>11 DEF Release, Over
  <2>12. CASE ReleaseFails(r)
    BY <2>10, <2>12 DEF ReleaseFails, Over
  <2>13. CASE HandlerRaises(r)
    BY <2>10, <2>13 DEF HandlerRaises, Releasing
  <2>14. CASE Signal(r)
    BY <2>14 DEF Signal, Releasing, Over, service
  <2>15. CASE Killed(r)
    BY <2>15 DEF Killed, Over, service
  <2> QED
    BY <1>1, <2>1, <2>2, <2>3, <2>4, <2>5, <2>6, <2>7, <2>8, <2>9, <2>11, <2>12, <2>13, <2>14, <2>15 DEF Step
<1>2. ASSUME NEW r \in Runs, ServiceReserves(r) PROVE TypeOK'
  <2>1. reserved' \in [Envs -> Runs \cup {NoRun}]
    <3>1. reserved' = [reserved EXCEPT ![env[r]] = r] \/ reserved' = reserved
      BY <1>2 DEF ServiceReserves
    <3> QED
      BY <3>1 DEF TypeOK
  <2>2. answer' \in [Runs -> {"none", "ok", "no"}] /\ flight' \subseteq Runs
    BY <1>2 DEF TypeOK, ServiceReserves
  <2> QED
    BY <1>2, <2>1, <2>2 DEF TypeOK, ServiceReserves, client
<1>3. ASSUME NEW r \in Runs, Expires(r) PROVE TypeOK'
  BY <1>3 DEF TypeOK, Expires, client
<1>4. CASE UNCHANGED vars
  BY <1>4 DEF TypeOK, vars, client, service
<1> QED
  BY <1>1, <1>2, <1>3, <1>4 DEF Next

(* The state of the runs and of the service is of the types it should be.  *)
THEOREM AESTypeCorrect == Spec => []TypeOK
BY InitTypeOK, StepTypeOK, PTL DEF Spec

\* A run notes and extends only what is its own.
LEMMA StepOwnOnly == Distinct /\ TypeOK /\ OwnOnly /\ [Next]_vars => OwnOnly'
<1> SUFFICES ASSUME Distinct, TypeOK, OwnOnly, [Next]_vars, NEW q \in Runs PROVE OwnOnly!(q)'
  BY DEF OwnOnly
<1>1. ASSUME NEW r \in Runs, Step(r) \/ Signal(r) \/ Killed(r) PROVE OwnOnly!(q)'
  <2> USE RunsAssumption DEF OwnOnly, Distinct, TypeOK, Goes, Notes, Exits, ToRelease
  <2>1. CASE GetEnvironments(r)
    BY <2>1 DEF GetEnvironments, service
  <2>2. CASE LockEnv(r)
    BY <2>2 DEF LockEnv, Free, Extends, Takes, Own
  <2>3. CASE NothingToLock(r)
    BY <2>3 DEF NothingToLock, service
  <2>4. CASE Enqueued(r)
    BY <2>4 DEF Enqueued, service
  <2>5. CASE Unanswered(r)
    BY <2>5 DEF Unanswered, service
  <2>6. CASE AddTime(r)
    BY <2>6 DEF AddTime, Found, service
  <2>7. CASE WaitOrGiveUp(r)
    <3>1. /\ UNCHANGED <<snap, env, res_id, reserved>>
          /\ pc' \in {[pc EXCEPT ![r] = to] : to \in {"start", "release", "done"}}
      BY <2>7 DEF WaitOrGiveUp, service
    <3> QED
      BY <3>1
  <2>8. CASE SetUp(r)
    BY <2>8 DEF SetUp, service
  <2>9. CASE TestsEnd(r)
    BY <2>9 DEF TestsEnd, service
  <2>10. CASE Release(r)
    BY <2>10 DEF Release, Released
  <2>11. CASE ReleaseFails(r)
    BY <2>11 DEF ReleaseFails, Released
  <2>12. CASE HandlerRaises(r)
    BY <2>12 DEF HandlerRaises, Released
  <2>13. CASE Signal(r)
    BY <2>13 DEF Signal, Over, service
  <2>14. CASE Killed(r)
    BY <2>14 DEF Killed, Over, service
  <2> QED
    BY <1>1, <2>1, <2>2, <2>3, <2>4, <2>5, <2>6, <2>7, <2>8, <2>9, <2>10, <2>11, <2>12, <2>13, <2>14 DEF Step
<1>2. ASSUME NEW r \in Runs, ServiceReserves(r) PROVE OwnOnly!(q)'
  BY <1>2, RunsAssumption DEF OwnOnly, Distinct, TypeOK, ServiceReserves, client
<1>3. ASSUME NEW r \in Runs, Expires(r) PROVE OwnOnly!(q)'
  BY <1>3, RunsAssumption DEF OwnOnly, Distinct, TypeOK, Expires, client
<1>4. CASE UNCHANGED vars
  BY <1>4 DEF OwnOnly, Distinct, vars, client, service
<1> QED
  BY <1>1, <1>2, <1>3, <1>4 DEF Next

\* Nobody else releases what a run tests on.
LEMMA StepHeld == Distinct /\ IInv /\ [Next]_vars => Held'
<1> SUFFICES ASSUME Distinct, IInv, [Next]_vars, NEW q \in Runs PROVE Held!(q)'
  BY DEF Held
<1>1. ASSUME NEW r \in Runs, Step(r) \/ Signal(r) \/ Killed(r) PROVE Held!(q)'
  <2> USE RunsAssumption DEF Held, OwnOnly, Distinct, IInv, TypeOK, Goes, Notes, Exits, ToRelease
  <2>1. CASE GetEnvironments(r)
    BY <2>1 DEF GetEnvironments, service
  <2>2. CASE LockEnv(r)
    BY <2>2 DEF LockEnv, Free, Extends, Takes, Own
  <2>3. CASE NothingToLock(r)
    BY <2>3 DEF NothingToLock, service
  <2>4. CASE Enqueued(r)
    BY <2>4 DEF Enqueued, service
  <2>5. CASE Unanswered(r)
    BY <2>5 DEF Unanswered, service
  <2>6. CASE AddTime(r)
    BY <2>6 DEF AddTime, Found, service
  <2>7. CASE WaitOrGiveUp(r)
    BY <2>7 DEF WaitOrGiveUp, service
  <2>8. CASE SetUp(r)
    BY <2>8 DEF SetUp, service
  <2>9. CASE TestsEnd(r)
    BY <2>9 DEF TestsEnd, service
  <2>10. CASE Release(r)
    BY <2>10 DEF Release, Released
  <2>11. CASE ReleaseFails(r)
    BY <2>11 DEF ReleaseFails, Released
  <2>12. CASE HandlerRaises(r)
    BY <2>12 DEF HandlerRaises, Released
  <2>13. CASE Signal(r)
    BY <2>13 DEF Signal, Over, service
  <2>14. CASE Killed(r)
    BY <2>14 DEF Killed, Over, service
  <2> QED
    BY <1>1, <2>1, <2>2, <2>3, <2>4, <2>5, <2>6, <2>7, <2>8, <2>9, <2>10, <2>11, <2>12, <2>13, <2>14 DEF Step
<1>2. ASSUME NEW r \in Runs, ServiceReserves(r) PROVE Held!(q)'
  BY <1>2, RunsAssumption DEF Held, OwnOnly, Distinct, IInv, TypeOK, ServiceReserves, client
<1>3. ASSUME NEW r \in Runs, Expires(r) PROVE Held!(q)'
  BY <1>3, RunsAssumption DEF Held, OwnOnly, Distinct, IInv, TypeOK, Expires, client
<1>4. CASE UNCHANGED vars
  BY <1>4 DEF Held, OwnOnly, Distinct, IInv, vars, client, service
<1> QED
  BY <1>1, <1>2, <1>3, <1>4 DEF Next

LEMMA InitIInv == Init => IInv
<1>1. Init => Held /\ OwnOnly
  BY RunsAssumption, EnvsAssumption DEF Init, Held, OwnOnly
<1> QED
  BY <1>1, InitTypeOK DEF IInv

LEMMA StepIInv == Distinct /\ IInv /\ [Next]_vars => IInv'
BY StepTypeOK, StepOwnOnly, StepHeld DEF IInv

\* Every step is a step, or none, of the reservation of each environment.
LEMMA StepReserves ==
    Distinct /\ IInv /\ [Next]_vars
        => \A e \in Envs : [Promise(e)!Next]_(Promise(e)!vars)
<1> SUFFICES ASSUME Distinct, IInv, [Next]_vars, NEW e \in Envs
             PROVE  [Promise(e)!Next]_(Promise(e)!vars)
  OBVIOUS
<1> DEFINE users == {r \in Runs \ escaped : pc[r] = "testing" /\ env[r] = e}
           over == {r \in Runs : <<r, e>> \in lapsed}
<1> USE DEF IInv
<1>1. ASSUME NEW r \in Runs,
             GetEnvironments(r) \/ LockEnv(r) \/ NothingToLock(r) \/ Enqueued(r)
             \/ Unanswered(r) \/ AddTime(r) \/ WaitOrGiveUp(r)
      PROVE  UNCHANGED Promise(e)!vars
  <2>1. /\ UNCHANGED <<reserved, lapsed, escaped>>
        /\ \A q \in Runs \ {r} : pc'[q] = pc[q] /\ env'[q] = env[q]
        /\ pc[r] # "testing" /\ pc'[r] # "testing"
    <3> USE DEF TypeOK, Goes, Exits, service
    <3>1. CASE GetEnvironments(r)
      BY <3>1 DEF GetEnvironments
    <3>2. CASE LockEnv(r)
      BY <3>2 DEF LockEnv
    <3>3. CASE NothingToLock(r)
      BY <3>3 DEF NothingToLock
    <3>4. CASE Enqueued(r)
      BY <3>4 DEF Enqueued
    <3>5. CASE Unanswered(r)
      BY <3>5 DEF Unanswered
    <3>6. CASE AddTime(r)
      BY <3>6 DEF AddTime
    <3>7. CASE WaitOrGiveUp(r)
      BY <3>7 DEF WaitOrGiveUp
    <3> QED
      BY <1>1, <3>1, <3>2, <3>3, <3>4, <3>5, <3>6, <3>7
  <2>2. users' = users /\ over' = over
    BY <2>1
  <2> QED
    BY <2>1, <2>2 DEF Promise!vars
<1>2. ASSUME NEW r \in Runs, SetUp(r)
      PROVE  Promise(e)!Begin(r) \/ UNCHANGED Promise(e)!vars
  <2>1. UNCHANGED <<reserved, lapsed, escaped, env>>
    BY <1>2 DEF SetUp, service
  <2>2. users' = users \/ (users' = users \cup {r} /\ r \notin escaped /\ env[r] = e)
    BY <1>2, <2>1 DEF TypeOK, SetUp, Goes, Exits
  <2>3. r \notin escaped /\ env[r] = e => reserved[e] = r \/ r \in over
    BY <1>2 DEF SetUp, Held
  <2> QED
    BY <2>1, <2>2, <2>3 DEF Promise!Begin, Promise!vars
<1>3. ASSUME NEW r \in Runs, TestsEnd(r) \/ Signal(r) \/ Killed(r)
      PROVE  Promise(e)!End(r) \/ UNCHANGED Promise(e)!vars
  <2>1. UNCHANGED <<reserved, lapsed, escaped, env>>
    BY <1>3 DEF TestsEnd, Signal, Killed, service
  <2>2. \A q \in Runs \ {r} : pc'[q] = pc[q]
    BY <1>3 DEF TypeOK, TestsEnd, Signal, Killed, Goes, Exits
  <2>3. pc'[r] # "testing"
    BY <1>3 DEF TypeOK, TestsEnd, Signal, Killed, Goes, Exits
  <2>4. users' = users \ {r}
    BY <2>1, <2>2, <2>3
  <2> QED
    BY <2>1, <2>4 DEF Promise!End, Promise!vars
<1>4. ASSUME NEW r \in Runs, Release(r) \/ ReleaseFails(r) \/ HandlerRaises(r)
      PROVE  Promise(e)!GiveBack(r) \/ UNCHANGED Promise(e)!vars
  <2>1. lapsed' = lapsed /\ env' = env
    BY <1>4 DEF Release, ReleaseFails, HandlerRaises
  <2>2. users' = users /\ r \notin users
    BY <1>4, <2>1 DEF TypeOK, Release, ReleaseFails, HandlerRaises, Goes, Releasing
  <2>3. reserved' = reserved \/ reserved' = Released(r)
    BY <1>4 DEF Release, ReleaseFails, HandlerRaises
  <2>4. reserved'[e] = reserved[e] \/ (reserved[e] = r /\ reserved'[e] = NoRun)
    BY <2>3 DEF Released, OwnOnly
  <2> QED
    BY <2>1, <2>2, <2>4 DEF Promise!GiveBack, Promise!vars
<1>5. ASSUME NEW r \in Runs, ServiceReserves(r)
      PROVE  Promise(e)!Grant(r) \/ UNCHANGED Promise(e)!vars
  <2>1. UNCHANGED <<lapsed, pc, env, escaped>>
    BY <1>5 DEF ServiceReserves, client
  <2>2. reserved'[e] = reserved[e] \/ (reserved[e] = NoRun /\ reserved'[e] = r)
    BY <1>5 DEF TypeOK, ServiceReserves
  <2> QED
    BY <2>1, <2>2 DEF Promise!Grant, Promise!vars
<1>6. ASSUME NEW r \in Runs, Expires(r)
      PROVE  Promise(e)!Lapse(r) \/ UNCHANGED Promise(e)!vars
  <2>1. UNCHANGED <<pc, env, escaped>>
    BY <1>6 DEF Expires, client
  <2>2. PICK f \in Envs : /\ reserved[f] = r
                          /\ reserved' = [reserved EXCEPT ![f] = NoRun]
                          /\ lapsed' = lapsed \cup {<<r, f>>}
    BY <1>6 DEF Expires
  <2>3. CASE f = e
    <3>1. reserved'[e] = NoRun /\ over' = over \cup {r}
      BY <2>2, <2>3 DEF TypeOK
    <3> QED
      BY <2>1, <2>2, <2>3, <3>1 DEF Promise!Lapse
  <2>4. CASE f # e
    <3>1. reserved'[e] = reserved[e] /\ over' = over
      BY <2>2, <2>4 DEF TypeOK
    <3> QED
      BY <2>1, <3>1 DEF Promise!vars
  <2> QED
    BY <2>3, <2>4
<1>7. CASE UNCHANGED vars
  BY <1>7 DEF vars, client, service, Promise!vars
<1> QED
  BY <1>1, <1>2, <1>3, <1>4, <1>5, <1>6, <1>7 DEF Next, Step, Promise!Next

(* Runs of different users keep the promise of a reservation for every     *)
(* environment: none tests on what another has, or takes it away.          *)
THEOREM AESReserves ==
    ASSUME Distinct PROVE Spec => KeepsPromise
<1>1. Init => \A e \in Envs : Promise(e)!Init
  BY EnvsAssumption DEF Init, Promise!Init
<1> QED
  BY <1>1, InitIInv, StepIInv, StepReserves, PTL DEF Spec, KeepsPromise

\* A request under way is noted in asked.  What a run was granted it has
\* noted, or it has no answer yet; and what it notes it releases, or keeps,
\* or could not release.
Noted ==
    \A r \in Runs :
        /\ r \in flight => r \in asked /\ answer[r] = "none"
        /\ r \in asked => pc[r] \in {"enqueue", "done", "killed"}
        /\ pc[r] = "enqueue" => r \in asked
        /\ pc[r] \in {"start", "choose", "enqueue", "denied"} => res_id[r] = NoRun
        /\ \A e \in Envs :
               reserved[e] = r /\ prior[e] # r =>
                   /\ env[r] = e
                   /\ IF r \in asked THEN answer[r] = "ok" ELSE res_id[r] = r
        /\ pc[r] = "done" /\ res_id[r] # NoRun => r \in KeepLock \/ said[r] = "failed"

LEMMA StepNoted == TypeOK /\ Noted /\ [Next]_vars => Noted'
<1> SUFFICES ASSUME TypeOK, Noted, [Next]_vars, NEW q \in Runs PROVE Noted!(q)'
  BY DEF Noted
<1>1. ASSUME NEW r \in Runs, Step(r) \/ Signal(r) \/ Killed(r) PROVE Noted!(q)'
  <2> USE RunsAssumption DEF Noted, TypeOK, Goes, Notes, Exits, ToRelease
  <2>1. CASE GetEnvironments(r)
    BY <2>1 DEF GetEnvironments, service
  <2>2. CASE LockEnv(r)
    BY <2>2 DEF LockEnv, Free, Extends, Takes, Own
  <2>3. CASE NothingToLock(r)
    BY <2>3 DEF NothingToLock, service
  <2>4. CASE Enqueued(r)
    BY <2>4 DEF Enqueued, service
  <2>5. CASE Unanswered(r)
    BY <2>5 DEF Unanswered, service
  <2>6. CASE AddTime(r)
    BY <2>6 DEF AddTime, Found, service
  <2>7. CASE WaitOrGiveUp(r)
    BY <2>7 DEF WaitOrGiveUp, service
  <2>8. CASE SetUp(r)
    BY <2>8 DEF SetUp, service
  <2>9. CASE TestsEnd(r)
    BY <2>9 DEF TestsEnd, service
  <2>10. CASE Release(r)
    BY <2>10 DEF Release, Released
  <2>11. CASE ReleaseFails(r)
    BY <2>11 DEF ReleaseFails, Released
  <2>12. CASE HandlerRaises(r)
    BY <2>12 DEF HandlerRaises, Released
  <2>13. CASE Signal(r)
    BY <2>13 DEF Signal, Over, service
  <2>14. CASE Killed(r)
    BY <2>14 DEF Killed, service
  <2> QED
    BY <1>1, <2>1, <2>2, <2>3, <2>4, <2>5, <2>6, <2>7, <2>8, <2>9, <2>10, <2>11, <2>12, <2>13, <2>14 DEF Step
<1>2. ASSUME NEW r \in Runs, ServiceReserves(r) PROVE Noted!(q)'
  BY <1>2, RunsAssumption DEF Noted, TypeOK, ServiceReserves, client
<1>3. ASSUME NEW r \in Runs, Expires(r) PROVE Noted!(q)'
  BY <1>3, RunsAssumption DEF Noted, TypeOK, Expires, client
<1>4. CASE UNCHANGED vars
  BY <1>4 DEF Noted, vars, client, service
<1> QED
  BY <1>1, <1>2, <1>3, <1>4 DEF Next

(* A run that is over and was not told to keep its reservation leaves one  *)
(* behind only without an answer, or with an exception (aes_lock).         *)
THEOREM AESLeftBehind == Spec => []LeftBehindIsReported
<1>1. Init => Noted
  BY RunsAssumption, EnvsAssumption DEF Init, Noted
<1>2. TypeOK /\ Noted => LeftBehindIsReported
  BY RunsAssumption DEF TypeOK, Noted, LeftBehindIsReported
<1> QED
  BY <1>1, <1>2, InitTypeOK, StepTypeOK, StepNoted, PTL DEF Spec
=============================================================================
