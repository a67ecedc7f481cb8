------------------------- MODULE SSHCommands_proofs -------------------------
(***************************************************************************)
(* Proofs about SSHCommands: run_command() and its variant keep the        *)
(* promise of RemoteCommand, for any number of threads, any number of      *)
(* retries and any loss of the connection, and no reconnect cuts off a     *)
(* command of another thread.                                              *)
(***************************************************************************)
EXTENDS SSHCommands, TLAPS

\* An attempt is counted after the run it is for: when the command fails, or,
\* in run_command(), only when the lost session is up again.
Uncounted(c) == pc[c] = "wait" \/ (pc[c] \in {"lost", "relink"} /\ c \in Checked)

Budget(c) ==
    /\ pc[c] # "done" => answer[c] = "none" /\ attempts[c] <= Retry
    /\ pc[c] # "done" /\ ~Uncounted(c) => runs[c] <= attempts[c]
    /\ runs[c] <= attempts[c] + 1 /\ runs[c] <= Retry + 1
    /\ pc[c] \in {"lost", "relink"} /\ c \in Checked => attempts[c] < Retry
    /\ pc[c] = "wait" => runs[c] > 0

\* A call is between its check of the session and its result only with the lock.
InLock(c) == pc[c] \in {"exec", "wait"} <=> lock = c

Inv == TypeOK /\ \A c \in Calls : Budget(c) /\ InLock(c)

ConnectionType ==
    /\ connected \in BOOLEAN /\ client \in {"none", "up", "down"}
    /\ connected => client # "none"

LEMMA InitInv == Init => Inv
BY CallsAssumption, RetryAssumption DEF Init, Inv, TypeOK, Budget, InLock, Uncounted

\* The invariant of a call that no step of another can disturb.
LEMMA Others ==
    ASSUME Inv, NEW c \in Calls, NEW d \in Calls, d # c,
           pc'[d] = pc[d], attempts'[d] = attempts[d], runs'[d] = runs[d],
           answer'[d] = answer[d], lock = d <=> lock' = d
    PROVE  Budget(d)' /\ InLock(d)'
BY DEF Inv, Budget, InLock, Uncounted

LEMMA EnterInv == ASSUME Inv, NEW c \in Calls, Enter(c) PROVE Inv'
<1> USE CallsAssumption, RetryAssumption
<1>1. TypeOK'
  <2>1. ConnectionType'
    <3>1. UNCHANGED connection \/ Up \/ Down
      BY DEF Enter
    <3>2. ConnectionType /\ (UNCHANGED connection => ConnectionType')
      BY DEF Inv, TypeOK, ConnectionType, connection
    <3>3. Up \/ Down => ConnectionType'
      BY Zenon DEF ConnectionType, Up, Down
    <3> QED BY <3>1, <3>2, <3>3
  <2>2. UNCHANGED <<attempts, runs, last>> /\ lock' \in {lock, c}
    BY DEF Enter, TakesLock, host
  <2>3. /\ pc' \in {[pc EXCEPT ![c] = "exec"], [pc EXCEPT ![c] = "done"]}
        /\ answer' \in {answer, [answer EXCEPT ![c] = "unreachable"]}
    BY DEF Enter, Goes, Ends
  <2> QED BY <2>1, <2>2, <2>3 DEF Inv, TypeOK, ConnectionType
<1>2. Budget(c)' /\ InLock(c)'
  BY DEF Inv, TypeOK, Budget, InLock, Uncounted, Enter, TakesLock, Unlocked, Goes, Ends, host
<1>3. ASSUME NEW d \in Calls, d # c PROVE Budget(d)' /\ InLock(d)'
  <2>1. /\ pc'[d] = pc[d] /\ attempts'[d] = attempts[d] /\ runs'[d] = runs[d]
        /\ answer'[d] = answer[d]
    BY <1>3 DEF Inv, TypeOK, Enter, Goes, Ends, host
  <2>2. lock = d <=> lock' = d
    BY <1>3 DEF Enter, TakesLock, Unlocked
  <2> QED BY <1>3, <2>1, <2>2, Others
<1> QED BY <1>1, <1>2, <1>3 DEF Inv

LEMMA ExecCommandInv == ASSUME Inv, NEW c \in Calls, ExecCommand(c) PROVE Inv'
<1> USE CallsAssumption, RetryAssumption
<1>0. pc[c] = "exec" /\ lock = c /\ runs[c] <= attempts[c] /\ attempts[c] <= Retry
  BY DEF Inv, Budget, InLock, Uncounted, ExecCommand
<1>1. TypeOK'
  <2>1. ConnectionType'
    <3>1. client' = client /\ (connected' = connected \/ connected' = FALSE)
      BY DEF ExecCommand, connection
    <3>2. ConnectionType
      BY DEF Inv, TypeOK, ConnectionType
    <3>3. CASE connected' = connected
      BY <3>1, <3>2, <3>3 DEF ConnectionType
    <3>4. CASE connected' = FALSE
      BY <3>1, <3>2, <3>4, Zenon DEF ConnectionType
    <3> QED BY <3>1, <3>3, <3>4
  <2>2. /\ runs' \in {runs, [runs EXCEPT ![c] = runs[c] + 1]}
        /\ last' \in {last, [last EXCEPT ![c] = "running"]}
        /\ attempts' \in {attempts, [attempts EXCEPT ![c] = attempts[c] + 1]}
        /\ lock' \in {lock, Nobody}
    BY DEF ExecCommand, HostStarts, Disconnected, Fails, Counted, FreesLock, host
  <2>3. /\ \/ pc' = [pc EXCEPT ![c] = "wait"]
           \/ pc' \in {[pc EXCEPT ![c] = "lost"], [pc EXCEPT ![c] = "done"]}
           \/ pc' = [pc EXCEPT ![c] = "call"]
        /\ \/ answer' = answer
           \/ answer' \in {[answer EXCEPT ![c] = "disconnected"], [answer EXCEPT ![c] = "failed"]}
    BY DEF ExecCommand, Disconnected, Fails, Goes, Ends
  <2> QED BY <1>0, <2>1, <2>2, <2>3 DEF Inv, TypeOK, ConnectionType
<1>2. Budget(c)' /\ InLock(c)'
  BY <1>0 DEF Inv, TypeOK, Budget, InLock, Uncounted, ExecCommand, HostStarts,
              Disconnected, Fails, Counted, FreesLock, Goes, Ends, host
<1>3. ASSUME NEW d \in Calls, d # c PROVE Budget(d)' /\ InLock(d)'
  <2>1. /\ pc'[d] = pc[d] /\ attempts'[d] = attempts[d] /\ runs'[d] = runs[d]
        /\ answer'[d] = answer[d]
    BY <1>3 DEF Inv, TypeOK, ExecCommand, HostStarts, Disconnected, Fails, Counted, Goes, Ends, host
  <2>2. lock = d <=> lock' = d
    BY <1>0, <1>3 DEF ExecCommand, FreesLock
  <2> QED BY <1>3, <2>1, <2>2, Others
<1> QED BY <1>1, <1>2, <1>3 DEF Inv

LEMMA FinishInv == ASSUME Inv, NEW c \in Calls, Finish(c) PROVE Inv'
<1> USE CallsAssumption, RetryAssumption
<1>0. pc[c] = "wait" /\ lock = c /\ runs[c] <= attempts[c] + 1 /\ attempts[c] <= Retry
  BY DEF Inv, Budget, InLock, Finish
<1>1. TypeOK'
  BY <1>0 DEF Inv, TypeOK, Finish, Fails, Counted, FreesLock, Goes, Ends, connection, host
<1>2. Budget(c)' /\ InLock(c)'
  BY <1>0 DEF Inv, TypeOK, Budget, InLock, Uncounted, Finish, Fails, Counted, FreesLock,
              Goes, Ends, host
<1>3. ASSUME NEW d \in Calls, d # c PROVE Budget(d)' /\ InLock(d)'
  <2>1. /\ pc'[d] = pc[d] /\ attempts'[d] = attempts[d] /\ runs'[d] = runs[d]
        /\ answer'[d] = answer[d]
    BY <1>3 DEF Inv, TypeOK, Finish, Fails, Counted, Goes, Ends, host
  <2>2. lock = d <=> lock' = d
    BY <1>0, <1>3 DEF Finish, FreesLock
  <2> QED BY <1>3, <2>1, <2>2, Others
<1> QED BY <1>1, <1>2, <1>3 DEF Inv

LEMMA ReconnectInv ==
    ASSUME Inv, NEW c \in Calls, Disconnect(c) \/ Connect(c) PROVE Inv'
<1> USE CallsAssumption, RetryAssumption
<1>0. pc[c] \in {"lost", "relink"} /\ lock = Nobody /\ lock' = lock
  BY DEF Disconnect, Connect, Unlocked
<1>1. TypeOK'
  <2>1. ConnectionType'
    BY Zenon DEF Inv, TypeOK, ConnectionType, Disconnect, Connect, Disconnects, Up, Down,
                 connection
  <2>2. /\ UNCHANGED <<runs, last>>
        /\ attempts' \in {attempts, [attempts EXCEPT ![c] = attempts[c] + 1]}
    BY DEF Disconnect, Connect, Counted, host
  <2>3. /\ \/ pc' = [pc EXCEPT ![c] = "relink"]
           \/ pc' \in {[pc EXCEPT ![c] = "call"], [pc EXCEPT ![c] = "done"]}
        /\ answer' \in {answer, [answer EXCEPT ![c] = "unreachable"]}
    BY DEF Disconnect, Connect, Goes, Ends
  <2>4. attempts[c] <= Retry
    BY <1>0 DEF Inv, Budget
  <2> QED BY <1>0, <2>1, <2>2, <2>3, <2>4 DEF Inv, TypeOK, ConnectionType
<1>2. Budget(c)' /\ InLock(c)'
  BY <1>0 DEF Inv, TypeOK, Budget, InLock, Uncounted, Disconnect, Connect, Counted,
              Goes, Ends, host
<1>3. ASSUME NEW d \in Calls, d # c PROVE Budget(d)' /\ InLock(d)'
  <2>1. /\ pc'[d] = pc[d] /\ attempts'[d] = attempts[d] /\ runs'[d] = runs[d]
        /\ answer'[d] = answer[d]
    BY <1>3 DEF Inv, TypeOK, Disconnect, Connect, Counted, Goes, Ends, host
  <2> QED BY <1>0, <1>3, <2>1, Others
<1> QED BY <1>1, <1>2, <1>3 DEF Inv

LEMMA EnvironmentInv ==
    ASSUME Inv, (\E c \in Calls : HostEnds(c)) \/ SessionDies \/ UNCHANGED vars PROVE Inv'
<1>1. /\ pc' = pc /\ attempts' = attempts /\ runs' = runs /\ answer' = answer /\ lock' = lock
  BY DEF HostEnds, SessionDies, vars, host
<1>2. TypeOK'
  BY DEF Inv, TypeOK, HostEnds, SessionDies, vars, connection, host
<1> QED BY <1>1, <1>2 DEF Inv, Budget, InLock, Uncounted

LEMMA StepInv == Inv /\ [Next]_vars => Inv'
BY EnterInv, ExecCommandInv, FinishInv, ReconnectInv, EnvironmentInv
   DEF Next, Call, AllDone

LEMMA Invariance == Spec => []Inv
BY InitInv, StepInv, PTL DEF Spec

-----------------------------------------------------------------------------

\* Every reachable state is of its type: in particular no call, whichever way
\* its session is lost, runs its command more than Retry + 1 times.
THEOREM TypeCorrect == Spec => []TypeOK
<1>1. Inv => TypeOK
  BY DEF Inv
<1> QED BY <1>1, Invariance, PTL

-----------------------------------------------------------------------------

\* Each step is a step of the promise, or none of its concern.
LEMMA Refinement ==
    Inv /\ [Next]_vars => [Promise!Next]_<<runs, last, answer>>
<1> SUFFICES ASSUME Inv, [Next]_vars
             PROVE  Promise!Next \/ UNCHANGED <<runs, last, answer>>
  OBVIOUS
<1> USE RetryAssumption
<1>1. ASSUME NEW c \in Calls, Enter(c) PROVE Promise!Answered(c) \/ UNCHANGED <<runs, last, answer>>
  BY <1>1 DEF Inv, Budget, Enter, TakesLock, Unlocked, Goes, Ends, host,
              Promise!Answered, Promise!Answers, Promise!Justified
<1>2. ASSUME NEW c \in Calls, ExecCommand(c)
      PROVE  Promise!RunsInVain(c) \/ Promise!Answered(c) \/ UNCHANGED <<runs, last, answer>>
  <2>1. pc[c] = "exec" /\ answer[c] = "none" /\ runs[c] <= Retry
    BY <1>2 DEF Inv, TypeOK, Budget, Uncounted, ExecCommand
  <2>2. CASE HostStarts(c)
    BY <1>2, <2>1, <2>2 DEF ExecCommand, HostStarts, Disconnected, Fails, Goes, Ends,
                            Promise!RunsInVain, Promise!Runs
  <2>3. CASE UNCHANGED host
    BY <1>2, <2>1, <2>3, Zenon DEF ExecCommand, HostStarts, Disconnected, Fails, Goes, Ends, host,
              Promise!Answered, Promise!Answers, Promise!Justified
  <2> QED BY <1>2, <2>2, <2>3 DEF ExecCommand
<1>3. ASSUME NEW c \in Calls, Finish(c) PROVE Promise!Answered(c) \/ UNCHANGED <<runs, last, answer>>
  <2>1. pc[c] = "wait" /\ answer[c] = "none" /\ runs[c] > 0
    BY <1>3 DEF Inv, Budget, Finish
  <2> QED BY <1>3, <2>1 DEF Finish, Fails, FailsOn, Status, Goes, Ends, host,
              Promise!Answered, Promise!Answers, Promise!Justified
<1>4. ASSUME NEW c \in Calls, Disconnect(c) \/ Connect(c)
      PROVE  Promise!Answered(c) \/ UNCHANGED <<runs, last, answer>>
  BY <1>4 DEF Inv, Budget, Disconnect, Connect, Goes, Ends, host,
              Promise!Answered, Promise!Answers, Promise!Justified
<1>5. ASSUME NEW c \in Calls, HostEnds(c) PROVE Promise!Exits(c)
  BY <1>5 DEF HostEnds, Promise!Exits
<1>6. ASSUME SessionDies \/ UNCHANGED vars PROVE UNCHANGED <<runs, last, answer>>
  BY <1>6 DEF SessionDies, vars, host
<1> QED BY <1>1, <1>2, <1>3, <1>4, <1>5, <1>6 DEF Next, Call, AllDone, Promise!Next

\* run_command() and run_command_ignore_fail() keep the promise of
\* RemoteCommand, however their calls interleave and the sessions fail.
THEOREM PromiseKept == Spec => KeepsPromise
<1>1. Init => Promise!Init
  BY DEF Init, Promise!Init
<1> QED BY <1>1, Refinement, Invariance, PTL DEF Spec, KeepsPromise, Promise!Spec

\* reconnect() and connect() never take the session from under a command.
THEOREM NobodyIsCutOff == Spec => NobodyCutsOff
<1>1. Inv /\ [Next]_vars =>
        [client # "none" /\ client' = "none" => \A c \in Calls : pc[c] # "wait"]_vars
  <2> SUFFICES ASSUME Inv, Next, client # "none", client' = "none", NEW c \in Calls
               PROVE  pc[c] # "wait"
    BY DEF vars
  <2>1. lock = Nobody
    BY DEF Next, Call, Enter, ExecCommand, Finish, Disconnect, Connect, HostEnds, SessionDies,
           AllDone, TakesLock, Unlocked, Up, connection, vars
  <2> QED BY <2>1, CallsAssumption DEF Inv, InLock
<1> QED BY <1>1, Invariance, PTL DEF Spec, NobodyCutsOff

=============================================================================
