----------------------------- MODULE SSHCommands ----------------------------
(***************************************************************************)
(* OpTestSSHConnection.execute_command() under the retries of              *)
(* OpTestCommandExecutor: threads that call run_command() or               *)
(* run_command_ignore_fail() on one connection, which may be lost at any   *)
(* time.  The connection's lock is held from the check of the session to   *)
(* the end of the command, but not between the attempts of a call, nor     *)
(* between the disconnect and the connect of the executor's reconnect().   *)
(***************************************************************************)
EXTENDS Naturals

CONSTANTS
    Calls,              \* one call each, of a thread of its own
    Checked,            \* the calls of run_command(); the others ignore failure
    Retry,              \* the retry argument
    Nobody

ASSUME CallsAssumption ==
    Checked \subseteq Calls /\ Nobody \notin Calls
ASSUME RetryAssumption == Retry \in Nat

VARIABLES
    connected, client,  \* of the connection; client: "none", or its transport
    lock,               \* OpTestSSHConnection.lock
    pc,                 \* what each call does
    attempts,           \* its local variable
    runs, last,         \* the host: runs of its command, how the latest went
    answer              \* how it ended

connection == <<connected, client>>
host == <<runs, last>>
vars == <<connection, lock, pc, attempts, host, answer>>

TypeOK ==
    /\ connected \in BOOLEAN /\ client \in {"none", "up", "down"}
    /\ connected => client # "none"
    /\ lock \in Calls \cup {Nobody}
    /\ pc \in [Calls -> {"call", "exec", "wait", "lost", "relink", "done"}]
    /\ attempts \in [Calls -> 0..(Retry + 1)]
    /\ runs \in [Calls -> 0..(Retry + 1)]
    /\ last \in [Calls -> {"none", "running", "zero", "nonzero"}]
    /\ answer \in [Calls -> {"none", "ok", "result", "failed", "disconnected", "unreachable"}]

\* The pool hands out connected connections; they may be dead by now.
Init ==
    /\ connected = TRUE /\ client \in {"up", "down"} /\ lock = Nobody
    /\ pc = [c \in Calls |-> "call"] /\ attempts = [c \in Calls |-> 0]
    /\ runs = [c \in Calls |-> 0] /\ last = [c \in Calls |-> "none"]
    /\ answer = [c \in Calls |-> "none"]

-----------------------------------------------------------------------------
(* The connection.                                                         *)

IsAlive == connected /\ client = "up"

Up == connected' = TRUE /\ client' = "up"
Down == connected' = FALSE /\ client' = "none"

\* disconnect() does nothing to a connection that is marked as not connected.
Disconnects == IF connected THEN Down ELSE UNCHANGED connection

LocksNobodyOut == TRUE
Unlocked == lock = Nobody
TakesLock(c) == Unlocked /\ lock' = c
FreesLock == lock' = Nobody

Goes(c, step) == pc' = [pc EXCEPT ![c] = step] /\ UNCHANGED answer
Ends(c, a) == /\ pc' = [pc EXCEPT ![c] = "done"]
              /\ answer' = [answer EXCEPT ![c] = a]

NotCounted(c) == UNCHANGED attempts
Counted(c) == attempts' = [attempts EXCEPT ![c] = attempts[c] + 1]

\* SSHCommandFailed, caught by run_command() only.
Fails(c) ==
    \/ /\ c \in Checked /\ Counted(c)
       /\ IF attempts[c] < Retry THEN Goes(c, "call") ELSE Ends(c, "failed")
    \/ c \notin Checked /\ UNCHANGED attempts /\ Ends(c, "failed")

\* SSHSessionDisconnected: run_command() counts after it has reconnected.
Disconnected(c) ==
    /\ IF c \in Checked THEN UNCHANGED attempts ELSE Counted(c)
    /\ IF attempts[c] < Retry THEN Goes(c, "lost") ELSE Ends(c, "disconnected")

-----------------------------------------------------------------------------
(* execute_command.                                                        *)

\* It reconnects a dead session, with three tries of its own; a failure of
\* that is nobody's exception to catch, and ends the call.
Enter(c) ==
    /\ pc[c] = "call" /\ UNCHANGED <<attempts, host>>
    /\ \/ IsAlive /\ TakesLock(c) /\ Goes(c, "exec") /\ UNCHANGED connection
       \/ ~IsAlive /\ TakesLock(c) /\ Goes(c, "exec") /\ Up
       \/ ~IsAlive /\ Unlocked /\ UNCHANGED lock /\ Down /\ Ends(c, "unreachable")

HostStarts(c) == /\ runs' = [runs EXCEPT ![c] = runs[c] + 1]
                 /\ last' = [last EXCEPT ![c] = "running"]

\* The host runs the command, or it does not, or nobody learns that it does:
\* then paramiko raises its own exception, or the one that ended its transport.
ExecCommand(c) ==
    /\ pc[c] = "exec"
    /\ \/ /\ client = "up" /\ HostStarts(c)
          /\ Goes(c, "wait") /\ UNCHANGED <<connection, lock, attempts>>
       \/ /\ (client = "up" /\ HostStarts(c)) \/ UNCHANGED host
          /\ FreesLock /\ UNCHANGED client
          /\ \/ connected' = FALSE /\ Disconnected(c)
             \/ UNCHANGED connected /\ Fails(c)

\* The exit status, or -1 when the channel is closed without one.
Status(c, code) == \/ code = last[c] /\ code \in {"zero", "nonzero"}
                   \/ code = "lost" /\ client # "up"

\* run_command() takes only 0 for a success; reading the output may time out.
FailsOnLoss(code) == code = "lost"
FailsOn(code) == code # "zero"

Finish(c) ==
    /\ pc[c] = "wait" /\ FreesLock /\ UNCHANGED <<connection, host>>
    /\ \E code \in {"zero", "nonzero", "lost"} :
        /\ Status(c, code)
        /\ \/ c \in Checked /\ FailsOn(code) /\ Fails(c)
           \/ code # "lost" /\ Fails(c)
           \/ c \in Checked /\ ~FailsOn(code) /\ UNCHANGED attempts /\ Ends(c, "ok")
           \/ c \notin Checked /\ UNCHANGED attempts /\ Ends(c, "result")

-----------------------------------------------------------------------------
(* reconnect, as the executor calls it.                                    *)

Disconnect(c) ==
    /\ pc[c] = "lost" /\ Unlocked
    /\ Disconnects /\ Goes(c, "relink")
    /\ UNCHANGED <<lock, attempts, host>>

\* run_command_ignore_fail() ignores that it did not work.
Connect(c) ==
    /\ pc[c] = "relink" /\ Unlocked /\ UNCHANGED <<lock, host>>
    /\ \/ /\ IF IsAlive THEN UNCHANGED connection ELSE Up
          /\ Goes(c, "call")
          /\ IF c \in Checked THEN Counted(c) ELSE UNCHANGED attempts
       \/ /\ ~IsAlive /\ Down /\ UNCHANGED attempts
          /\ IF c \in Checked THEN Ends(c, "unreachable") ELSE Goes(c, "call")

-----------------------------------------------------------------------------
(* The host and the network.                                               *)

\* A run may never end: it hangs, or its output, which nobody reads before it
\* has ended, has filled the channel's window.
HostEnds(c) ==
    /\ last[c] = "running"
    /\ \E status \in {"zero", "nonzero"} : last' = [last EXCEPT ![c] = status]
    /\ UNCHANGED <<connection, lock, pc, attempts, runs, answer>>

SessionDies ==
    /\ client = "up" /\ client' = "down"
    /\ UNCHANGED <<connected, lock, pc, attempts, host, answer>>

\* Every call has ended: nothing is left to do.
AllDone == (\A c \in Calls : pc[c] = "done") /\ UNCHANGED vars

Call(c) == Enter(c) \/ ExecCommand(c) \/ Finish(c) \/ Disconnect(c) \/ Connect(c)

Next == (\E c \in Calls : Call(c) \/ HostEnds(c)) \/ SessionDies \/ AllDone

\* Threads go on when they can.  Nothing makes the host finish a command, and
\* recv_exit_status() waits for it without a timeout.
Spec == Init /\ [][Next]_vars /\ \A c \in Calls : WF_vars(Call(c))

-----------------------------------------------------------------------------
(* Properties.                                                             *)

\* Retries, reconnects and lost answers together keep the promise: at most
\* Retry + 1 runs, a success only of a run that ended with 0, a result only of
\* a command that ran, and one answer.
Promise ==
    INSTANCE RemoteCommand WITH
        Calls <- Calls, Retry <- Retry,
        runs <- runs, last <- last, answer <- answer
KeepsPromise == Promise!Spec

\* The reconnect of one call never closes the session under the command of
\* another: only the network does that.
NobodyCutsOff ==
    [][client # "none" /\ client' = "none" => \A c \in Calls : pc[c] # "wait"]_vars

\* However often the session is lost, a call ends, unless one of the calls
\* waits for ever for a command that hangs on a session that stays up, with the
\* lock the others need.
Hangs(c) == /\ pc[c] = "wait" /\ lock = c
            /\ last[c] = "running" /\ IsAlive
CallsEnd == (\E c \in Calls : <>[]Hangs(c)) \/ \A c \in Calls : <>(pc[c] = "done")

=============================================================================
