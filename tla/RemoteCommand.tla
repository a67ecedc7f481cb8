--------------------------- MODULE RemoteCommand ----------------------------
(***************************************************************************)
(* What run_command() and run_command_ignore_fail() of                     *)
(* common/OpTestCommandExecutor.py promise their callers, whatever happens *)
(* to the connection: a command is run on the host at most once and once   *)
(* per retry, and the one answer a call gets is about runs it had.         *)
(***************************************************************************)
EXTENDS Naturals

CONSTANTS Calls,        \* calls of run_command() or run_command_ignore_fail()
          Retry         \* how often a call may run its command again

VARIABLES runs,         \* how often the host was given the command of a call
          last,         \* how the latest of these runs went
          answer        \* what the call returned, or raised

\* "ok" and "result" are returned, the result of a command that succeeded and
\* of any command; the rest is raised: SSHCommandFailed,
\* SSHSessionDisconnected, SSHConnectionFailed.
Answers == {"ok", "result", "failed", "disconnected", "unreachable"}

Init == /\ runs = [c \in Calls |-> 0]
        /\ last = [c \in Calls |-> "none"]
        /\ answer = [c \in Calls |-> "none"]

Runs(c) == /\ answer[c] = "none" /\ runs[c] <= Retry
           /\ runs' = [runs EXCEPT ![c] = runs[c] + 1]
           /\ last' = [last EXCEPT ![c] = "running"]

\* The host finishes a run whether or not anybody waits for it.
Exits(c) == /\ last[c] = "running"
            /\ \E status \in {"zero", "nonzero"} : last' = [last EXCEPT ![c] = status]
            /\ UNCHANGED <<runs, answer>>

\* A success is of the latest run, which ended with 0; a result is of a command
\* that did run.  A failure may be one of the connection.
Justified(c, a) == /\ a = "ok" => last[c] = "zero"
                   /\ a = "result" => runs[c] > 0

Answered(c) == /\ answer[c] = "none"
               /\ \E a \in Answers : Justified(c, a) /\ answer' = [answer EXCEPT ![c] = a]
               /\ UNCHANGED <<runs, last>>

\* The connection may be lost after the host got the last run of a call.
RunsInVain(c) == /\ Runs(c)
                 /\ \/ UNCHANGED answer
                    \/ \E a \in {"disconnected", "failed"} : answer' = [answer EXCEPT ![c] = a]

Next == \E c \in Calls : RunsInVain(c) \/ Exits(c) \/ Answered(c)

Spec == Init /\ [][Next]_<<runs, last, answer>>

=============================================================================
