---------------------------- MODULE Reservation ----------------------------
(***************************************************************************)
(* What a reservation of a test machine promises, whatever service keeps   *)
(* it (HostLocker, the Automated Environment Sharing): a run of op-test    *)
(* tests a machine only while the machine is reserved for it, and nobody   *)
(* but the run itself, or the end of the reservation's time, takes the     *)
(* reservation away.                                                       *)
(***************************************************************************)
CONSTANTS
    Runs,       \* the runs of op-test, op-test processes
    NoRun       \* nobody holds the machine

VARIABLES
    holder,     \* the run the service has the machine reserved for
    testing,    \* the runs that use the machine
    lapsed      \* the runs whose reservation ran out

vars == <<holder, testing, lapsed>>

TypeOK ==
    /\ holder \in Runs \cup {NoRun}
    /\ testing \subseteq Runs
    /\ lapsed \subseteq Runs

\* A user may have reserved the machine before its run begins.
Init ==
    /\ holder \in Runs \cup {NoRun}
    /\ testing = {}
    /\ lapsed = {}

Grant(r) ==
    /\ holder = NoRun
    /\ holder' = r
    /\ UNCHANGED <<testing, lapsed>>

\* The grant reaches the run, perhaps after the reservation's time is over.
Begin(r) ==
    /\ holder = r \/ r \in lapsed
    /\ testing' = testing \cup {r}
    /\ UNCHANGED <<holder, lapsed>>

End(r) ==
    /\ r \in testing
    /\ testing' = testing \ {r}
    /\ UNCHANGED <<holder, lapsed>>

GiveBack(r) ==
    /\ holder = r
    /\ r \notin testing
    /\ holder' = NoRun
    /\ UNCHANGED <<testing, lapsed>>

Lapse(r) ==
    /\ holder = r
    /\ holder' = NoRun
    /\ lapsed' = lapsed \cup {r}
    /\ UNCHANGED testing

Next ==
    \E r \in Runs : Grant(r) \/ Begin(r) \/ End(r) \/ GiveBack(r) \/ Lapse(r)

Spec == Init /\ [][Next]_vars

(* No two runs use the machine at once, but for runs whose time is over:   *)
(* what check_lockers() is for.                                            *)
Exclusive == \A r, s \in testing \ lapsed : r = s
=============================================================================
