------------------------------- MODULE MCAES -------------------------------
(* Instances of AES: runs, environments, users and search arguments. *)
EXTENDS AES

CONSTANTS r1, r2, e1, e2

TwoRuns == {r1, r2}
TwoEnvs == {e1, e2}
OwnUser == [r \in Runs |-> r]

\* one run looks for one environment, the other for any
OneOrAny == [r \in Runs |-> IF r = r1 THEN {e1} ELSE {e1, e2}]

\* at most one environment is reserved by the user of a run that looks for it
OneOrNone ==
    {[e \in Envs |-> IF e = f THEN r ELSE NoRun] : f \in {e1}, r \in {r1, r2, NoRun}}

First == {r1}
Second == {r2}
Nobody == {}
=============================================================================
