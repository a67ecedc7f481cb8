---------------------------- MODULE MCHostLocker ----------------------------
(* Instances of HostLocker: the runs, their users and the codes. *)
EXTENDS HostLocker

CONSTANTS r1, r2

TwoRuns == {r1, r2}

\* a user for each run
OwnUser == [r \in Runs |-> r]

OneKeeps == {r2}
AllCodes == {"ok", "conflict", "other"}
=============================================================================
