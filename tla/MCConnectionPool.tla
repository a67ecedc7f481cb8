-------------------------- MODULE MCConnectionPool --------------------------
(***************************************************************************)
(* Values for the constants of ConnectionPool: two users, each with a key  *)
(* of its own or both with the same one, and two health monitor threads.   *)
(***************************************************************************)
EXTENDS ConnectionPool, TLC

CONSTANTS u1, u2, m1, m2, k1, k2, c1, c2, c3

TwoUsers == {u1, u2}
OneMonitorThread == {m1}
TwoMonitors == {m1, m2}
TwoKeys == {k1, k2}
OneKey == {k1}
TwoConns == {c1, c2}
ThreeConns == {c1, c2, c3}

OwnKey == u1 :> {k1} @@ u2 :> {k2}
SameKey == [u \in TwoUsers |-> {k1}]

\* Connection objects are interchangeable: nothing compares them.
ConnSymmetry == Permutations(Conns)
=============================================================================
