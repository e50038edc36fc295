-------------------------- MODULE PostgresAuditMC ---------------------------
(***************************************************************************)
(* Instances of PostgresAudit for model checking: how tasks are spread     *)
(* over connections.                                                       *)
(***************************************************************************)
EXTENDS PostgresLog, TLC

CONSTANTS t1, t2, t3, t4, c1, c2, c3

OwnConnections3 == (t1 :> c1) @@ (t2 :> c2) @@ (t3 :> c3)

OneConnection3 == (t1 :> c1) @@ (t2 :> c1) @@ (t3 :> c1)

TwoConnections3 == (t1 :> c1) @@ (t2 :> c1) @@ (t3 :> c2)

TwoConnections4 == OneConnection3 @@ (t4 :> c2)

(* Tasks that share a connection, and details, are interchangeable.        *)
SharedSymmetry == Permutations({t1, t2, t3}) \cup Permutations(Details)
=============================================================================
