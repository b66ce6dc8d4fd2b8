---------------------------- MODULE MCRouteIdentity ----------------------------
(* A small instance of RouteIdentity for TLC: two checkouts, one of the         *)
(* customers at two origins, and a queue of an earlier version.                 *)
EXTENDS RouteIdentity, TLC

CONSTANTS a, b, o1, o2, k1, k2, orgA, orgB, old, r1, r2

TwoCheckouts == {a, b}
TwoOrigins   == {o1, o2}
TwoKeys      == {k1, k2}
TwoOrgs      == {orgA, orgB}
Owners       == (k1 :> orgA) @@ (k2 :> orgB)
OneOld       == {old}
TwoRecords   == {r1, r2}
OneRecord    == {r1}
D(o, k, g)   == [origin |-> o, key |-> k, org |-> g]
Contents     == {D(o1, k1, orgA), D(o1, k2, NoOrg), D(o2, k1, NoOrg)}
Pasted       == {D(o1, k1, NoOrg), D(o1, k1, orgB)}
OldRoutes    == [q \in {old} |-> [origin |-> o1, key |-> NoKey, org |-> orgA, path |-> a]]
Alike        == Permutations(TwoRecords)
=============================================================================
