---------------------------- MODULE MCRouteTable ----------------------------
(* A small instance of RouteTable: two replicas of one service and one       *)
(* container of another, on two addresses.                                   *)
EXTENDS RouteTable, TLC

CONSTANTS c1, c2, c3, k1, k2, a1, a2

MCRouteOf == c1 :> k1 @@ c2 :> k1 @@ c3 :> k2

\* c1 may change its address, to the one c2 declares too; c3 shares an address
\* with c1 on another route.
MCMayUse == c1 :> {a1, a2} @@ c2 :> {a2} @@ c3 :> {a1}

MCSymmetry == Permutations(Requests)
=============================================================================
