---------------------------- MODULE MCDiscovery ----------------------------
(* A small instance of Discovery: two replicas of one service.  The first    *)
(* leaves its port to be found out and publishes one, the second declares an *)
(* address, one that the first may be given too.                             *)
EXTENDS Discovery, TLC

CONSTANTS c1, c2, k1, i1

MCRouteOf == c1 :> k1 @@ c2 :> k1

MCLabels ==
  c1 :> [enabled |-> TRUE, valid |-> TRUE, port |-> 0, address |-> None]
    @@ c2 :> [enabled |-> TRUE, valid |-> TRUE, port |-> 0,
              address |-> [ip |-> i1, port |-> DefaultPort]]

MCPublished == c1 :> 8080 @@ c2 :> 0
=============================================================================
