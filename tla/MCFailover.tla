----------------------------- MODULE MCFailover -----------------------------
(* A small instance of Failover: two backends, one of which weighs twice the *)
(* other, and two requests, one of them with a body.                         *)
EXTENDS Failover, TLC

CONSTANTS a1, a2, a3, r1, r2

MCBodyOf == r1 :> "small" @@ r2 :> "large"
MCHashOf == r1 :> 1 @@ r2 :> 2
MCOrder == <<a1, a2>>
MCWeightOf == a1 :> 2 @@ a2 :> 0 @@ a3 :> 1
=============================================================================
