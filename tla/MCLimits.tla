------------------------------ MODULE MCLimits ------------------------------
(* A small instance of Limits: two clients, of which the limiter keeps one. *)
EXTENDS Limits, TLC
=============================================================================
