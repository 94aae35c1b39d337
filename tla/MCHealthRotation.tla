-------------------------- MODULE MCHealthRotation --------------------------
(* A small instance of HealthRotation: one backend whose probes are followed *)
(* and another that keeps the pool from being the first one's alone.         *)
EXTENDS HealthRotation

CONSTANTS a1, a2

MCTunings ==
  <<[threshold |-> 2, recovery |-> 2], [threshold |-> 1, recovery |-> 1]>>

MCOneTuning == <<[threshold |-> 2, recovery |-> 2]>>
=============================================================================
