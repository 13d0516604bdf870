-------------------------- MODULE MCFleetScheduler --------------------------
(* Values of the constants of FleetScheduler for TLC. *)
EXTENDS FleetScheduler

CONSTANTS a1, s1, s2, auto, other
=============================================================================
