------------------------- MODULE MCDropletLifecycle -------------------------
(* DropletLifecycle for TLC; the constants are numbers. *)
EXTENDS DropletLifecycle
=============================================================================
