------------------------------ MODULE MCLatch ------------------------------
(* An instance of Latch for TLC: readings on both sides of every boundary. *)
EXTENDS Latch

MCValue == -3..3
MCBand == -1..2
=============================================================================
