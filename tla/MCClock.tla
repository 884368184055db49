------------------------------- MODULE MCClock -------------------------------
(* Clock with times of a few ticks.                                          *)
EXTENDS Clock
=============================================================================
