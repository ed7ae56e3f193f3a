---------------------------- MODULE MCSlotCleanup ----------------------------
(* SlotCleanup for TLC: every constant is a switch or a bound, given by the *)
(* configurations.                                                          *)
EXTENDS SlotCleanup
=============================================================================
