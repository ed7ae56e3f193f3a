------------------------------ MODULE MCRehearsal ------------------------------
(* Rehearsal for TLC: the constants are plain values, given in Rehearsal.cfg. *)
EXTENDS Rehearsal
=============================================================================
