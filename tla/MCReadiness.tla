---------------------------- MODULE MCReadiness ----------------------------
(* A small instance of Readiness for TLC: two messages in one batch. *)
EXTENDS Readiness
=============================================================================
