----------------------------- MODULE MCWakeOnLan -----------------------------
(* A small instance of WakeOnLan for TLC. *)
EXTENDS WakeOnLan
=============================================================================
