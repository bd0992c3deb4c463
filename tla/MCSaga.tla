------------------------------- MODULE MCSaga -------------------------------
(* Saga for TLC. *)
EXTENDS Saga
=============================================================================
