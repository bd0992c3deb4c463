----------------------------- MODULE MCApiServer -----------------------------
(* ApiServer for TLC. *)
EXTENDS ApiServer

CONSTANTS r1, r2, SIGINT, SIGTERM
=============================================================================
