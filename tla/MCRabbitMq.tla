----------------------------- MODULE MCRabbitMq -----------------------------
(***************************************************************************)
(* RabbitMq for TLC: two messages of a kind, which meet on one channel, and *)
(* one of another kind, which shares the worker process with them.          *)
(***************************************************************************)
EXTENDS RabbitMq

CONSTANTS c1, c2, j1, j2, e1, e2

MCWorkloads == {{c1, c2, j1}, {j1, j2, e1}, {e1, e2, c1}}
=============================================================================
