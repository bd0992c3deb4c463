------------------------ MODULE MCWelcomeEmailOutbox ------------------------
(***************************************************************************)
(* WelcomeEmailOutbox for TLC.                                              *)
(***************************************************************************)
EXTENDS WelcomeEmailOutbox, TLC

CONSTANTS t1, t2, r1, r2, r3

\* Ticks differ in nothing, rows only in the order of their creation.
Symmetry == Permutations(Ticks) \cup Permutations(Rows)
=============================================================================
