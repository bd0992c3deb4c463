---------------------------- MODULE MCCreateUser ----------------------------
(***************************************************************************)
(* CreateUser for TLC: r1 and r2 ask for one email, r2 and r3 for one       *)
(* mobile number, so that r2 may wait for both or be refused for either.    *)
(***************************************************************************)
EXTENDS CreateUser, TLC

CONSTANTS r1, r2, r3, e1, e2, m1, m2

MCEmail == (r1 :> e1) @@ (r2 :> e1) @@ (r3 :> e2)
MCMobile == (r1 :> m1) @@ (r2 :> m2) @@ (r3 :> m2)
=============================================================================
