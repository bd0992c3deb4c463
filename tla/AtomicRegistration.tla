------------------------- MODULE AtomicRegistration -------------------------
(***************************************************************************)
(* What the create-user command promises: a request registers its user      *)
(* whole and in one instant, no two users share an email or a mobile        *)
(* number, and the answer says what happened.  An answer of "failed" says   *)
(* nothing: the instant may have come before the failure.                   *)
(***************************************************************************)
EXTENDS Naturals

CONSTANTS
  Requests,  \* the create-user requests
  Email,     \* Email[r]: email that request r asks for
  Mobile     \* Mobile[r]: mobile number that request r asks for

VARIABLES
  registered,  \* requests whose user exists
  answer       \* answer[r]: what the client of r was told

vars == <<registered, answer>>

\* r asks for an email or a mobile number that a user already has.
Conflicts(r) == \E q \in registered : q # r /\ (Email[q] = Email[r] \/ Mobile[q] = Mobile[r])

Init ==
  /\ registered = {}
  /\ answer = [r \in Requests |-> "none"]

Register(r) ==
  /\ answer[r] = "none"
  /\ r \notin registered
  /\ ~Conflicts(r)
  /\ registered' = registered \cup {r}
  /\ UNCHANGED answer

Tell(r, a) ==
  /\ answer[r] = "none"
  /\ answer' = [answer EXCEPT ![r] = a]
  /\ UNCHANGED registered

Created(r) == r \in registered /\ Tell(r, "created")

Conflict(r) == r \notin registered /\ Conflicts(r) /\ Tell(r, "conflict")

Failed(r) == Tell(r, "failed")

\* The user came to be in the instant the request failed.
RegisterFailed(r) ==
  /\ answer[r] = "none"
  /\ r \notin registered
  /\ ~Conflicts(r)
  /\ registered' = registered \cup {r}
  /\ answer' = [answer EXCEPT ![r] = "failed"]

Next ==
  \E r \in Requests :
    Register(r) \/ Created(r) \/ Conflict(r) \/ Failed(r) \/ RegisterFailed(r)

Spec == Init /\ [][Next]_vars
=============================================================================
