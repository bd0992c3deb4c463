----------------------------- MODULE WelcomeMail -----------------------------
(***************************************************************************)
(* What the outbox of welcome emails promises as long as its ticks do not   *)
(* overlap: the email of a user is sent only while its row is being worked  *)
(* on, a row is settled only by a recorded email or by going back to wait,  *)
(* and what is recorded was sent and is never taken up again.               *)
(***************************************************************************)
EXTENDS Naturals

CONSTANTS
  Rows,     \* outbox rows, one per user
  MaxSends  \* emails to a user are counted up to this number

VARIABLES
  status,  \* status[r]: where row r is
  sent     \* sent[r]: emails sent to the user of r, up to MaxSends

vars == <<status, sent>>

Init ==
  /\ status = [r \in Rows |-> "none"]
  /\ sent = [r \in Rows |-> 0]

Create(r) ==
  /\ status[r] = "none"
  /\ status' = [status EXCEPT ![r] = "waiting"]
  /\ UNCHANGED sent

\* Rows that wait are taken up together.
TakeUp(S) ==
  /\ \A r \in S : status[r] = "waiting"
  /\ status' = [r \in Rows |-> IF r \in S THEN "working" ELSE status[r]]
  /\ UNCHANGED sent

Mail(r) ==
  /\ status[r] = "working"
  /\ sent' = [sent EXCEPT ![r] = IF @ < MaxSends THEN @ + 1 ELSE @]
  /\ UNCHANGED status

\* The rows of D are recorded and those of B go back to wait, in one instant.
Settle(D, B) ==
  /\ \A r \in D \cup B : status[r] = "working"
  /\ \A r \in D : sent[r] > 0
  /\ status' = [r \in Rows |-> IF r \in D THEN "recorded"
                               ELSE IF r \in B THEN "waiting" ELSE status[r]]
  /\ UNCHANGED sent

Next ==
  \/ \E r \in Rows : Create(r) \/ Mail(r)
  \/ \E S \in SUBSET Rows : TakeUp(S)
  \/ \E D, B \in SUBSET Rows : Settle(D, B)

Spec == Init /\ [][Next]_vars
=============================================================================
