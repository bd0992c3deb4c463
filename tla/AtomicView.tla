----------------------------- MODULE AtomicView -----------------------------
(***************************************************************************)
(* What the read side promises, whatever Redis does: an answered read is   *)
(* one atomic read of the committed user row, taken at some instant between *)
(* the invocation and the answer.  A read may also fail, but it never      *)
(* answers with a view that was not the committed one during the request.  *)
(***************************************************************************)
EXTENDS Naturals

CONSTANTS
  Users,      \* users the system knows of
  NoUser,     \* the user of a call slot that is free
  Calls,      \* slots for concurrent reads
  MaxVersion  \* bound on the row version of a user

VARIABLES
  version,    \* version[u]: version column of the committed users row, 0 if none
  read        \* read[c]: what is known of the read in slot c

vars == <<version, read>>

Free == [phase |-> "free", user |-> NoUser, view |-> 0]

Init ==
  /\ version = [u \in Users |-> 0]
  /\ read = [c \in Calls |-> Free]

\* A write transaction that touches the view of u commits.
Commit(u) ==
  /\ version[u] < MaxVersion
  /\ version' = [version EXCEPT ![u] = @ + 1]
  /\ UNCHANGED read

Invoke(c, u) ==
  /\ read[c].phase = "free"
  /\ read' = [read EXCEPT ![c] = [phase |-> "invoked", user |-> u, view |-> 0]]
  /\ UNCHANGED version

\* The instant at which the answered view is the committed one.
TakeEffect(c) ==
  /\ read[c].phase = "invoked"
  /\ version[read[c].user] > 0
  /\ read' = [read EXCEPT ![c] =
       [phase |-> "effective", user |-> @.user, view |-> version[@.user]]]
  /\ UNCHANGED version

Fail(c) ==
  /\ read[c].phase \in {"invoked", "effective"}
  /\ read' = [read EXCEPT ![c] = [phase |-> "failed", user |-> @.user, view |-> 0]]
  /\ UNCHANGED version

\* The answer leaves, or the process that computed it is gone.
Return(c) ==
  /\ read[c].phase # "free"
  /\ read' = [read EXCEPT ![c] = Free]
  /\ UNCHANGED version

Next ==
  \/ \E u \in Users : Commit(u)
  \/ \E c \in Calls :
       \/ \E u \in Users : Invoke(c, u)
       \/ TakeEffect(c)
       \/ Fail(c)
       \/ Return(c)

Spec == Init /\ [][Next]_vars
=============================================================================
