----------------------------- MODULE CreateUser -----------------------------
(***************************************************************************)
(* The create-user command: one transaction inserts the rows of five tables *)
(* and the outbox row of the welcome email, one statement after the other,  *)
(* while other API processes do the same with overlapping contact data.     *)
(* Once it has committed, the answer leaves and a fire-and-forget task      *)
(* publishes the refresh of the user's view, each whenever it gets to it.   *)
(***************************************************************************)
EXTENDS Naturals, FiniteSets

CONSTANTS
  Requests,  \* the create-user requests
  Email,     \* Email[r]: email that request r asks for
  Mobile,    \* Mobile[r]: mobile number that request r asks for
  MaxFaults  \* bound on faults of processes, queue and database

ASSUME BoundsAssumption == MaxFaults \in Nat

VARIABLES
  pc,       \* pc[r]: the table request r inserts into next, or its phase
  written,  \* written[r]: tables with an uncommitted row of request r
  stored,   \* stored[r]: tables with a committed row of request r
  answer,   \* answer[r]: what the client of r was told
  event,    \* event[r]: the refresh event of r
  faults    \* faults so far

vars == <<pc, written, stored, answer, event, faults>>

-----------------------------------------------------------------------------
Tables == {"users", "communications", "credentials", "keys", "settings", "outbox"}

\* Seeded bug, for TypeOK: a step that no branch of the command knows.
AfterMisnamed == [users |-> "communications", communications |-> "credentials",
                  credentials |-> "key", keys |-> "settings", settings |-> "outbox",
                  outbox |-> "respond"]

\* Where a request goes after the insert into a table.
After == [users |-> "communications", communications |-> "credentials",
          credentials |-> "keys", keys |-> "settings", settings |-> "outbox",
          outbox |-> "respond"]

Phases == Tables \cup {"idle", "prepare", "respond", "commit", "answer", "done"}

Answers == {"none", "created", "conflict", "failed"}

Events == {"none", "due", "published"}

\* Seeded bug, for UniqueContact: the mobile number has no unique constraint.
ClashByEmail(table, q, r) ==
  table \in {"communications", "credentials"} /\ Email[q] = Email[r]

\* The unique columns that a row of q and a row of r would share.
Clash(table, q, r) ==
  CASE table = "communications" -> Email[q] = Email[r] \/ Mobile[q] = Mobile[r]
    [] table = "credentials" -> Email[q] = Email[r]
    [] OTHER -> FALSE

\* The insert of r finds a committed row in its way, or waits for one that an
\* open transaction has written.
Duplicate(r) == \E q \in Requests \ {r} : pc[r] \in stored[q] /\ Clash(pc[r], q, r)
Blocked(r) == \E q \in Requests \ {r} : pc[r] \in written[q] /\ Clash(pc[r], q, r)

Fault ==
  /\ faults < MaxFaults
  /\ faults' = faults + 1

\* Seeded bug, for AllAnswered: the error is answered without a rollback.
RollBackForgotten(r, told) ==
  /\ pc' = [pc EXCEPT ![r] = "done"]
  /\ answer' = [answer EXCEPT ![r] = told]
  /\ UNCHANGED <<written, stored, event>>

\* A step throws: the transaction is rolled back and the client is told.
RollBack(r, told) ==
  /\ pc' = [pc EXCEPT ![r] = "done"]
  /\ written' = [written EXCEPT ![r] = {}]
  /\ answer' = [answer EXCEPT ![r] = told]
  /\ UNCHANGED <<stored, event>>

Init ==
  /\ pc = [r \in Requests |-> "idle"]
  /\ written = [r \in Requests |-> {}]
  /\ stored = [r \in Requests |-> {}]
  /\ answer = [r \in Requests |-> "none"]
  /\ event = [r \in Requests |-> "none"]
  /\ faults = 0

-----------------------------------------------------------------------------
(***************************************************************************)
(* Seeded bugs: the checks replace an operator below by one of these, and  *)
(* the property named in the comment must then fail.                       *)
(***************************************************************************)
\* AllOrNothing: the error of a step is logged and not thrown.
StepFailsSwallowed(r) ==
  /\ pc[r] \in Tables
  /\ Fault
  /\ pc' = [pc EXCEPT ![r] = After[@]]
  /\ UNCHANGED <<written, stored, answer, event>>

\* RegistersAtomically: the answer leaves before the commit.
RespondEarly(r) ==
  /\ pc[r] = "respond"
  /\ pc' = [pc EXCEPT ![r] = "commit"]
  /\ answer' = [answer EXCEPT ![r] = "created"]
  /\ UNCHANGED <<written, stored, event, faults>>

\* EventsFollowCommit: the event is published from within the transaction.
RespondPublishes(r) ==
  /\ pc[r] = "respond"
  /\ pc' = [pc EXCEPT ![r] = "commit"]
  /\ event' = [event EXCEPT ![r] = "due"]
  /\ UNCHANGED <<written, stored, answer, faults>>

-----------------------------------------------------------------------------
\* handle: a connection, and the transaction that all steps run in.
Handle(r) ==
  /\ pc[r] = "idle"
  /\ pc' = [pc EXCEPT ![r] = "prepare"]
  /\ UNCHANGED <<written, stored, answer, event, faults>>

\* Decrypt, validate, hash, generate keys and map the entities.
Prepare(r) ==
  /\ pc[r] = "prepare"
  /\ pc' = [pc EXCEPT ![r] = "users"]
  /\ UNCHANGED <<written, stored, answer, event, faults>>

\* One of these steps refuses the request.
Invalid(r) ==
  /\ pc[r] = "prepare"
  /\ RollBack(r, "failed")
  /\ UNCHANGED faults

\* The next of the five inserts of the Db step, or the insert of the outbox row.
Insert(r) ==
  /\ pc[r] \in Tables
  /\ ~Duplicate(r) /\ ~Blocked(r)
  /\ written' = [written EXCEPT ![r] = @ \cup {pc[r]}]
  /\ pc' = [pc EXCEPT ![r] = After[@]]
  /\ UNCHANGED <<stored, answer, event, faults>>

\* The insert violates a unique constraint, which the Db step answers with CONFLICT.
Conflict(r) ==
  /\ pc[r] \in Tables
  /\ Duplicate(r)
  /\ RollBack(r, "conflict")
  /\ UNCHANGED faults

\* An insert, or a step after the inserts, fails for any other reason.
StepFails(r) ==
  /\ pc[r] \in Tables \cup {"respond"}
  /\ Fault
  /\ RollBack(r, "failed")

\* Map and encrypt the response.
Respond(r) ==
  /\ pc[r] = "respond"
  /\ pc' = [pc EXCEPT ![r] = "commit"]
  /\ UNCHANGED <<written, stored, answer, event, faults>>

Commit(r) ==
  /\ pc[r] = "commit"
  /\ stored' = [stored EXCEPT ![r] = written[r]]
  /\ written' = [written EXCEPT ![r] = {}]
  /\ pc' = [pc EXCEPT ![r] = "answer"]
  /\ event' = [event EXCEPT ![r] = "due"]
  /\ UNCHANGED <<answer, faults>>

\* The connection breaks under the COMMIT, which may have been executed.
CommitFails(r) ==
  /\ pc[r] = "commit"
  /\ Fault
  /\ stored' \in {stored, [stored EXCEPT ![r] = written[r]]}
  /\ written' = [written EXCEPT ![r] = {}]
  /\ pc' = [pc EXCEPT ![r] = "done"]
  /\ answer' = [answer EXCEPT ![r] = "failed"]
  /\ UNCHANGED event

Answer(r) ==
  /\ pc[r] = "answer"
  /\ pc' = [pc EXCEPT ![r] = "done"]
  /\ answer' = [answer EXCEPT ![r] = "created"]
  /\ UNCHANGED <<written, stored, event, faults>>

\* The fire-and-forget task adds the refresh job to the queue, or fails to.
Publish(r) ==
  /\ event[r] = "due"
  /\ event' = [event EXCEPT ![r] = "published"]
  /\ UNCHANGED <<pc, written, stored, answer, faults>>

PublishFails(r) ==
  /\ event[r] = "due"
  /\ Fault
  /\ event' = [event EXCEPT ![r] = "none"]
  /\ UNCHANGED <<pc, written, stored, answer>>

\* The API process that works on r dies.
Crash(r) ==
  /\ pc[r] \notin {"idle", "done"} \/ event[r] = "due"
  /\ Fault
  /\ pc' = [pc EXCEPT ![r] = "done"]
  /\ written' = [written EXCEPT ![r] = {}]
  /\ answer' = [answer EXCEPT ![r] = IF @ = "none" THEN "failed" ELSE @]
  /\ event' = [event EXCEPT ![r] = IF @ = "due" THEN "none" ELSE @]
  /\ UNCHANGED stored

-----------------------------------------------------------------------------
\* What goes on by itself once a request has been taken up.
Proceed(r) ==
  \/ Prepare(r) \/ Invalid(r) \/ Insert(r) \/ Conflict(r) \/ Respond(r) \/ Commit(r)
  \/ Answer(r)

Next ==
  \E r \in Requests :
    \/ Handle(r) \/ Proceed(r) \/ Publish(r)
    \/ StepFails(r) \/ CommitFails(r) \/ PublishFails(r) \/ Crash(r)

Spec == Init /\ [][Next]_vars

\* The event loop and the drivers carry on; requests and faults come or do not.
Fairness == \A r \in Requests : WF_vars(Proceed(r)) /\ WF_vars(Publish(r))

FairSpec == Spec /\ Fairness
-----------------------------------------------------------------------------
(***************************************************************************)
(* Properties.                                                              *)
(***************************************************************************)
\* Every variable has its type.
TypeOK ==
  /\ pc \in [Requests -> Phases]
  /\ written \in [Requests -> SUBSET Tables]
  /\ stored \in [Requests -> SUBSET Tables]
  /\ answer \in [Requests -> Answers]
  /\ event \in [Requests -> Events]
  /\ faults \in 0 .. MaxFaults

\* No row is ever committed without the others: above all, no user without
\* the outbox row of its welcome email, and no outbox row without its user.
AllOrNothing == \A r \in Requests : stored[r] \in {{}, Tables}

\* Concurrent requests never leave two users with an email or a mobile number
\* in common, and the transactions that are open keep out of each other's way.
UniqueContact ==
  \A r, q \in Requests :
    r # q /\ "communications" \in stored[r] \cup written[r]
          /\ "communications" \in stored[q] \cup written[q] =>
      Email[r] # Email[q] /\ Mobile[r] # Mobile[q]

\* The refresh of a view is published for users that exist, never ahead of
\* the commit that makes them.
EventsFollowCommit == \A r \in Requests : event[r] # "none" => stored[r] = Tables

\* AtomicRegistration, with a user registered as soon as its rows are committed.
Registration ==
  INSTANCE AtomicRegistration WITH registered <- {r \in Requests : stored[r] # {}}

\* The command implements one atomic registration per request: a client told
\* "created" has its user, one told "conflict" has not, and there was a reason.
RegistersAtomically == Registration!Spec

\* Requests that wait for each other's inserts are all answered in the end.
AllAnswered == \A r \in Requests : pc[r] # "idle" ~> answer[r] # "none"
=============================================================================
