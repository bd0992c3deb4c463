------------------------- MODULE WelcomeEmailOutbox -------------------------
(***************************************************************************)
(* The outbox of welcome emails: the rows that CreateUser leaves, the ticks *)
(* of the cron job that claim them and run them as one batch, the request   *)
(* and reply over BullMQ to the worker that sends the email, the batch      *)
(* transaction that records the outcome.  A tick is started every 20        *)
(* seconds whether or not the ticks before it have ended.  The refresh of   *)
(* the cached view that a handler announces is in SharedCache.              *)
(*                                                                          *)
(* A row stands for one user: its outbox row, its settings row and the      *)
(* version of its users row.  These variables hold what Postgres has        *)
(* committed; what a batch has written and not committed is in its items.   *)
(***************************************************************************)
EXTENDS Integers, FiniteSets

CONSTANTS
  Rows,           \* outbox rows that may be created, one per user
  Ticks,          \* slots for concurrent ticks of the cron job
  CreatedStatus,  \* settings.status that a user may be created with
  Take,           \* most rows a tick selects
  MaxSends,       \* emails to a user are counted up to this number
  FaultKinds,     \* faults that may happen
  MaxFaults       \* bound on their number

ASSUME FiniteAssumption == IsFiniteSet(Rows) /\ IsFiniteSet(Ticks)
ASSUME StatusAssumption == CreatedStatus \subseteq {"ACTIVE", "INACTIVE"}
ASSUME TakeAssumption == Take \in Nat \ {0}
ASSUME FaultsAssumption ==
  FaultKinds \subseteq {"claim", "send", "refuse", "stall", "reply", "sql", "commit", "cron"}
ASSUME BoundsAssumption == MaxSends \in Nat \ {0} /\ MaxFaults \in Nat

VARIABLES
  born,     \* born[r]: rank of r in the order of created_date, 0 if not created
  outbox,   \* outbox[r]: the committed outbox row
  user,     \* user[r]: the committed settings and version of the user of r
  tick,     \* tick[t]: where the tick in slot t is
  item,     \* item[t][r]: where tick t is with row r
  sent,     \* sent[r]: welcome emails sent to the user of r, up to MaxSends
  orphans,  \* orphans[r]: jobs for r on the queue that nobody waits for
  missed,   \* (history) rows whose email was sent to a handler that missed the reply
  faults    \* faults so far

rows == <<born, outbox, user>>
work == <<tick, item>>
effects == <<sent, orphans, missed>>
vars == <<rows, work, effects, faults>>

-----------------------------------------------------------------------------
(***************************************************************************)
(* Data.                                                                    *)
(***************************************************************************)
\* The entity's fourth status, FAILED, is never written.
JobStatus == {"NONE", "PENDING", "PROCESSING", "COMPLETED"}

OutboxRow == [jobStatus : JobStatus, isPublished : {"NO", "YES"}, lockedBy : {"null", "machine_1"}]

User == [status : {"ACTIVE", "INACTIVE"}, welcome : {"NO", "YES"}, version : Nat]

\* "aborted" is a running batch whose transaction Postgres has aborted.
TickPhases == {"idle", "selected", "running", "aborted"}

\* listed: selected, and not claimed yet     ready: claimed, handler not begun
\* queued, requeued: the handler waits for its job, which has stalled once
\* lost: the handler waits for a reply that will never come
\* accepted, refused: a reply came, or the settings row was not found
\* completed, reversed: written in the batch transaction, not committed
\* abandoned: the handler returned an error without having written the row
Items == {"out", "listed", "ready", "queued", "requeued", "lost", "accepted",
          "refused", "completed", "reversed", "abandoned"}

Returned == {"out", "completed", "reversed", "abandoned"}

Nothing == [r \in Rows |-> "out"]

Pending == [jobStatus |-> "PENDING", isPublished |-> "NO", lockedBy |-> "null"]
Processing(row) == [row EXCEPT !.jobStatus = "PROCESSING", !.lockedBy = "machine_1"]
Completed == [jobStatus |-> "COMPLETED", isPublished |-> "YES", lockedBy |-> "machine_1"]

\* Seeded bugs: a reversal that marks the row FAILED (TypeOK), a flag without a
\* version (WelcomeIsVersioned).
ReversedAsFailed == [jobStatus |-> "FAILED", isPublished |-> "NO", lockedBy |-> "null"]
WelcomedUnversioned(u) == [u EXCEPT !.welcome = "YES"]

Reversed == Pending

\* updateEmail: the flag is set, and the version of the users row bumped with it.
Welcomed(u) == [status |-> u.status, welcome |-> "YES", version |-> u.version + 1]

Claimable(r) == outbox[r].jobStatus = "PENDING" /\ outbox[r].isPublished = "NO"
                  /\ outbox[r].lockedBy = "null"

\* What the SELECT of a tick may return: the oldest claimable rows, Take at most.
Batches ==
  {S \in SUBSET {r \in Rows : Claimable(r)} :
     /\ S # {}
     /\ Cardinality(S) <= Take
     /\ \A r \in Rows \ S :
          Claimable(r) => /\ Cardinality(S) = Take
                          /\ \A s \in S : born[s] < born[r]}

\* The batch transaction of t has written row r, and holds its lock.
Holds(t, r) == tick[t] = "running" /\ item[t][r] \in {"completed", "reversed"}

Blocked(t, r) == \E s \in Ticks \ {t} : Holds(s, r)

\* Tick t is about to write row r.
Wants(t, r) == tick[t] = "running" /\ item[t][r] \in {"accepted", "refused"}

Deadlocked(t) ==
  \E s \in Ticks \ {t}, r, q \in Rows : Wants(t, r) /\ Holds(s, r) /\ Wants(s, q) /\ Holds(t, q)

OneMore(n) == IF n < MaxSends THEN n + 1 ELSE n

Step(t, r, to) == item' = [item EXCEPT ![t][r] = to]

\* The tick is over, whatever it held.
Over(t) ==
  /\ tick' = [tick EXCEPT ![t] = "idle"]
  /\ item' = [item EXCEPT ![t] = Nothing]

Fault(kind) ==
  /\ kind \in FaultKinds
  /\ faults < MaxFaults
  /\ faults' = faults + 1

Init ==
  /\ born = [r \in Rows |-> 0]
  /\ outbox = [r \in Rows |-> [jobStatus |-> "NONE", isPublished |-> "NO", lockedBy |-> "null"]]
  /\ user = [r \in Rows |-> [status |-> "INACTIVE", welcome |-> "NO", version |-> 0]]
  /\ tick = [t \in Ticks |-> "idle"]
  /\ item = [t \in Ticks |-> Nothing]
  /\ sent = [r \in Rows |-> 0]
  /\ orphans = [r \in Rows |-> 0]
  /\ missed = {}
  /\ faults = 0

-----------------------------------------------------------------------------
(***************************************************************************)
(* Seeded bugs: the checks replace an operator below by one of these, and  *)
(* the property named in the comment must then fail.                       *)
(***************************************************************************)
\* MailsAreSettled: the UPDATE has lost its WHERE.
ClaimAllRows(t) ==
  /\ tick[t] = "selected"
  /\ outbox' = [r \in Rows |-> IF born[r] > 0 THEN Processing(outbox[r]) ELSE outbox[r]]
  /\ item' = [item EXCEPT ![t] = [r \in Rows |-> IF item[t][r] = "listed" THEN "ready" ELSE "out"]]
  /\ tick' = [tick EXCEPT ![t] = "running"]
  /\ UNCHANGED <<born, user, effects, faults>>

\* TicksEnd: a batch whose transaction is aborted is neither committed nor
\* rolled back.
CommitUnlessAborted(t) ==
  /\ tick[t] = "running"
  /\ \A r \in Rows : item[t][r] \in Returned
  /\ outbox' = [r \in Rows |-> IF ~Holds(t, r) THEN outbox[r]
                              ELSE IF item[t][r] = "completed" THEN Completed ELSE Reversed]
  /\ user' = [r \in Rows |-> IF Holds(t, r) /\ item[t][r] = "completed"
                             THEN Welcomed(user[r]) ELSE user[r]]
  /\ Over(t)
  /\ UNCHANGED <<born, effects, faults>>

\* DuplicatesBounded: the worker throws after sending, and the job runs again.
DeliverThrows(t, r) ==
  /\ item[t][r] \in {"queued", "requeued"}
  /\ sent' = [sent EXCEPT ![r] = OneMore(@)]
  /\ Step(t, r, IF item[t][r] = "queued" THEN "requeued" ELSE "accepted")
  /\ UNCHANGED <<rows, tick, orphans, missed, faults>>

\* CompletedMeansSent: the handler does not look at the success of the reply.
RefuseIgnored(t, r) ==
  /\ item[t][r] \in {"queued", "requeued"}
  /\ Fault("refuse")
  /\ Step(t, r, "accepted")
  /\ UNCHANGED <<rows, tick, effects>>

\* StrandedBounded: the row is not reversed when the settings are not found.
UpdateEmailGivesUp(t, r) ==
  /\ Wants(t, r)
  /\ item[t][r] = "accepted"
  /\ IF user[r].status = "INACTIVE"
     THEN ~Blocked(t, r) /\ Step(t, r, "completed")
     ELSE Step(t, r, "abandoned")
  /\ UNCHANGED <<rows, tick, effects, faults>>

\* PublishedOrStranded: the outbox row is not updated with the settings row.
CommitUserOnly(t) ==
  /\ tick[t] \in {"running", "aborted"}
  /\ \A r \in Rows : item[t][r] \in Returned
  /\ outbox' = [r \in Rows |-> IF Holds(t, r) /\ item[t][r] = "reversed" THEN Reversed ELSE outbox[r]]
  /\ user' = [r \in Rows |-> IF Holds(t, r) /\ item[t][r] = "completed"
                             THEN Welcomed(user[r]) ELSE user[r]]
  /\ Over(t)
  /\ UNCHANGED <<born, effects, faults>>

-----------------------------------------------------------------------------
(***************************************************************************)
(* The rows, and the ticks that claim them.                                 *)
(***************************************************************************)
\* The transaction of CreateUser commits.
CreateUser(r) ==
  /\ born[r] = 0
  /\ born' = [born EXCEPT ![r] = Cardinality({q \in Rows : born[q] > 0}) + 1]
  /\ outbox' = [outbox EXCEPT ![r] = Pending]
  /\ \E s \in CreatedStatus :
       user' = [user EXCEPT ![r] = [status |-> s, welcome |-> "NO", version |-> 1]]
  /\ UNCHANGED <<work, effects, faults>>

\* The cron job fires and its SELECT, which locks nothing, finds rows.
Select(t) ==
  /\ tick[t] = "idle"
  /\ \E S \in Batches :
       item' = [item EXCEPT ![t] = [r \in Rows |-> IF r \in S THEN "listed" ELSE "out"]]
  /\ tick' = [tick EXCEPT ![t] = "selected"]
  /\ UNCHANGED <<rows, effects, faults>>

\* The UPDATE by ids, whatever the rows hold by now; then the commit.
Claim(t) ==
  /\ tick[t] = "selected"
  /\ \A r \in Rows : item[t][r] = "listed" => ~Blocked(t, r)
  /\ outbox' = [r \in Rows |-> IF item[t][r] = "listed" THEN Processing(outbox[r]) ELSE outbox[r]]
  /\ item' = [item EXCEPT ![t] = [r \in Rows |-> IF item[t][r] = "listed" THEN "ready" ELSE "out"]]
  /\ tick' = [tick EXCEPT ![t] = "running"]
  /\ UNCHANGED <<born, user, effects, faults>>

\* A statement of the claim fails: its transaction is rolled back.
ClaimFails(t) ==
  /\ tick[t] = "selected"
  /\ Fault("claim")
  /\ Over(t)
  /\ UNCHANGED <<rows, effects>>

(***************************************************************************)
(* One handler of a running batch: all of them run in parallel, with one    *)
(* transaction between them.                                                *)
(***************************************************************************)
Send(t, r) ==
  /\ item[t][r] = "ready"
  /\ Step(t, r, "queued")
  /\ UNCHANGED <<rows, tick, effects, faults>>

\* Adding the job throws, though Redis may hold the job by then: the handler
\* ends without reversing the row.
SendThrows(t, r) ==
  /\ item[t][r] = "ready"
  /\ Fault("send")
  /\ Step(t, r, "abandoned")
  /\ orphans' \in {orphans, [orphans EXCEPT ![r] = @ + 1]}
  /\ UNCHANGED <<rows, tick, sent, missed>>

\* The worker sends the email, and its reply arrives.
Deliver(t, r) ==
  /\ item[t][r] \in {"queued", "requeued"}
  /\ sent' = [sent EXCEPT ![r] = OneMore(@)]
  /\ Step(t, r, "accepted")
  /\ UNCHANGED <<rows, tick, orphans, missed, faults>>

\* The worker replies that it could not.
Refuse(t, r) ==
  /\ item[t][r] \in {"queued", "requeued"}
  /\ Fault("refuse")
  /\ Step(t, r, "refused")
  /\ UNCHANGED <<rows, tick, effects>>

\* The worker dies over the job.  BullMQ runs a stalled job again, but only
\* once: then the job fails and waitUntilFinished throws.
Stall(t, r) ==
  /\ item[t][r] \in {"queued", "requeued"}
  /\ Fault("stall")
  /\ sent' \in {sent, [sent EXCEPT ![r] = OneMore(@)]}
  /\ Step(t, r, IF item[t][r] = "queued" THEN "requeued" ELSE "abandoned")
  /\ UNCHANGED <<rows, tick, orphans, missed>>

\* The worker is so fast that the job is over, and removed, when
\* waitUntilFinished first looks for it: it throws, and nothing has failed.
ReplyMissed(t, r) ==
  /\ item[t][r] = "queued"
  /\ \/ /\ sent' = [sent EXCEPT ![r] = OneMore(@)]
        /\ missed' = missed \cup {r}
        /\ UNCHANGED faults
     \/ Fault("refuse") /\ UNCHANGED <<sent, missed>>
  /\ Step(t, r, "abandoned")
  /\ UNCHANGED <<rows, tick, orphans>>

\* Redis loses the job or the event that it has ended: waitUntilFinished throws,
\* or waits on, as it has no timeout.
ReplyLost(t, r) ==
  /\ item[t][r] \in {"queued", "requeued"}
  /\ Fault("reply")
  /\ sent' \in {sent, [sent EXCEPT ![r] = OneMore(@)]}
  /\ \E to \in {"abandoned", "lost"} : Step(t, r, to)
  /\ UNCHANGED <<rows, tick, orphans, missed>>

\* updateEmail: no INACTIVE settings row, or the flag, the version and the
\* outbox row are written.
UpdateEmail(t, r) ==
  /\ Wants(t, r)
  /\ item[t][r] = "accepted"
  /\ IF user[r].status = "INACTIVE"
     THEN ~Blocked(t, r) /\ Step(t, r, "completed")
     ELSE Step(t, r, "refused")
  /\ UNCHANGED <<rows, tick, effects, faults>>

ReverseOutbox(t, r) ==
  /\ Wants(t, r)
  /\ item[t][r] = "refused"
  /\ ~Blocked(t, r)
  /\ Step(t, r, "reversed")
  /\ UNCHANGED <<rows, tick, effects, faults>>

\* A statement of the batch fails, or is the victim of a deadlock: Postgres
\* aborts the transaction that all handlers of the batch share.
SqlFails(t, r) ==
  /\ Wants(t, r)
  /\ IF Deadlocked(t) THEN UNCHANGED faults ELSE Fault("sql")
  /\ tick' = [tick EXCEPT ![t] = "aborted"]
  /\ Step(t, r, "abandoned")
  /\ UNCHANGED <<rows, effects>>

\* After that, every statement fails.
WriteAborted(t, r) ==
  /\ tick[t] = "aborted"
  /\ item[t][r] \in {"accepted", "refused"}
  /\ Step(t, r, "abandoned")
  /\ UNCHANGED <<rows, tick, effects, faults>>

Handle(t, r) ==
  \/ Send(t, r) \/ Deliver(t, r) \/ UpdateEmail(t, r) \/ ReverseOutbox(t, r)
  \/ WriteAborted(t, r)

-----------------------------------------------------------------------------
(***************************************************************************)
(* The end of a batch.                                                      *)
(***************************************************************************)
AllReturned(t) == \A r \in Rows : item[t][r] \in Returned

\* The COMMIT, which Postgres turns into a rollback if the batch was aborted.
Commit(t) ==
  /\ tick[t] \in {"running", "aborted"}
  /\ AllReturned(t)
  /\ outbox' = [r \in Rows |-> IF ~Holds(t, r) THEN outbox[r]
                              ELSE IF item[t][r] = "completed" THEN Completed ELSE Reversed]
  /\ user' = [r \in Rows |-> IF Holds(t, r) /\ item[t][r] = "completed"
                             THEN Welcomed(user[r]) ELSE user[r]]
  /\ Over(t)
  /\ UNCHANGED <<born, effects, faults>>

\* The connection breaks: nothing of the batch is recorded.
CommitFails(t) ==
  /\ tick[t] = "running"
  /\ AllReturned(t)
  /\ Fault("commit")
  /\ Over(t)
  /\ UNCHANGED <<rows, effects>>

\* The cron process dies: its transactions are rolled back, and the jobs it had
\* queued stay.
CronCrash ==
  /\ \E t \in Ticks : tick[t] # "idle"
  /\ Fault("cron")
  /\ tick' = [t \in Ticks |-> "idle"]
  /\ item' = [t \in Ticks |-> Nothing]
  /\ orphans' = [r \in Rows |->
       orphans[r] + Cardinality({t \in Ticks : item[t][r] \in {"queued", "requeued"}})]
  /\ UNCHANGED <<rows, sent, missed>>

\* The worker runs a job whose sender is gone.
DeliverOrphan(r) ==
  /\ orphans[r] > 0
  /\ orphans' = [orphans EXCEPT ![r] = @ - 1]
  /\ sent' = [sent EXCEPT ![r] = OneMore(@)]
  /\ UNCHANGED <<rows, work, missed, faults>>

-----------------------------------------------------------------------------
Next ==
  \/ \E r \in Rows : CreateUser(r) \/ DeliverOrphan(r)
  \/ \E t \in Ticks : Select(t) \/ Claim(t) \/ ClaimFails(t) \/ Commit(t) \/ CommitFails(t)
  \/ \E t \in Ticks, r \in Rows :
       \/ Handle(t, r) \/ ReplyMissed(t, r)
       \/ SendThrows(t, r) \/ Refuse(t, r) \/ Stall(t, r) \/ ReplyLost(t, r) \/ SqlFails(t, r)
  \/ CronCrash

Spec == Init /\ [][Next]_vars

\* The cron job fires again and again, the event loop and the drivers carry on
\* with what was begun, the worker takes the jobs, and Postgres finds deadlocks
\* and hands a row lock to the statement that has waited longest for it.
Fairness ==
  /\ \A t \in Ticks :
       /\ WF_vars(Select(t)) /\ SF_vars(Claim(t)) /\ WF_vars(Commit(t))
       /\ WF_vars(Deadlocked(t) /\ \E r \in Rows : SqlFails(t, r))
  /\ \A t \in Ticks, r \in Rows : SF_vars(Handle(t, r))
  /\ \A r \in Rows : WF_vars(DeliverOrphan(r))

FairSpec == Spec /\ Fairness
-----------------------------------------------------------------------------
(***************************************************************************)
(* Properties.                                                              *)
(***************************************************************************)
\* Every variable has its type.
TypeOK ==
  /\ born \in [Rows -> Nat]
  /\ outbox \in [Rows -> OutboxRow]
  /\ user \in [Rows -> User]
  /\ tick \in [Ticks -> TickPhases]
  /\ item \in [Ticks -> [Rows -> Items]]
  /\ sent \in [Rows -> 0 .. MaxSends]
  /\ orphans \in [Rows -> Nat]
  /\ missed \subseteq Rows
  /\ faults \in 0 .. MaxFaults

\* A row that is recorded as COMPLETED stands for an email that was sent, a
\* settings row that says so and a users row whose version went up with it,
\* however ticks overlap and whatever failed in their batches.
CompletedMeansSent ==
  \A r \in Rows :
    outbox[r].jobStatus = "COMPLETED" =>
      sent[r] > 0 /\ user[r].welcome = "YES" /\ user[r].version > 1

\* A settings row says that the email was sent only if it was, and exactly if
\* the version went up: a view cached before is never taken for current.
WelcomeIsVersioned ==
  \A r \in Rows :
    /\ user[r].welcome = "YES" => sent[r] > 0
    /\ user[r].welcome = "YES" <=> user[r].version > 1

\* Ticks that overlap do not block each other for good: each of them ends unless
\* a handler waits for a reply that is lost.  So no lock is waited for in a circle
\* that Postgres does not break, and none is held by a tick that has ended.
TicksEnd ==
  \A t \in Ticks : []<>(tick[t] = "idle" \/ \E s \in Ticks, r \in Rows : item[s][r] = "lost")

\* One tick at a time: a user whose settings row is as updateEmail expects it
\* gets one email, and one more at most for every fault.
DuplicatesBounded ==
  \A r \in Rows : user[r].status = "INACTIVE" => sent[r] <= 1 + faults

\* The outbox row as WelcomeMail sees it.
MailStatus ==
  [r \in Rows |-> CASE outbox[r].jobStatus = "NONE" -> "none"
                    [] outbox[r].jobStatus = "PENDING" -> "waiting"
                    [] outbox[r].jobStatus = "COMPLETED" -> "recorded"
                    [] OTHER -> "working"]

Mail == INSTANCE WelcomeMail WITH status <- MailStatus

\* One tick at a time: an email is sent only while its row is PROCESSING, never
\* for a row that waits again or is COMPLETED; a COMPLETED row stays so.  Jobs
\* that a crash of the cron process left on the queue are no exception.
MailsAreSettled == Mail!Spec

\* PROCESSING in no batch that may still settle it, though no reply was missed.
Stranded ==
  {r \in Rows \ missed :
     /\ outbox[r].jobStatus = "PROCESSING"
     /\ \A t \in Ticks : tick[t] = "running" => item[t][r] \in {"out", "abandoned"}}

\* One tick at a time: each fault strands the rows of one batch at most.  Where
\* nothing fails, no row is left behind but one whose email was sent and whose
\* handler missed the reply.  So a crash, an aborted batch and a reversal that
\* fails lose no row but those that their own batch had claimed.
StrandedBounded == Cardinality(Stranded) <= Take * faults

\* README.md line 190 promises "reliable event publishing": the email of every
\* user created is sent and recorded.
ReliablePublishing ==
  \A r \in Rows : born[r] > 0 ~> outbox[r].jobStatus = "COMPLETED"

\* Nothing takes row r up again: it is PROCESSING in no batch, since a fault or
\* since its handler missed the reply.
LeftBehind(r) ==
  /\ outbox[r].jobStatus = "PROCESSING" /\ \A t \in Ticks : item[t][r] = "out"
  /\ faults > 0 \/ r \in missed

\* Older rows that updateEmail never settles fill every tick.
Starved(r) ==
  Cardinality({q \in Rows : user[q].status # "INACTIVE" /\ born[q] \in 1 .. born[r]
                            /\ ~LeftBehind(q)}) >= Take

\* One tick at a time: every row with the settings that updateEmail expects is
\* COMPLETED in the end, unless it is left behind or starved, or the tick waits
\* for a reply that will never come.  Nothing else stops a row: not the rows of
\* its batch that fail, and not fewer such older rows than a tick takes.
PublishedOrStranded ==
  []<>(\A r \in Rows :
         born[r] > 0 /\ user[r].status = "INACTIVE" =>
           \/ outbox[r].jobStatus = "COMPLETED" \/ LeftBehind(r) \/ Starved(r)
           \/ \E t \in Ticks, q \in Rows : item[t][q] = "lost")
=============================================================================
