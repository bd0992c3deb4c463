----------------------------- MODULE SharedCache -----------------------------
(***************************************************************************)
(* The refresh of a user's cached views: the BullMQ worker runs up to ten   *)
(* refresh jobs at once through one UserSharedCacheService, a singleton     *)
(* whose pipeline keeps the results of its steps in one map.  A job reads   *)
(* its user through the store of module ViewStore, puts the entity into the *)
(* map, takes it out again for the second step, and stores it under the key *)
(* of its client.                                                           *)
(*                                                                          *)
(* Both writers of a view publish its refresh by a task they do not wait    *)
(* for: create-user when it has committed, the welcome email's handler while *)
(* the transaction of its batch is still open.                              *)
(*                                                                          *)
(* The read of the first step is one atomic read of the committed row: that *)
(* is what ViewStore is shown to implement.                                 *)
(***************************************************************************)
EXTENDS Naturals, FiniteSets

CONSTANTS
  Users,       \* users the system knows of; each has a client id of its own
  Inactive,    \* users whose settings row is INACTIVE, the only ones updateEmail finds
  NoUser,      \* the user of a job slot that is free, and of no view
  Jobs,        \* slots for concurrent refresh jobs of the worker
  MaxVersion,  \* bound on the row version of a user
  MaxFaults    \* bound on faults of Redis, Postgres, writers and the worker

ASSUME UsersAssumption == Inactive \subseteq Users /\ NoUser \notin Users
ASSUME JobsAssumption == IsFiniteSet(Jobs)
ASSUME BoundsAssumption == MaxVersion \in Nat /\ MaxFaults \in Nat

VARIABLES
  version,   \* version[u]: version of the committed users row, 0 if none
  open,      \* open[u]: a batch has changed the row of u and not yet committed
  owed,      \* owed[u]: tasks that have yet to publish a refresh of u
  pending,   \* pending[u]: refresh events of u on the queue
  client,    \* client[u]: the view under user-client-<client id of u>
  context,   \* the result of step ByIdentifier in the shared pipeline
  job,       \* job[j]: the refresh job in slot j
  promised,  \* history: promised[u] was committed when the latest refresh of u was
             \* published, 0 if there was none or it was given up
  faults     \* faults so far

writers == <<version, open, owed>>
vars == <<version, open, owed, pending, client, context, job, promised, faults>>

-----------------------------------------------------------------------------
Versions == 0 .. MaxVersion

\* A view is the users row it was joined with: whose, and of which version.
Views == [user : Users \cup {NoUser}, version : Versions]

NoView == [user |-> NoUser, version |-> 0]

Phases ==
  {"idle", "byIdentifier", "settle", "result", "get", "rowVersion", "set", "end"}

\* entity is the view the job works on, cached the one it found under the key.
JobState == [pc : Phases, user : Users \cup {NoUser}, entity : Views, cached : Views]

Idle == [pc |-> "idle", user |-> NoUser, entity |-> NoView, cached |-> NoView]

Goto(j, pc) == job' = [job EXCEPT ![j].pc = pc]

\* The job has done what it does, and lets go of its views.
Finish(j) == job' = [job EXCEPT ![j] = [Idle EXCEPT !.pc = "end", !.user = job[j].user]]

\* The slot is free for another job.
Free(j) == job' = [job EXCEPT ![j] = Idle]

Fault ==
  /\ faults < MaxFaults
  /\ faults' = faults + 1

\* Nothing will carry out the latest refresh of the users in given, unless an
\* event of theirs is on the queue.
GiveUp(given) ==
  promised' = [u \in Users |-> IF u \in given /\ pending'[u] = 0 THEN 0 ELSE promised[u]]

Init ==
  /\ version = [u \in Users |-> 0]
  /\ open = [u \in Users |-> FALSE]
  /\ owed = [u \in Users |-> 0]
  /\ pending = [u \in Users |-> 0]
  /\ client = [u \in Users |-> NoView]
  /\ context = NoView
  /\ job = [j \in Jobs |-> Idle]
  /\ promised = [u \in Users |-> 0]
  /\ faults = 0

-----------------------------------------------------------------------------
(***************************************************************************)
(* Seeded bugs: the checks replace an operator below by one of these, and  *)
(* the property named in the comment must then fail.                       *)
(***************************************************************************)
\* TypeOK: the task that publishes is started inside the transaction.
CreateUserTellsFirst(u) ==
  /\ version[u] = 0
  /\ \/ owed[u] = 0 /\ owed' = [owed EXCEPT ![u] = 1] /\ UNCHANGED version
     \/ version' = [version EXCEPT ![u] = 1] /\ UNCHANGED owed
  /\ UNCHANGED <<open, pending, client, context, job, promised, faults>>

\* OwnView: the key is that of the job's user, the view what the map held.
SetUnderJobsKey(j) ==
  /\ job[j].pc = "set"
  /\ client' = [client EXCEPT ![job[j].user] = job[j].entity]
  /\ Finish(j)
  /\ UNCHANGED <<writers, pending, context, promised, faults>>

\* ConvergesAlone: a hit is refused only if it is newer than the row.
CheckRowVersionOneSided(j) ==
  /\ job[j].pc = "rowVersion"
  /\ IF job[j].cached.version > version[job[j].user] THEN Goto(j, "set") ELSE Finish(j)
  /\ UNCHANGED <<writers, pending, client, context, promised, faults>>

-----------------------------------------------------------------------------
(***************************************************************************)
(* The writers.                                                             *)
(***************************************************************************)
\* create-user commits, and then starts the task that publishes the refresh.
CreateUser(u) ==
  /\ version[u] = 0 /\ MaxVersion > 0
  /\ version' = [version EXCEPT ![u] = 1]
  /\ owed' = [owed EXCEPT ![u] = @ + 1]
  /\ UNCHANGED <<open, pending, client, context, job, promised, faults>>

\* The handler of the welcome email has changed the row and starts the task; the
\* change is committed, or not, when the whole batch has returned.
WelcomeUser(u) ==
  /\ u \in Inactive
  /\ version[u] \in 1 .. MaxVersion - 1
  /\ ~open[u]
  /\ open' = [open EXCEPT ![u] = TRUE]
  /\ owed' = [owed EXCEPT ![u] = @ + 1]
  /\ UNCHANGED <<version, pending, client, context, job, promised, faults>>

CommitBatch(u) ==
  /\ open[u]
  /\ version' = [version EXCEPT ![u] = @ + 1]
  /\ open' = [open EXCEPT ![u] = FALSE]
  /\ UNCHANGED <<owed, pending, client, context, job, promised, faults>>

\* Another statement of the batch, its COMMIT or its process fails.
RollBackBatch(u) ==
  /\ open[u]
  /\ Fault
  /\ open' = [open EXCEPT ![u] = FALSE]
  /\ UNCHANGED <<version, owed, pending, client, context, job, promised>>

\* The task adds the event to the queue.
Publish(u) ==
  /\ owed[u] > 0
  /\ owed' = [owed EXCEPT ![u] = @ - 1]
  /\ pending' = [pending EXCEPT ![u] = @ + 1]
  /\ promised' = [promised EXCEPT ![u] = version[u]]
  /\ UNCHANGED <<version, open, client, context, job, faults>>

\* The task ends with its process, or Redis refuses the event and nobody looks at
\* the error that handleAsync returns.
EventLost(u) ==
  /\ owed[u] > 0
  /\ Fault
  /\ owed' = [owed EXCEPT ![u] = @ - 1]
  /\ UNCHANGED <<version, open, pending, client, context, job, promised>>

(***************************************************************************)
(* One refresh job.                                                         *)
(***************************************************************************)
\* The worker takes the job from the queue.
Start(j, u) ==
  /\ job[j].pc = "idle"
  /\ pending[u] > 0
  /\ job' = [job EXCEPT ![j].pc = "byIdentifier", ![j].user = u]
  /\ pending' = [pending EXCEPT ![u] = @ - 1]
  /\ UNCHANGED <<writers, client, context, promised, faults>>

\* The action of step ByIdentifier: handleAsync of the store by identifier.
ByIdentifier(j) ==
  /\ job[j].pc = "byIdentifier"
  /\ job' = [job EXCEPT ![j].pc = "settle",
                        ![j].entity = [user |-> job[j].user, version |-> version[job[j].user]]]
  /\ UNCHANGED <<writers, pending, client, context, promised, faults>>

\* The store answers with an error, with or without a fallback object, which
\* this caller does not look for.
ByIdentifierFails(j) ==
  /\ job[j].pc = "byIdentifier"
  /\ Fault
  /\ Finish(j)
  /\ UNCHANGED <<writers, pending, client, context>>
  /\ GiveUp({job[j].user})

\* The step puts its result into the map, and resolves.
Settle(j) ==
  /\ job[j].pc = "settle"
  /\ context' = job[j].entity
  /\ Goto(j, "result")
  /\ UNCHANGED <<writers, pending, client, promised, faults>>

\* Step ByClientId takes the result out of the map, a turn of the microtask
\* queue later: replies that came in one chunk settle other jobs in between.
GetResult(j) ==
  /\ job[j].pc = "result"
  /\ job' = [job EXCEPT ![j].pc = "get", ![j].entity = context]
  /\ UNCHANGED <<writers, pending, client, context, promised, faults>>

\* The GET of the key that the client id of the entity gives.
GetClient(j) ==
  /\ job[j].pc = "get"
  /\ LET found == client[job[j].entity.user] IN
       job' = [job EXCEPT ![j].pc = IF found = NoView THEN "set" ELSE "rowVersion",
                          ![j].cached = found]
  /\ UNCHANGED <<writers, pending, client, context, promised, faults>>

\* The version it is compared with is that of the user of the job.
CheckRowVersion(j) ==
  /\ job[j].pc = "rowVersion"
  /\ IF job[j].cached.version # version[job[j].user] THEN Goto(j, "set") ELSE Finish(j)
  /\ UNCHANGED <<writers, pending, client, context, promised, faults>>

\* There is nothing to read for this store: the entity is what it sets.
SetClient(j) ==
  /\ job[j].pc = "set"
  /\ client' = [client EXCEPT ![job[j].entity.user] = job[j].entity]
  /\ Finish(j)
  /\ UNCHANGED <<writers, pending, context, promised, faults>>

\* Redis or the version query fails, and the key stays as it is.
ByClientIdFails(j) ==
  /\ job[j].pc \in {"get", "rowVersion", "set"}
  /\ Fault
  /\ Finish(j)
  /\ UNCHANGED <<writers, pending, client, context>>
  /\ GiveUp({job[j].user})

\* The transaction is committed or rolled back.  The subscriber drops the result:
\* to the queue, a refresh that failed is completed like any other.
End(j) ==
  /\ job[j].pc = "end"
  /\ Free(j)
  /\ UNCHANGED <<writers, pending, client, context, promised, faults>>

\* The connection of the job is down, and connecting, beginning or ending the
\* transaction throws: the queue tries the job again, up to the third attempt.
JobThrows(j) ==
  /\ job[j].pc # "idle"
  /\ Fault
  /\ Free(j)
  /\ pending' \in {pending, [pending EXCEPT ![job[j].user] = @ + 1]}
  /\ GiveUp({job[j].user})
  /\ UNCHANGED <<writers, client, context>>

(***************************************************************************)
(* The environment.                                                         *)
(***************************************************************************)
\* The worker process dies.  Jobs that have not stalled before run again.
WorkerCrash ==
  /\ \E j \in Jobs : job[j].pc # "idle"
  /\ Fault
  /\ \E again \in SUBSET {j \in Jobs : job[j].pc # "idle"} :
       pending' = [u \in Users |-> pending[u] + Cardinality({j \in again : job[j].user = u})]
  /\ job' = [j \in Jobs |-> Idle]
  /\ context' = NoView
  /\ GiveUp({job[j].user : j \in Jobs})
  /\ UNCHANGED <<writers, client>>

\* Redis starts again from a snapshot: keys are gone, or as old as any.
RedisRestart ==
  /\ Fault
  /\ \E saved \in [Users -> Versions] :
       /\ \A u \in Users : saved[u] <= version[u]
       /\ client' = [u \in Users |->
            IF saved[u] = 0 THEN NoView ELSE [user |-> u, version |-> saved[u]]]
  /\ UNCHANGED <<writers, pending, context, job>>
  /\ GiveUp(Users)

-----------------------------------------------------------------------------
\* What the worker carries on with once a job has begun.
Proceed(j) ==
  \/ ByIdentifier(j) \/ Settle(j) \/ GetResult(j)
  \/ GetClient(j) \/ CheckRowVersion(j) \/ SetClient(j) \/ End(j)

Next ==
  \/ \E u \in Users :
       \/ CreateUser(u) \/ WelcomeUser(u) \/ CommitBatch(u) \/ RollBackBatch(u)
       \/ Publish(u) \/ EventLost(u)
  \/ \E j \in Jobs :
       \/ \E u \in Users : Start(j, u)
       \/ Proceed(j)
       \/ ByIdentifierFails(j)
       \/ ByClientIdFails(j)
       \/ JobThrows(j)
  \/ WorkerCrash
  \/ RedisRestart

Spec == Init /\ [][Next]_vars

\* The worker takes jobs from the queue and carries on with them; a task that was
\* started runs.  Nothing is asked of the batches.
Fairness ==
  /\ \A j \in Jobs : WF_vars(Proceed(j)) /\ WF_vars(\E u \in Users : Start(j, u))
  /\ \A u \in Users : WF_vars(Publish(u))

FairSpec == Spec /\ Fairness
-----------------------------------------------------------------------------
(***************************************************************************)
(* Properties.                                                              *)
(***************************************************************************)
Typed ==
  /\ version \in [Users -> Versions]
  /\ open \in [Users -> BOOLEAN]
  /\ owed \in [Users -> Nat]
  /\ pending \in [Users -> Nat]
  /\ client \in [Users -> Views]
  /\ context \in Views
  /\ job \in [Jobs -> JobState]
  /\ promised \in [Users -> Versions]
  /\ faults \in 0 .. MaxFaults

\* Every variable has its type, and an event is about a user who exists: the job
\* that takes it finds a row.
TypeOK == Typed /\ \A u \in Users : pending[u] > 0 => version[u] > 0

\* However the results of concurrent jobs mix in the map of the pipeline, the
\* key of a client only ever holds a committed view of its own user: key and
\* view are taken from the same result.
OwnView ==
  \A u \in Users :
    client[u] # NoView => client[u].user = u /\ client[u].version \in 1 .. version[u]

Busy == {j \in Jobs : job[j].pc # "idle"}

\* The client of u has a view as recent as the latest refresh of u asks for.
Served(u) == promised[u] > 0 => client[u].user = u /\ client[u].version >= promised[u]

\* If no two jobs ever overlap, the view of a client comes to be at least as
\* recent as the row was when the latest refresh of its user was published,
\* however commits, lost events, rolled back batches, failing jobs of others and
\* restarts fall between the steps of the jobs.  A refresh whose own job fails, or
\* whose result Redis loses, is given up: the subscriber drops the error.
ConvergesAlone == [](Cardinality(Busy) <= 1) => \A u \in Users : []<>Served(u)

Current(u) == client[u] = [user |-> u, version |-> version[u]]

\* README.md line 16 promises "eventual consistency between write model and
\* view state": the view of every client is current in the end.
Converges == \A u \in Users : version[u] > 0 ~> Current(u)
=============================================================================
