# Formal model of the materialized user view

TLA+ modules, TLC configurations and TLAPS proofs for the system in `src/`: an Express
API that keeps users in five normalized Postgres tables, serves them from a denormalized
view in Redis, and sends welcome emails through an outbox. Paths below are relative to
`src/`, with these abbreviations:

| short | path |
|---|---|
| `CU` | `api/src/modules/users/apps/features/v1/createUsers` |
| `GU` | `api/src/modules/users/apps/features/v1/getUserByIdentifier` |
| `CACHE` | `api/src/modules/users/shared/cache` |
| `MAIL` | `api/src/modules/notifications/apps/features/v1/welcomeUserEmail` |
| `OUTBOX` | `db/src/core/modules/outbox` |
| `UTIL` | `utils/src/core/shared/utils` |

## 1. The system

Four kinds of process run against one Postgres and one Redis: API processes (a pm2
cluster), the cron worker, the BullMQ worker, and the client. Next to them stand patterns that
the repository offers and no feature uses yet: a saga, and RabbitMQ request/reply,
send/receive and publish/subscribe with a worker process of their own.

```
 client --create--> API: CreateUser ---- tx ----> Postgres: 5 user tables + outbox
                      | after commit, fire and forget        ^          ^
                      v                                      |          |
              queue user-shared-cache-event ---> BullMQ worker: SharedCache --> Redis
                      ^                                      |  user-<id>, user-client-<id>
                      | fire and forget, before commit       |          ^
 every 20 s ---> cron worker: claim, batch tx ---------------+          |
                      | request/reply queue                             |
                      v                                                 |
                 BullMQ worker: welcome email                           |
 client --get--> API: GetUserByIdentifier --> RedisStoreWrapper.handleAsync
```

### Inventory

| component | state | operations | what makes it correct |
|---|---|---|---|
| View store: `UTIL/helpers/redis`, `CACHE/set/services/byIdentifier`, `GU/query` | key `user-<id>` in Redis; the Redis client; what a call has read so far | `handleAsync`: init, GET behind the breaker, version query, join, SET, fallback | an answer is an atomic read of the committed row, however stale the key; a SET is stale by one call at most; a call returns |
| Row version: `api/src/modules/users/shared/updateUserRowVersion` | `version` of the users row | bump with the change of another table | no change of the view without a bump |
| Create-user command: `CU/commands` | one transaction; pipeline results of the request; the fire-and-forget task | decrypt, validate, hash, map, six inserts, answer, publish | all rows or none; unique contact data; the answer tells the truth; events follow the commit |
| Outbox job: `CU/job`, `OUTBOX` | outbox rows; ticks and their batches; one transaction per batch | claim, send and wait, updateEmail, reverse, commit, publish the refresh | recorded means sent; flag and version go together; no row is lost; duplicates are bounded |
| Welcome-email worker: `MAIL` | job under work | validate, send, reply | a reply of success means sent |
| BullMQ request/reply, send/receive: `UTIL/helpers/bullMq` | queues, stalled jobs, events | add, wait, run, run again | delivery at least once, for a reply at most once per wait |
| Shared cache service: `CACHE/set/index .ts`, `byClientId` | singleton whose pipeline results are shared by all jobs | refresh both keys | each key holds the view of its own user |
| Pipeline, transactions, batches, fire-and-forget: `UTIL` | results map; open transaction; pending tasks | step, run, execute | a failed step undoes what was written |
| Saga builder with tryCatch and retry wrappers: `UTIL/helpers/saga`, `UTIL/exceptions/tryCatch`, `UTIL/miscellaneous/retry` | steps; executed steps of a run; `isSuccess` | step, run, resume, retry, fall back, compensate | a run that reports itself undone is; a successful run is complete; a run ends |
| RabbitMQ patterns: `UTIL/helpers/rabbitmq` | durable queues, unacknowledged messages, the reply queue and its consumers | send, consume, work, reply, acknowledge, redeliver | nobody gets another's answer; no request is lost; work is done at least once |
| HTTP application: `api/src/app.ts`, `server.ts`, pm2 configuration, data source | the process, its port, its pool, its signal handlers and timers | start, initialize, serve, shut down, exit, restart | answers tell the truth through a shutdown; requests settle; the process serves again |
| Middlewares, tRPC, configuration, Consul, Axios, AES/HMAC, Kafka and Pusher wrappers, thread pool | none of interest, or a library's | | not modelled, see section 7 |

### What is hard about it

* **Two systems of record per read.** The hit and the version it is compared with come from
  Redis and Postgres at different instants, with commits and SETs of other calls between.
* **No compare-and-set.** A slow call puts an older view back over a newer one.
* **Ticks overlap.** The job fires every 20 s, a tick waits for replies without a limit, the
  claim is a SELECT without a lock and an UPDATE without a condition.
* **Shared transactions.** All handlers of a batch run in parallel in one transaction: one
  failing statement aborts the outcome of all, after their emails have left.
* **Events next to transactions.** The refresh of a view is published after the commit in
  one place (and may be lost) and before it in another (and may read too early).
* **Waiting on Redis.** Connecting and the SET are outside the breaker's timeout; a reply has no
  timeout; and a worker that is fast enough has removed its job before the sender looks for it.
* **Undoing.** A saga step that throws may have taken effect; a compensation may throw too; a
  run may resume at a label with the leftovers of an earlier run before it.
* **Shared reply queue.** Each RabbitMQ call adds a consumer of its own to one queue; a reply
  may reach the consumer of another call, which neither reads nor returns it.
* **Stale acknowledgements.** A handler that outlives its connection acknowledges a delivery tag
  of the old channel on the new one, where it may name another message or none.
* **Start and end of the process.** The port opens before the database is there; a signal
  tears the database down while requests are in transactions; both signals may come.

All hazards, with their lines and the properties that watch them, are in `PROJECT.json`.

## 2. Modules

| module | what it is |
|---|---|
| `AtomicView` | abstract: a read of the view is one atomic read of the committed row |
| `ViewStore` | `RedisStoreWrapper.handleAsync` and its callers, await by await |
| `ViewStoreProofs` | proofs about `ViewStore` |
| `AtomicRegistration` | abstract: a request registers its user whole, in one instant, uniquely |
| `CreateUser` | the create-user command, statement by statement, for concurrent requests |
| `CreateUserProofs` | proofs about `CreateUser` |
| `WelcomeMail` | abstract: an email is sent for a row at work only, and what is recorded was sent and is final |
| `WelcomeEmailOutbox` | outbox rows, overlapping ticks, batch transactions, request and reply to the worker |
| `WelcomeEmailOutboxProofs` | proofs about `WelcomeEmailOutbox` |
| `SharedCache` | the refresh of views: its two publishers, and the worker's concurrent jobs through one service with one map of results |
| `OneTickProofs` | proofs about `WelcomeEmailOutbox` while ticks do not overlap |
| `SharedCacheProofs` | proofs about `SharedCache` |
| `Saga` | runs of a saga, attempt by attempt, with the wrappers that its actions go through |
| `SagaProofs` | proofs about `Saga` |
| `RemoteCall` | abstract: a call is worked on after it was made, and answered once, after its work |
| `RabbitMq` | the three RabbitMQ patterns between a sender, the broker and a worker whose connections come and go |
| `RabbitMqProofs` | proofs about `RabbitMq` |
| `ApiServer` | one process of the HTTP application from its start to its exit, again and again |
| `ApiServerProofs` | proofs about `ApiServer` |
| `MCViewStore`, `MCCreateUser`, `MCWelcomeEmailOutbox`, `MCSharedCache`, `MCSaga`, `MCRabbitMq`, `MCApiServer` | model values for TLC |

Each specification holds, before its actions, a few *seeded bugs*: variants of an operator
with a plausible mistake (a dropped guard, a forgotten rollback). They are in no next-state
relation. Replacing the operator by its variant must break the property that the comment
names, which shows that the property depends on the code doing it right.

### ViewStore

A slot of `call` is one call of `handleAsync` for the key `user-<id>`, by a query of an API
process or by a refresh job of the worker; both run the same code. A view is represented by
the `version` of the users row it was joined with: the join is one SQL statement, so its
columns come from one commit, and every transaction that changes the view after the insert
bumps the version with it (`WelcomeIsVersioned` is that fact for the one such transaction).

| action | code |
|---|---|
| `Commit` | a transaction with `UpdateUserRowVersionService` commits (or the one that inserts the user) |
| `HandleAsync`, `Return` | the query handler calls the store and unwraps the fallback object (`GU/query/index.ts` 83-192) |
| `InitRedis`, `InitThrows` | `await init` (239): waits for as long as Redis does not answer; an exception goes to the fallback |
| `GetCache`, `GetFails` | the breaker's `fire` (240): a value, none, or an exception |
| `CheckRowVersion` | `getRowVersionAsync` and the comparison (279-302) |
| `ReadDb`, `SendSet`, `SetCache` | `setCacheAsync` (167-211) and `RedisHelper.set` (99-110): the SET is awaited without breaker or timeout |
| `SetRefused`, `SetThrows`, `SetRejected` | not connected is an error value, which is ignored; an exception under the SET is an error of the call |
| `Fallback` | the catch block (304-330), which reads but does not SET |
| `DbFails`, `Crash` | environment |
| `RedisHangs`, `RedisAnswers`, `RedisStop`, `RedisStart` | Redis is `up`, `silent` (connected, no command is answered) or `down`; it starts again with any older views |

Properties: `Fresh` (every answer, by whichever path, is between the row when the call began
and the row now), `StaleWriteBounded` (a SET may move a key backwards, but what it stores was the
committed view at some moment of the very call that performs it), `LinearizableReads` (the module
implements `AtomicView`; the read takes effect at the statement whose result is returned),
`ConnectedCallsReturn` (liveness). The last excuses one wait, which the code has: a call that has
sent its SET to a Redis that falls silent (`WaitsForSet`) returns only when Redis answers again or
its connection closes. No other step after `init` waits for Redis.

The field `floor` of a call is a history variable: no action reads it.

### CreateUser

A request is at the table it inserts into next, or at a phase. `written` are the rows of its
open transaction, `stored` the committed ones. An insert waits while another open transaction
holds an entry it clashes with in a unique index, and is refused once that is committed
(Postgres, READ COMMITTED). One insert is one step: its unique indexes are visited in one
fixed order in all processes, so two single-row inserts do not deadlock within it.
`Conflict` stands for the duplicate-key branch of the Db step, `StepFails` for every other
failure, `CommitFails` for a connection that breaks under the COMMIT, whose outcome is then
unknown. A handler object, and with it the pipeline's map of results, is new for each request.
The outbox insert has no unique column that can clash, as identifiers are random.

Properties: `AllOrNothing`, `UniqueContact` (of committed and of open transactions),
`EventsFollowCommit`, `RegistersAtomically` (implements `AtomicRegistration`), `AllAnswered`
(liveness).

### WelcomeEmailOutbox

A row stands for one user: outbox row, settings row and version. `outbox` and `user` are what
is committed; what a batch has written is in its `item`s until `Commit`. A slot of `tick` is
one run of the job. Because a batch's writes become visible only by its commit, and
statements of other transactions on the same rows wait for its locks (`Blocked`), the
statements of one handler between two waits for something else are one step: `UpdateEmail` is
the updates of settings, version and outbox row of one user. The columns `lockedAt`, `traceId`
and the payload are left out: nothing reads `lockedAt`, and payloads do not change. The refresh
that the handler publishes is in `SharedCache`.

| action | code |
|---|---|
| `CreateUser` | the commit of module `CreateUser`; `CreatedStatus` is the status of the settings row |
| `Select`, `Claim`, `ClaimFails` | `GetOutboxDbService` (88-122) within `getOutBoxListAsync`; the UPDATE is by ids only |
| `Send`, `SendThrows` | the producer adds the job; when that throws, the job may be on the queue all the same |
| `Deliver`, `Refuse`, `Stall`, `ReplyLost` | the worker's end of a job, and what `waitUntilFinished` makes of it |
| `ReplyMissed` | the job is over, and removed (`removeOnComplete`), before `waitUntilFinished` first looks for it (`requestReply/producer` 63): it throws, although nothing has failed |
| `UpdateEmail` | `updateEmail` and the completion (140-158); it looks the settings row up with status INACTIVE |
| `ReverseOutbox` | `reverseOutboxAsync` after a refusal or a failed `updateEmail` |
| `SqlFails`, `WriteAborted` | a statement fails or loses a deadlock, and the shared transaction with it |
| `Commit`, `CommitFails` | end of `runOutboxAsync` |
| `CronCrash`, `DeliverOrphan` | the cron process dies; jobs it had queued still run |

Properties for overlapping ticks: `CompletedMeansSent`, `WelcomeIsVersioned`, and the liveness
property `TicksEnd`: a circle of row locks is broken, and only a lost reply keeps a tick for good.
For one tick at a time: `DuplicatesBounded`; `StrandedBounded`, by which a fault leaves no rows
behind but those of one batch, and where nothing fails a row is left behind only if its handler missed the
reply of a fast worker; and `MailsAreSettled`: the module implements `WelcomeMail`, with the
status of a row read off its `jobStatus`. With overlapping ticks that does not hold: of two ticks
that have claimed one row, one may complete it and the other reverse it afterwards, or send its
email once more. `PublishedOrStranded` says which rows are completed in the end and names the ways in
which the code leaves one behind: `LeftBehind`, since a fault or a missed reply, and `Starved`, by
at least as many older rows that `updateEmail` never settles as a tick takes.
`ReliablePublishing` is what the documentation promises.

`missed` is a history variable: no action reads it. It tells a row that was stranded by the
ordinary race from one that a fault has stranded.

### SharedCache

`UserSharedCacheService` is a singleton, and its pipeline a field of it: the up to ten jobs that
the worker runs at once put the result of step *ByIdentifier* into one map under one name, and
take it out again for step *ByClientId*. A view is the users row it was joined with, so here it
is a user and a version. The store by identifier is `ViewStore`'s; as that implements atomic
reads, it is one step here.

| action | code |
|---|---|
| `CreateUser` | the command has committed, and starts the task that publishes (`CU/commands` 255) |
| `WelcomeUser` | the handler of the welcome email has changed the row and starts the task while the batch is open (`CU/job`, `publishEvent` 172); it finds users of `Inactive` only |
| `CommitBatch`, `RollBackBatch` | the end of that batch, before or after the refresh has been read |
| `Publish`, `EventLost` | the task adds the event to the queue; or its process ends, or the error that the producer returns is dropped |
| `Start` | the worker takes a job (`CACHE/events/subscribe` 17-47) |
| `ByIdentifier`, `ByIdentifierFails` | the action of the first step: an error ends the refresh, fallback object or not |
| `Settle` | the step puts its result into the map (`pipeline` 57) |
| `GetResult` | the second step takes out what is there (`set` 82) |
| `GetClient`, `CheckRowVersion`, `SetClient`, `ByClientIdFails` | the store by client: the key is that of the entity taken out, the version it is compared with that of the job's own user |
| `End`, `JobThrows` | end of the job's transaction; only an exception of the connection makes the queue try again |
| `WorkerCrash`, `RedisRestart` | environment; a stalled job may run again |

How results can mix: between `Settle` and `GetResult` a job is one turn of the microtask queue
away from its result. All calls of the store share one Redis client (`RedisHelper.client`, which
the last `init` replaced), so the replies to the SETs of two jobs may be read from the socket in
one chunk; both promises are resolved before any continuation runs, the jobs go on in lockstep,
and the second settles before the first takes its result. The model lets any two jobs do so.

Properties: `OwnView` (key and view are taken from the same result, so no client ever gets
another user's view, however results mix), `ConvergesAlone` (liveness, while jobs do not overlap).
The second promises no more than the writers do: a client's view comes to be at least as recent as the
row was *when the latest refresh of its user was published*. That is the current row after
`CreateUser`, and the row before the welcome when the job of `WelcomeUser` is quicker than its batch. A
refresh whose own job fails, or whose result Redis loses, is given up, because the subscriber drops the
error; commits, lost events, rolled back batches and failing jobs of other users are not excused.
`promised`, the version it speaks of, is a history variable.

As the command is shipped its settings rows are ACTIVE, so `updateEmail` fails first and `publishEvent`
is never reached: `Inactive` is then empty, and `WelcomeUser` with it. The run has one user of each kind.

### Saga

A saga has steps with a number of attempts each; the action of a step is called *plain* or
through a wrapper. An operation returns Ok and has taken effect, returns an error and has not,
or throws, and may have. `standing` are the steps whose effects are in place: it is not a
variable of the code but of the systems that the steps act on, and outlives runs and processes.

| action | code (`UTIL/helpers/saga/builder`, unless named) |
|---|---|
| `RunAsync` | `runAsync`, from the first step or from a label (36-43) |
| `PassOver`, `Finish` | a step whose loop makes no attempt (48); the end of all steps (113) |
| `CallPlain` | the action called directly (50) |
| `CallTryCatch` | `tryCatchResultAsync`: an exception becomes an error |
| `CallFallback`, `OnFallback`, `OnRescue`, `OnFinally` | `tryCatchSagaResultAsync`: the fallback after an error is inside the try block, so it is called again when it throws |
| `CallRetry` | `RetryWrapper`: again after an error, not after an exception |
| `StepSucceeds`, `StepFails` | the two branches of the result (52-102); `onError` that returns is part of the second |
| `Rethrow` | the catch block (103): an action or `onError` has thrown, nothing is compensated |
| `Compensate`, `CompensateThrows`, `Fail` | the way back, last step first (75-88), and the exception with `isCompensated` (90) |
| `Crash` | the process ends |

Properties: `FailureIsUndone`, `SuccessIsComplete`, `UndoRetracesSteps` (the way back never
leaves a hole), `ResumeKeepsEarlier` (a resumed run neither repeats nor undoes what is before
its label), `EveryRunEnds`. Assumed: a compensation that returns has undone its step and, like
an operation, does not undo another's; labels are unique.

### RabbitMq

One sending process, one worker process, the broker. To the broker a message of a work queue is
`ready`, `unacked` or `acked`; the worker process has a set of `handlers` at work, each with the
delivery tag of its message. The consumers of the three patterns have a connection each (`link`).
When one ends, the broker takes back what is unacknowledged on it, the connection manager connects
again with a new channel, on which tags count from one, and the handlers go on:
`outlived` says how many connections of its consumer a handler has seen end. `replies` counts,
for each correlation id, replies in the reply queue and replies that a consumer of another call holds.

| action | code (`UTIL/helpers/rabbitmq`) |
|---|---|
| `SendAsync` | `requestReply/producer` 23-68: a consumer on the reply queue, and the request |
| `Resolve`, `HoldReply` | the consumer's callback (33-57): its own correlation id, or another's, which it does not acknowledge |
| `SendJob`, `PublishAsync` | the other two producers; an exchange without a subscriber drops the event |
| `RunWorkers`, `Reconnect` | the worker process registers and starts all consumers; the connection manager connects one again |
| `Consume` | the broker delivers a message under the next tag of the channel; the subscriber has prefetch 1 |
| `OnMessage` | parse, and the handler of the message |
| `Reply`, `AckRequest` | `requestReply/consumer`: on the channel that the request came from |
| `HandlerThrows` | the same on a channel that has closed: an exception that nothing catches, and Node.js ends |
| `Ack` | `this.channel.ack(msg)` (`sendReceiver/consumer` 38) and the subscriber's: the tag goes to the channel of the day. It acknowledges its own message; or another one that has its tag there; or nothing, and the connection ends |
| `LoseLink`, `WorkerEnds`, `SenderReconnects`, `SenderEnds` | connections and processes end: the broker requeues, the exclusive queue of the subscriber goes |

Properties: `CallsAreRemote` (the module implements `RemoteCall`: own answers, after the work,
once), `NoCallLost`, `AnsweredOrHeld`, `QueuesRunEmpty`, and `WorkedAsSent`, which is about the stale
acknowledgements: one of them may take a job off its queue before its work is done. Then a handler still has
the job in hand, and only a second failure loses it.

Assumed: queues are declared before messages are sent, what the connection manager has
buffered is published in the end, a handler replies once; and the broker closes a channel
over a tag it does not know, which closes the connection, since nothing listens to the channel's
`error` event. The branch of `Resolve` that acknowledges an empty reply without resolving (41-47)
is left out: the replies of typed handlers are never empty.

### ApiServer

One process of the pm2 cluster. A request is its transaction: `accepted`, `working`,
`committing`, `committed`, `answered` or `failed`; what it writes is `CreateUser`'s.

| action | code |
|---|---|
| `Restart`, `RunServer` | pm2 starts `server.ts`, which builds the App and opens the port |
| `InitializeDatabase`, `InitializeFails` | the callback of `listen` (`app.ts` 86-100); nothing catches its error |
| `Accept`, `Begin`, `Commit`, `Committed`, `Answer`, `Fail` | a request through route, transactions wrapper and error middleware; the port is open before and after there is a pool |
| `CommitBreaks` | `UTIL/miscellaneous/transactions` 34-46: an error under the COMMIT is answered as an error, whether or not the COMMIT took effect |
| `Signal`, `SignalAgain` | `process.once` (179): a second server, its close, a timer; the next signal of the kind kills |
| `Closed`, `DestroyDatabase`, `Destroyed` | the callback of `close` (184-199): teardown, and exit 0 whether it fails or not |
| `ForceExit` | the timer of five seconds, or the logger's exit after the uncaught error of the second listen |
| `Kill` | the process manager or the operating system |

Properties: `AnswersAreTrue`, `WorkIsConnected`, `CleanExit`, `RequestsSettle`, `ServesAgain`.
The first says that a success is committed, and that a request answered with an error is committed only if its COMMIT
was on its way when the error came. The history variable `cut` holds those requests, whose connection broke
or was released by the teardown: their clients cannot know.
Assumed: Node.js 15 or later, where an unhandled rejection is an uncaught exception; the
logger's `handleExceptions` ends the process with code 1; pm2 restarts it after any exit; the
end of the pool cuts off connections in use.

## 3. Runs

| run | bounds | shows |
|---|---|---|
| `ViewStore` | 2 calls, 1 user, 3 versions, 2 faults (318,000 states) | `TypeOK`, `Fresh`, `StaleWriteBounded`, `LinearizableReads`, `ConnectedCallsReturn` |
| `OutboxOverlap` | 2 ticks, 2 rows, both statuses, 2 faults of every kind (755,000) | `TypeOK`, `CompletedMeansSent`, `WelcomeIsVersioned` |
| `OutboxOneTick` | 1 tick that takes 2 rows of 3, both statuses, 1 fault of every kind (320,000) | `DuplicatesBounded`, `StrandedBounded`, `MailsAreSettled`, `PublishedOrStranded` |
| `OutboxTicksEnd` | 2 ticks, 2 rows, ACTIVE, one reply that may be lost (71,000) | `TicksEnd` |
| `CreateUser` | 3 requests: r1 and r2 share an email, r2 and r3 a mobile number; 2 faults (3,342) | `TypeOK`, `AllOrNothing`, `UniqueContact`, `EventsFollowCommit`, `RegistersAtomically`, `AllAnswered` |
| `SharedCache` | 2 jobs, 2 users of whom one is INACTIVE, 2 versions, 2 faults (359,000) | `TypeOK`, `OwnView`, `ConvergesAlone` |
| `Saga` | all sagas of 3 steps with 0 or 2 attempts and each kind of action, 2 tries in a retry, 2 runs (283,000) | `TypeOK`, `FailureIsUndone`, `SuccessIsComplete`, `UndoRetracesSteps`, `ResumeKeepsEarlier`, `EveryRunEnds` |
| `RabbitMq` | the three messages of a set in `MCWorkloads`, two of one kind and one of another, out of 2 calls, 2 jobs and 2 events; 1 fault (248,000) | `TypeOK`, `CallsAreRemote`, `NoCallLost`, `WorkedAsSent`, `AnsweredOrHeld`, `QueuesRunEmpty` |
| `ApiServer` | 2 requests, 2 signals sent up to 3 times, 2 faults (13,900) | `TypeOK`, `AnswersAreTrue`, `WorkIsConnected`, `CleanExit`, `RequestsSettle`, `ServesAgain` |

Why the bounds are enough to be interesting: two calls and two commits are what a stale SET
over a newer view takes, and keys of different users share nothing; two jobs for two users are
what it takes to mix results; two ticks and two rows are what a deadlock takes, and a reversal
after a completion; two faults let a fault strike the recovery from another. Three rows and ticks
of two are what it takes to starve a row; the tick alone meets one fault, after which every row that is
left must be accounted for. `OutboxTicksEnd` is about locks: reversals and completions take them in the same
way, so one status will do, and a lost reply is the fault that could hold them. Three requests
in a chain give one that waits for two. Three steps leave something to undo on both sides of a
failed compensation, and the second run is the one that resumes; exceptions and failures are not
bounded. Two calls are what a reply in the wrong hands takes, and one fault sends back
what they hold; two messages of one kind meet on one channel, which is what an acknowledgement of the
wrong one takes, and the third is of a kind that suffers when the process ends over it. One fault is where
`WorkedAsSent` is strict: it excuses a lost job only after two. Three signals are both kinds and one
repeated; two faults are a failed initialization and the kill of the process that came after it. `MaxSends`
caps a counter that is compared with small numbers only (in `OutboxOneTick` it is 3, and
`DuplicatesBounded` allows 2). What holds beyond the bounds is proved (section 5).

`CHECK_DEADLOCK FALSE` is set where the system may really stop: the outbox (when all rows are
done, a tick that finds nothing changes nothing), the command (all requests are answered), the
shared cache (the queue is empty), the saga (its runs are over) and RabbitMQ (its messages are
acknowledged). In `ViewStore` and `ApiServer` there is always a further call or request, and
deadlock is checked.

### Where the code and its documentation disagree

Each of these runs ends with a counterexample.

| run | documentation | what the code does |
|---|---|---|
| `OutboxAsShipped` / `ReliablePublishing` | README.md 190: "reliable event publishing" | settings rows are stored ACTIVE (`mapEntity` 96) and looked up INACTIVE (`updateEmail` 65): every email is sent, its row reversed, and sent again by each later tick |
| `SharedCacheMixed` / `Converges` | README.md 16: "Eventual consistency between write model and view state" | two refresh jobs share one map of results (`set` 40): one stores the other's user again, and its own client keeps no view or an old one, though both jobs complete |
| `ApiServerShutdown` / `DrainedBeforeTeardown` | `app.ts` 180, 185: "Starting graceful shutdown...", "HTTP server closed." | the handler closes a server it has just made (182): the one that serves keeps its requests, and the teardown cuts their transactions off |

More behaviours follow from the code and are in the models without a run of their own.

* A call that starts while Redis is down waits in `init` (239), outside breaker and fallback, for as
  long as Redis stays away, and a call that has sent its SET waits for a silent Redis:
  `ConnectedCallsReturn` is about calls that have connected, and names the SET.
* A crash between claim and commit leaves a row PROCESSING and locked, and `lockedAt` is never read; so
  does a worker that answers before it is waited for, with nothing failed at all. `StrandedBounded` and
  `PublishedOrStranded` name both.
* Two overlapping ticks may claim the same row, since the SELECT locks nothing and the UPDATE is by ids
  only: `OutboxOverlap` shows what holds in spite of that.
* The refresh after a welcome email is published before its batch commits (`publishEvent` 172), so its job may
  read, and store last, the row as it was. As shipped this line is not reached, because `updateEmail` fails before
  it (`ReliablePublishing`); for settings rows that it finds, `ConvergesAlone` promises no more than
  what was committed at the publication.
* An acknowledgement on the wrong channel may take a job off its queue that is still being worked on
  (`WorkedAsSent`).

`SharedCacheMixed` breaks the promise about keys in Redis, not about
answers: for those, `Fresh` and `LinearizableReads` hold. No query reads the key of a client yet; the next one that does
must compare versions as the query by identifier does. That the refresh of a new user is
published by a task after the commit (`CU/commands` 255) and lost with its process is a fault of
`CreateUser` (`PublishFails`, `Crash`); the first query then fills the key.

## 4. Fairness

* `ViewStore`: weak fairness of the steps a begun call carries on with. The event loop runs
  continuations, the drivers answer or fail, the breaker times out after 5 s. Nothing is
  assumed of commits, new calls, faults, or of Redis coming back or answering again.
* `CreateUser`: weak fairness of the steps of a request taken up and of its task. A blocked
  insert is not enabled, so waiting is not assumed away.
* `WelcomeEmailOutbox`: the cron job fires again and again (`Select`), what a tick has begun
  goes on, the worker takes jobs, Postgres finds deadlocks after its timeout: weak fairness. A claim and
  a handler are strongly fair, since a statement that waits for a row lock is not enabled while
  another transaction holds it, and Postgres hands the lock to whoever has waited longest; weak
  fairness would let tick after tick snatch it away. `ReplyMissed`, faults and the creation of rows are
  not fair: a race may be won or lost each time.
* `SharedCache`: a begun job goes on, the worker takes jobs from the queue, and a task that was
  started publishes. Commits of either writer, the end of a batch and faults are not fair.
* `Saga`: a begun run goes on. Nothing is assumed of whether operations succeed.
* `RabbitMq`: pm2 restarts the worker, the connection manager connects again, the broker delivers
  what it has to *some* consumer, and handlers end. That it ever picks the right consumer of the reply queue is not assumed.
* `ApiServer`: the process is restarted, initialization ends one way or the other, timers run
  out, the database answers. That the pool ever ends, and the callback of `close`, are not
  assumed: the timer is there for that.

Violations of liveness are found under these same assumptions, so they are not due to a
process that simply stops.

## 5. Proofs

TLAPS checks every theorem below for all values of the constants that satisfy the named
assumptions (`MaxVersion`, `MaxFaults` naturals; `Rows`, `Ticks` finite; and so on).

| theorem | statement |
|---|---|
| `ViewStoreProofs!TypeCorrect`, `Freshness`, `BoundedStaleness`, `Linearizability` | `Spec` implies `[]TypeOK`, `[]Fresh`, `StaleWriteBounded`, `LinearizableReads` |
| `OneTickProofs!FewDuplicates`, `FewStranded`, `MailsSettled` | with one tick at a time, `Spec` implies `[]DuplicatesBounded`, `[]StrandedBounded`, `MailsAreSettled` |
| `SagaProofs!TypeCorrect`, `Undone`, `Complete`, `Retraced`, `EarlierKept` | `Spec` implies `[]TypeOK`, `[]FailureIsUndone`, `[]SuccessIsComplete`, `[]UndoRetracesSteps`, `ResumeKeepsEarlier` |
| `RabbitMqProofs!TypeCorrect`, `CallsKept`, `AtLeastOnce`, `CallsRemote` | `Spec` implies `[]TypeOK`, `[]NoCallLost`, `[]WorkedAsSent`, `CallsAreRemote` |
| `ApiServerProofs!TypeCorrect`, `AnswersTrue`, `WorkConnected`, `CleanExits` | `Spec` implies `[]TypeOK`, `[]AnswersAreTrue`, `[]WorkIsConnected`, `[]CleanExit` |
| `SharedCacheProofs!TypeCorrect`, `ClientsOwnTheirViews` | `Spec` implies `[]TypeOK`, `[]OwnView` |
| `CreateUserProofs!TypeCorrect`, `Atomicity`, `Uniqueness`, `EventOrder`, `AtomicRegistrations` | `Spec` implies `[]TypeOK`, `[]AllOrNothing`, `[]UniqueContact`, `[]EventsFollowCommit`, `RegistersAtomically` |
| `WelcomeEmailOutboxProofs!TypeCorrect`, `CompletedIsSent`, `WelcomeVersioned` | `Spec` implies `[]TypeOK`, `[]CompletedMeansSent`, `[]WelcomeIsVersioned` |

Theorems that no run states. Those that belong to a liveness property are the provable part of it:
that work is bounded, that no state is a trap, or that a quiet state is a good one. What remains
of the property is that the steps which can be taken are taken, and TLC checks that.

| theorem | statement | belongs to |
|---|---|---|
| `SagaProofs!RunsDescend` | each step that a run takes by itself lowers a measure of five numbers, lexicographically (an order that the lemma `BelowIsWellFounded` shows to be well-founded) | `EveryRunEnds` |
| `ViewStoreProofs!CallsEnd` | a call of `handleAsync` takes eight steps at most | `ConnectedCallsReturn` |
| `CreateUserProofs!NoWaitingChains`, `Decision`, `RequestsEnd` | a request waits only for one that neither waits nor conflicts; conflicts are decided at the communications table; a request takes eleven steps at most | `AllAnswered` |
| `SharedCacheProofs!QuietConvergence` | while jobs never overlap, an idle worker with an empty queue has left every client a view as recent as its latest refresh asks, whatever else failed | `ConvergesAlone` |
| `RabbitMqProofs!EmptyQueues` | when the queues are empty, who still waits has its reply held by another's consumer | `AnsweredOrHeld` |
| `ApiServerProofs!NeverStranded`, `EndsCaused` | a process that is up serves, initializes or has a timer that ends it; it ends only after a fault or signal | `ServesAgain` |
| `WelcomeEmailOutboxProofs!NeverSentBack` | as long as nothing fails, an INACTIVE row leaves PROCESSING only as COMPLETED, for any overlap of ticks | `PublishedOrStranded` |
| `WelcomeEmailOutboxProofs!OnlyInactiveRecorded`, `NothingRecordedAsShipped` | only a row created INACTIVE is ever recorded; with the settings rows as the command stores them (`CreatedStatus = {"ACTIVE"}`), none is | finding `ReliablePublishing` |
| `RabbitMqProofs!OwnAnswer` | a resolved call has its own answer, whose work was done | `CallsAreRemote` |

The arguments:

* **ViewStore.** `Fresh` speaks of answers only, and is not inductive. `IInv` adds that no key
  is ahead of the database (`NeverAhead`; it takes care of snapshots that Redis restarts with)
  and that a call holds, from the statement that reads the row on, a view between its floor and
  the committed version (`Consistent`). `StaleWriteBounded` follows from it at `SetCache`
  and `SetThrows`, for the call that performs them. A hit becomes an answer only when it equals the
  committed version, and that is where a stale key drops out. The refinement maps a call to
  *effective* at that statement; the SET, the answer and the unwrapping stutter or return.
* **CreateUser.** `Sound` says which rows a request has written from where it is (`Prior`),
  and what its answer and event imply. `UniqueContact` is inductive with it only because it
  covers open transactions as well as committed ones. At its commit, nothing registered stands
  in the way of a request (`NothingInTheWay`), so the commit is an abstract registration.
  A request clashes, or waits, at the communications table only: who is past it holds an email
  that nobody else has there, so credentials cannot clash any more. Whoever is waited for is past
  it, and so waits for nobody: there is no circle, and no deadlock.
* **WelcomeEmailOutbox.** The two properties read committed rows, but a tick may commit at
  any time: `ItemOK` says that what is in a batch is already justified (an accepted item's
  email was sent, an item's row exists), and `RowOK` that what is committed is consistent.
  Claims, aborts and crashes preserve both for any number of overlapping ticks.
  `StatusOK` follows the status of a settings row from `CreatedStatus` through the batches: a
  handler completes an INACTIVE row only, and nothing changes the status, so rows created ACTIVE are
  never recorded, as shipped. `Steady` is the other side: an INACTIVE row is refused by a fault only.
* **SharedCache.** `OwnView` is about keys; what a job stores it took from the map. `IInv` adds
  that whatever is in the map or in the hands of a job is a committed view, of whichever user
  (`ContextCommitted`, `JobsOK`), that the map is not empty when a job reads it, and that events
  are of users with a committed row (`EventsCommitted`). `QuietConvergence` is proved along the
  behaviours that `ConvergesAlone` speaks of, faults among them: a job alone finds its own result in the map
  and its own client's key; either what it has read is as recent as the latest refresh asks, or another
  event waits or that refresh was given up (`Timely`, with `Provided`); and a user for whom no job is left
  is served (`Refreshed`). The version under a key may be above what was promised, when a batch commits between
  the publication and the read, so the invariant bounds it from below only.
* **One tick at a time** (`OneTickProofs`, under `OneTick`: `Ticks` has one element).
  `DuplicatesBounded` needs what a tick holds at each phase (`PhaseOK`, `Owned`) and, of the emails of a row,
  the count in two states: at most as many as faults while the row may still be sent, one more
  afterwards (`Counted`). `StrandedBounded` counts rows over the whole table: `Paid` says that the faults so far have
  paid, with a batch each, for the rows that were left (`Left`) and for those that the running batch will or
  may leave (`Doomed`, `Busy`); a batch holds `Take` rows at most. For the refinement of `WelcomeMail`, a tick
  works on PROCESSING rows only; and a job that nobody waits for any more, after a crash of the
  cron process or an exception of the producer, belongs to a row that is PROCESSING and in no batch, or one
  that its batch has abandoned (`Orphaned`), so the email it sends late is still sent for a row at work.
* **Saga.** From its label on a run has executed exactly the steps with attempts (`Forward`), and
  a step at work that has come to a success stands (`AtWork`). On the way back the steps still to
  undo are a first part of the executed ones and stand; the others do not, unless a compensation
  threw (`Backward`): `FailureIsUndone` is the case where none is left.
  The measure counts, from the outside in: stages of the run, steps to take or to undo, attempts,
  how far the action's call of the wrapper is, tries in a retry. A call of the wrapper again raises
  only what is to its right.
* **RabbitMq.** `IInv` has three parts. `Hands`: what is unacknowledged is in the hands of a handler on the same
  channel (`InHand`), and tags tell such handlers apart (`Distinct`), so that an acknowledgement hits one message
  at most. `Callers`: a waiting caller's request is unreplied or a reply to it counted, which requeueing
  keeps; requests are acknowledged on their own channel only, after the work. `Blamed`: a job may have left its
  queue unworked only on a consumer that is astray, because a handler of it has outlived a connection; every
  consumer astray has had a failure of its own; and losing the handler that still has the job in hand takes one
  more. For `RemoteCall`, a request is on its way only for a call that was made, a consumer listens only
  for a call that was not lost, and only a resolved call has an answer (`Linked`).
* **ApiServer.** `AnswersAreTrue` needs that what is not past its COMMIT is not committed and what is
  past it is (`BeforeCommit`, `PastCommit`), and that a COMMIT that was cut off is not answered as a success
  (`CutFails`), across every step that cuts transactions off; `CleanExit`
  that the pool ends only for a handler that waits for it (`SomeoneTears`). `NoneStranded` is inductive
  as it stands: whatever takes the database away starts a timer first or ends the process.

Only model-checked: liveness under fairness (`ConnectedCallsReturn`, `AllAnswered`,
`TicksEnd`, `PublishedOrStranded`, `ConvergesAlone`, `EveryRunEnds`, `AnsweredOrHeld`, `QueuesRunEmpty`,
`RequestsSettle`, `ServesAgain`), which is out of the prover's reach: TLAPS has neither `ENABLED`, which
weak fairness is defined by, nor an induction over a well-founded order whose predicate is temporal.
The second table above says what is proved towards them; that `TicksEnd`, `QueuesRunEmpty` and
`RequestsSettle` hold is TLC's alone. Every other property of the passing runs is proved.

## 6. State of the plan

Done: the read path, the write path, the outbox, the refresh worker, the saga with its wrappers,
the RabbitMQ patterns and the life of an API process, with the safety properties and the refinements
of all of them proved, and for seven of the ten liveness properties what bounds or excludes their failure.

Left to prove: a bound on the steps of one tick (its batch is finite, each phase takes an item away),
which is what `TicksEnd` and, besides `NeverSentBack`, `PublishedOrStranded` lack; the same for the broker's queues
(`QueuesRunEmpty`), where each failure requeues and failures are bounded; and for the requests of an API
process (`RequestsSettle`).

Left to model:

1. `ViewSystem`: `ViewStore` composed with the queue and worker of `SharedCache` and the writers
   of `CreateUser` and `WelcomeEmailOutbox`. `SharedCache` has the two writers in outline; beyond that
   the modules are tied by assumption: each takes from the others what those promise (an atomic read, a
   version that moves with every change).
2. The circuit breaker's window and half-open state and the Redis client that every `init` replaces,
   which are faults without structure in `ViewStore`.

## 7. Not modelled

* Cryptography, hashing, validation rules, mapping of DTOs: pure; a step that may fail.
* Middlewares (authentication, rate limit, throttling, IP filter), Swagger, tRPC, logging:
  configuration of libraries around a request.
* Kafka and Pusher wrappers and the thread pool: thin layers over client libraries, used by no
  feature. Consul and Axios: used by no feature, pure I/O.
* Of the wrappers that are modelled: the pipeline variants of `tryCatch` (the same code over
  another result type), `ifElseStep`, the sequential batch, closing of queues, consumers that the
  broker cancels.
* Configuration, migrations, Docker and nginx files.
* The email itself: `EmailSentService` writes a line to the console and stands for a real
  sender; `sent` counts its calls.
