------------------------------ MODULE ViewStore ------------------------------
(***************************************************************************)
(* The materialized user view: RedisStoreWrapper.handleAsync serving the   *)
(* key user-<identifier> through SetUserByIdentifierCacheService.  The     *)
(* same call is made by the queries of the API processes and by the        *)
(* refresh jobs of the BullMQ worker, all at once and against one Redis    *)
(* and one Postgres.  Every await of the code is a step of its own.        *)
(*                                                                         *)
(* A view is identified by the version of the users row it was joined      *)
(* with: the join is one statement, so its columns are of one commit.      *)
(***************************************************************************)
EXTENDS Naturals, FiniteSets

CONSTANTS
  Users,       \* users the system knows of
  NoUser,      \* the user of a call slot that is free
  Calls,       \* slots for concurrent handleAsync calls
  MaxVersion,  \* bound on the row version of a user
  MaxFaults    \* bound on faults of Redis, Postgres and the processes

ASSUME UsersAssumption == NoUser \notin Users
ASSUME BoundsAssumption == MaxVersion \in Nat /\ MaxFaults \in Nat

VARIABLES
  version,   \* version[u]: version column of the committed users row, 0 if none
  cache,     \* cache[u]: version of the view stored under user-<u>, 0 if no key
  redis,     \* "up", "silent" (connected, but no command is answered) or "down"
  call,      \* call[c]: the handleAsync call in slot c
  faults     \* faults so far

vars == <<version, cache, redis, call, faults>>

-----------------------------------------------------------------------------
(***************************************************************************)
(* The state of a call.  "floor" is a history field, read by no action:    *)
(* the version of the user's row when the call began.                      *)
(***************************************************************************)
Versions == 0 .. MaxVersion
Phases ==
  {"idle", "init", "get", "rowVersion", "readDb", "set", "storing", "fallback", "done"}
Outcomes == {"none", "ok", "fallback", "error"}

CallState ==
  [pc : Phases, user : Users \cup {NoUser}, floor : Versions,
   got : Versions, view : Versions, outcome : Outcomes]

Idle ==
  [pc |-> "idle", user |-> NoUser, floor |-> 0, got |-> 0, view |-> 0, outcome |-> "none"]

Began(u) ==
  [pc |-> "init", user |-> u, floor |-> version[u], got |-> 0, view |-> 0, outcome |-> "none"]

\* The call returns the view of version v.
Answer(c, v, outcome) ==
  call' = [call EXCEPT ![c].pc = "done", ![c].view = v, ![c].outcome = outcome]

\* The call returns an error without a fallback object.
Refuse(c) == Answer(c, 0, "error")

Goto(c, pc) == call' = [call EXCEPT ![c].pc = pc]

\* What the database has committed for the user of call c.
Committed(c) == version[call[c].user]

Fault ==
  /\ faults < MaxFaults
  /\ faults' = faults + 1

Init ==
  /\ version = [u \in Users |-> 0]
  /\ cache = [u \in Users |-> 0]
  /\ redis = "up"
  /\ call = [c \in Calls |-> Idle]
  /\ faults = 0

-----------------------------------------------------------------------------
(***************************************************************************)
(* Seeded bugs: the checks replace an operator below by one of these, and  *)
(* the property named in the comment must then fail.                       *)
(***************************************************************************)
\* TypeOK: the catch block does not ask whether the database found the user.
FallbackUnchecked(c) ==
  /\ call[c].pc = "fallback"
  /\ Answer(c, Committed(c), "fallback")
  /\ UNCHANGED <<version, cache, redis, faults>>

\* Fresh: the hit is refused only if it is newer than the row.
CheckRowVersionOneSided(c) ==
  /\ call[c].pc = "rowVersion"
  /\ IF Committed(c) = 0 THEN Refuse(c)
     ELSE IF call[c].got > Committed(c) THEN Goto(c, "readDb")
     ELSE Answer(c, call[c].got, "ok")
  /\ UNCHANGED <<version, cache, redis, faults>>

\* LinearizableReads: the cached view is served when the version query fails.
DbFailsServeCached(c) ==
  /\ call[c].pc \in {"rowVersion", "readDb", "fallback"}
  /\ Fault
  /\ IF call[c].got > 0 THEN Answer(c, call[c].got, "ok") ELSE Refuse(c)
  /\ UNCHANGED <<version, cache, redis>>

\* StaleWriteBounded: the mismatching hit is written back, not what was read.
SetCacheOldView(c) ==
  /\ call[c].pc = "storing"
  /\ redis = "up"
  /\ cache' = [cache EXCEPT ![call[c].user] = IF call[c].got > 0 THEN call[c].got ELSE call[c].view]
  /\ Answer(c, call[c].view, "ok")
  /\ UNCHANGED <<version, redis, faults>>

\* ConnectedCallsReturn: no timeout on the GET of a Redis that does not answer.
GetFailsNoTimeout(c) ==
  /\ call[c].pc = "get"
  /\ redis = "up"
  /\ Fault
  /\ Goto(c, "fallback")
  /\ UNCHANGED <<version, cache, redis>>

-----------------------------------------------------------------------------
(***************************************************************************)
(* The write side: a transaction that inserts the user, or changes its     *)
(* settings and bumps the row version with them, commits.                  *)
(***************************************************************************)
Commit(u) ==
  /\ version[u] < MaxVersion
  /\ version' = [version EXCEPT ![u] = @ + 1]
  /\ UNCHANGED <<cache, redis, call, faults>>

(***************************************************************************)
(* One call of handleAsync.                                                *)
(***************************************************************************)
HandleAsync(c, u) ==
  /\ call[c].pc = "idle"
  /\ call' = [call EXCEPT ![c] = Began(u)]
  /\ UNCHANGED <<version, cache, redis, faults>>

\* await init: the client connects, and tries again for as long as it cannot.
InitRedis(c) ==
  /\ call[c].pc = "init"
  /\ redis = "up"
  /\ Goto(c, "get")
  /\ UNCHANGED <<version, cache, redis, faults>>

\* init throws inside the try block: an address or a login that Redis refuses.
InitThrows(c) ==
  /\ call[c].pc = "init"
  /\ Fault
  /\ Goto(c, "fallback")
  /\ UNCHANGED <<version, cache, redis>>

\* The GET behind the circuit breaker answers: a miss or a hit.
GetCache(c) ==
  /\ call[c].pc = "get"
  /\ redis = "up"
  /\ call' = [call EXCEPT ![c].pc = IF cache[call[c].user] = 0 THEN "readDb" ELSE "rowVersion",
                          ![c].got = cache[call[c].user]]
  /\ UNCHANGED <<version, cache, redis, faults>>

\* The GET throws: not connected, timed out, or the breaker is open.
GetFails(c) ==
  /\ call[c].pc = "get"
  /\ IF redis = "up" THEN Fault ELSE UNCHANGED faults
  /\ Goto(c, "fallback")
  /\ UNCHANGED <<version, cache, redis>>

\* getRowVersionAsync, and the comparison that decides whether the hit stands.
CheckRowVersion(c) ==
  /\ call[c].pc = "rowVersion"
  /\ IF Committed(c) = 0 THEN Refuse(c)
     ELSE IF call[c].got # Committed(c) THEN Goto(c, "readDb")
     ELSE Answer(c, call[c].got, "ok")
  /\ UNCHANGED <<version, cache, redis, faults>>

\* setCacheDataAsync: the join over the five tables, one statement.
ReadDb(c) ==
  /\ call[c].pc = "readDb"
  /\ IF Committed(c) = 0 THEN Refuse(c)
     ELSE call' = [call EXCEPT ![c].pc = "set", ![c].view = Committed(c)]
  /\ UNCHANGED <<version, cache, redis, faults>>

\* RedisHelper.set finds itself connected and sends the SET.
SendSet(c) ==
  /\ call[c].pc = "set"
  /\ redis # "down"
  /\ Goto(c, "storing")
  /\ UNCHANGED <<version, cache, redis, faults>>

\* RedisHelper.set refuses because it is not connected: logged, and ignored.
SetRefused(c) ==
  /\ call[c].pc = "set"
  /\ IF redis = "down" THEN UNCHANGED faults ELSE Fault
  /\ Answer(c, call[c].view, "ok")
  /\ UNCHANGED <<version, cache, redis>>

\* The SET, awaited without breaker or timeout, stores what was read, whatever
\* the key holds by now; a silent Redis keeps its call waiting.
SetCache(c) ==
  /\ call[c].pc = "storing"
  /\ redis = "up"
  /\ cache' = [cache EXCEPT ![call[c].user] = call[c].view]
  /\ Answer(c, call[c].view, "ok")
  /\ UNCHANGED <<version, redis, faults>>

\* The connection breaks under the SET, before or after Redis executed it.
SetThrows(c) ==
  /\ call[c].pc = "storing"
  /\ redis # "down"
  /\ Fault
  /\ \/ cache' = [cache EXCEPT ![call[c].user] = call[c].view]
     \/ UNCHANGED cache
  /\ Refuse(c)
  /\ UNCHANGED <<version, redis>>

\* Redis is gone: the client rejects the commands that were on their way.
SetRejected(c) ==
  /\ call[c].pc = "storing"
  /\ redis = "down"
  /\ Refuse(c)
  /\ UNCHANGED <<version, cache, redis, faults>>

\* The catch block reads the database and attaches what it read to the error.
Fallback(c) ==
  /\ call[c].pc = "fallback"
  /\ IF Committed(c) = 0 THEN Refuse(c) ELSE Answer(c, Committed(c), "fallback")
  /\ UNCHANGED <<version, cache, redis, faults>>

\* A statement of the call fails.
DbFails(c) ==
  /\ call[c].pc \in {"rowVersion", "readDb", "fallback"}
  /\ Fault
  /\ Refuse(c)
  /\ UNCHANGED <<version, cache, redis>>

\* The caller takes the result: the query unwraps the fallback object.
Return(c) ==
  /\ call[c].pc = "done"
  /\ call' = [call EXCEPT ![c] = Idle]
  /\ UNCHANGED <<version, cache, redis, faults>>

(***************************************************************************)
(* The environment: the process of a call dies; Redis falls silent and     *)
(* answers again, or stops and starts with what its last snapshot held.    *)
(***************************************************************************)
Crash(c) ==
  /\ call[c].pc # "idle"
  /\ Fault
  /\ call' = [call EXCEPT ![c] = Idle]
  /\ UNCHANGED <<version, cache, redis>>

\* Redis stops answering without its connections closing: it is stuck, or the
\* network swallows what is sent.
RedisHangs ==
  /\ redis = "up"
  /\ Fault
  /\ redis' = "silent"
  /\ UNCHANGED <<version, cache, call>>

RedisAnswers ==
  /\ redis = "silent"
  /\ redis' = "up"
  /\ UNCHANGED <<version, cache, call, faults>>

RedisStop ==
  /\ redis # "down"
  /\ Fault
  /\ redis' = "down"
  /\ UNCHANGED <<version, cache, call>>

RedisStart ==
  /\ redis = "down"
  /\ redis' = "up"
  /\ \E saved \in [Users -> Versions] :
       /\ \A u \in Users : saved[u] <= version[u]
       /\ cache' = saved
  /\ UNCHANGED <<version, call, faults>>

-----------------------------------------------------------------------------
\* What the event loop and the drivers carry on with once a call has begun.
Proceed(c) ==
  \/ InitRedis(c) \/ GetCache(c) \/ GetFails(c) \/ CheckRowVersion(c)
  \/ ReadDb(c) \/ SendSet(c) \/ SetRefused(c) \/ SetCache(c) \/ SetRejected(c)
  \/ Fallback(c) \/ Return(c)

Next ==
  \/ \E u \in Users : Commit(u)
  \/ \E c \in Calls :
       \/ \E u \in Users : HandleAsync(c, u)
       \/ Proceed(c)
       \/ InitThrows(c)
       \/ SetThrows(c)
       \/ DbFails(c)
       \/ Crash(c)
  \/ RedisHangs \/ RedisAnswers
  \/ RedisStop \/ RedisStart

Spec == Init /\ [][Next]_vars

\* A begun call goes on; nothing is said of writers, of faults or of Redis.
Fairness == \A c \in Calls : WF_vars(Proceed(c))

FairSpec == Spec /\ Fairness
-----------------------------------------------------------------------------
(***************************************************************************)
(* Properties.                                                             *)
(***************************************************************************)
Typed ==
  /\ version \in [Users -> Versions]
  /\ cache \in [Users -> Versions]
  /\ redis \in {"up", "silent", "down"}
  /\ call \in [Calls -> CallState]
  /\ faults \in 0 .. MaxFaults

\* Every variable has its type, and so has every result: one that is Ok, or an
\* error with a fallback object, carries a view.
TypeOK ==
  /\ Typed
  /\ \A c \in Calls : call[c].outcome \in {"ok", "fallback"} => call[c].view # 0

\* Whichever way a call is answered (hit, miss, refill, refused SET, fallback),
\* the view is no older than the row was when the call began, and no newer
\* than the row is: a commit that a client has seen acknowledged is never
\* missing from a view it asks for afterwards, though SETs of concurrent calls
\* may put older views back under the key.
Fresh ==
  \A c \in Calls :
    call[c].outcome \in {"ok", "fallback"} =>
      /\ call[c].floor <= call[c].view
      /\ call[c].view \in 1 .. Committed(c)

\* Whatever changes a key while Redis runs is the SET of a call, and the view it
\* leaves was the committed one at some moment of that very call.
WriteIsRecent ==
  \A u \in Users :
    redis # "down" /\ cache'[u] # cache[u] =>
      \E c \in Calls :
        /\ call[c].pc = "storing" /\ call'[c].pc = "done"
        /\ call[c].user = u
        /\ cache'[u] \in call[c].floor .. version[u]

\* The key may go back to an older view, but a SET never brings back a view
\* from before the call that performs it, and never one the database has not
\* committed: staleness is bounded by the length of one call of handleAsync.
StaleWriteBounded == [][WriteIsRecent]_vars

\* The reads of this module, as AtomicView sees them: the read takes effect at
\* the statement whose result is returned, not at the GET and not at the SET.
AbstractRead(s) ==
  [phase |-> IF s.pc = "idle" THEN "free"
             ELSE IF s.outcome = "error" THEN "failed"
             ELSE IF s.pc \in {"set", "storing", "done"} THEN "effective"
             ELSE "invoked",
   user |-> s.user,
   view |-> s.view]

Abstract == INSTANCE AtomicView WITH read <- [c \in Calls |-> AbstractRead(call[c])]

\* The cache is transparent: handleAsync, with all its interleavings and
\* faults, implements atomic reads of the committed row.
LinearizableReads == Abstract!Spec

\* The one wait without an end: a SET that a silent Redis does not answer.
WaitsForSet(c) == call[c].pc = "storing" /\ redis = "silent"

\* A call that got its Redis connection is answered, also if Redis stops or falls
\* silent right then and stays so, unless it has sent its SET to a Redis that is
\* silent; and it is answered once that Redis answers again or is gone.  The GET
\* never keeps a call waiting: the breaker's timeout takes it to the fallback.
ConnectedCallsReturn ==
  \A c \in Calls :
    call[c].pc \notin {"idle", "init"} ~> call[c].pc = "idle" \/ WaitsForSet(c)
=============================================================================
