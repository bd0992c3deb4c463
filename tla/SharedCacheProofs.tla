-------------------------- MODULE SharedCacheProofs --------------------------
(***************************************************************************)
(* For any number of users, versions and concurrent refresh jobs: the       *)
(* refresh is typed, and the key of a client holds no view but its user's.  *)
(***************************************************************************)
EXTENDS SharedCache, FiniteSetTheorems, TLAPS

(***************************************************************************)
(* The inductive invariant.  OwnView is about keys only; what a job puts    *)
(* under one it took from the map, so all that is in the map and in the     *)
(* hands of a job is a committed view, though of whichever user.            *)
(***************************************************************************)
IsCommitted(v) == v.user \in Users /\ v.version \in 1 .. version[v.user]

\* Whatever is to be told of a user, or was, is about a row that is committed.
TellsOfRow(u) ==
  /\ owed[u] > 0 \/ pending[u] > 0 => version[u] > 0
  /\ open[u] => version[u] \in 1 .. MaxVersion - 1
  /\ promised[u] <= version[u]

EventsCommitted == \A u \in Users : TellsOfRow(u)

ContextCommitted == context = NoView \/ IsCommitted(context)

JobOK(s, held) ==
  \/ s = Idle
  \/ /\ s.pc # "idle"
     /\ s.user \in Users
     /\ version[s.user] > 0
     /\ s.pc \notin {"byIdentifier", "end"} => IsCommitted(s.entity)
     /\ s.pc = "result" => held # NoView

JobsOK == \A j \in Jobs : JobOK(job[j], context)

IInv == Typed /\ EventsCommitted /\ OwnView /\ ContextCommitted /\ JobsOK

-----------------------------------------------------------------------------
LEMMA NoViewTyped == NoView \in Views /\ ~ IsCommitted(NoView)
BY UsersAssumption, BoundsAssumption DEF NoView, Views, Versions, IsCommitted

LEMMA IdleTyped == Idle \in JobState
BY NoViewTyped DEF Idle, JobState, Phases

\* A job that is under way is of a user with a committed row.
LEMMA UnderWay ==
  ASSUME Typed, JobsOK, NEW j \in Jobs, job[j].pc # "idle"
  PROVE  /\ job[j] \in JobState
         /\ job[j].user \in Users
         /\ version[job[j].user] \in 1 .. MaxVersion
         /\ job[j].pc \notin {"byIdentifier", "end"} => IsCommitted(job[j].entity)
         /\ job[j].pc = "result" => context # NoView
BY BoundsAssumption DEF Typed, JobsOK, JobOK, Idle, Versions

\* A step that takes job j to state s, and does not empty the map, keeps the
\* jobs as they must be.
LEMMA OneJob ==
  ASSUME Typed, JobsOK, UNCHANGED version, context' = context \/ context' # NoView,
         NEW j \in Jobs, NEW s \in JobState, JobOK(s, context'),
         job' = [job EXCEPT ![j] = s]
  PROVE  job' \in [Jobs -> JobState] /\ JobsOK'
<1>1. job' \in [Jobs -> JobState]
  BY DEF Typed
<1>2. ASSUME NEW k \in Jobs PROVE JobOK(job[k], context)'
  <2>1. CASE k = j
    <3>1. job'[k] = s
      BY <2>1 DEF Typed
    <3>. QED  BY <3>1 DEF JobOK, IsCommitted
  <2>2. CASE k # j
    <3>1. job'[k] = job[k]
      BY <2>2 DEF Typed
    <3>2. JobOK(job[k], context)
      BY DEF JobsOK
    <3>. QED  BY <3>1, <3>2 DEF JobOK, IsCommitted
  <2>. QED  BY <2>1, <2>2
<1>. QED  BY <1>1, <1>2 DEF JobsOK

\* A slot that becomes free.
LEMMA Freed ==
  ASSUME Typed, JobsOK, UNCHANGED <<version, context>>, NEW j \in Jobs, Free(j)
  PROVE  job' \in [Jobs -> JobState] /\ JobsOK'
<1>1. JobOK(Idle, context')
  BY DEF JobOK, Idle, NoView
<1>. QED  BY <1>1, IdleTyped, OneJob DEF Free

\* A job whose work is done, or has failed.
LEMMA Ended ==
  ASSUME Typed, JobsOK, UNCHANGED <<version, context>>, NEW j \in Jobs, job[j].pc # "idle",
         Finish(j)
  PROVE  job' \in [Jobs -> JobState] /\ JobsOK'
<1> DEFINE s == [Idle EXCEPT !.pc = "end", !.user = job[j].user]
<1>1. job[j].user \in Users /\ version[job[j].user] > 0
  BY UnderWay
<1>2. s \in JobState /\ s.pc = "end" /\ s.user = job[j].user
  BY <1>1, NoViewTyped DEF Idle, JobState, Phases
<1>3. JobOK(s, context')
  BY <1>1, <1>2 DEF JobOK
<1>. QED  BY <1>2, <1>3, OneJob DEF Finish

\* A job with a committed view in hand that goes on.
LEMMA Went ==
  ASSUME Typed, JobsOK, UNCHANGED <<version, context>>, NEW j \in Jobs, job[j].pc # "idle",
         NEW p \in {"settle", "get", "rowVersion", "set"},
         NEW e \in Views, IsCommitted(e), NEW f \in Views,
         job' = [job EXCEPT ![j] = [job[j] EXCEPT !.pc = p, !.entity = e, !.cached = f]]
  PROVE  job' \in [Jobs -> JobState] /\ JobsOK'
<1> DEFINE s == [job[j] EXCEPT !.pc = p, !.entity = e, !.cached = f]
<1>1. job[j] \in JobState /\ job[j].user \in Users /\ version[job[j].user] > 0
  BY UnderWay
<1>2. s \in JobState
  BY <1>1 DEF JobState, Phases
<1>3. /\ s.pc = p /\ s.user = job[j].user /\ s.entity = e
  BY <1>1 DEF JobState
<1>4. JobOK(s, context')
  BY <1>1, <1>3 DEF JobOK, IsCommitted
<1>. QED  BY <1>2, <1>4, OneJob

-----------------------------------------------------------------------------
LEMMA InitInv == Init => IInv
<1> SUFFICES ASSUME Init PROVE IInv
  OBVIOUS
<1>1. Typed
  BY NoViewTyped, IdleTyped, BoundsAssumption DEF Init, Typed, Versions
<1>. QED  BY <1>1 DEF Init, IInv, EventsCommitted, TellsOfRow, OwnView, ContextCommitted, JobsOK, JobOK

\* A row only ever gets newer: what was committed stays so.
LEMMA Grows ==
  ASSUME IInv, version' \in [Users -> Versions], \A u \in Users : version[u] <= version'[u],
         UNCHANGED <<client, context, job>>
  PROVE  OwnView' /\ ContextCommitted' /\ JobsOK'
<1>1. \A u \in Users : version[u] \in Nat /\ version'[u] \in Nat
  BY BoundsAssumption DEF IInv, Typed, Versions
<1>2. ASSUME NEW v, IsCommitted(v) PROVE IsCommitted(v)'
  BY <1>1, <1>2 DEF IsCommitted
<1>3. OwnView'
  BY <1>1 DEF IInv, OwnView
<1>4. ContextCommitted'
  BY <1>2 DEF IInv, ContextCommitted, IsCommitted
<1>5. JobsOK'
  <2> SUFFICES ASSUME NEW j \in Jobs PROVE JobOK(job[j], context)'
    BY DEF JobsOK
  <2>1. JobOK(job[j], context)
    BY DEF IInv, JobsOK
  <2>. QED  BY <1>1, <1>2, <2>1 DEF JobOK, IsCommitted
<1>. QED  BY <1>3, <1>4, <1>5

LEMMA FaultTyped == ASSUME Typed, Fault PROVE faults' \in 0 .. MaxFaults
BY BoundsAssumption DEF Typed, Fault

\* The steps of the writers of u.
Write(u) ==
  \/ CreateUser(u) \/ WelcomeUser(u) \/ CommitBatch(u) \/ RollBackBatch(u)
  \/ Publish(u) \/ EventLost(u)

\* All that the writers may change, and what they leave alone but for u.
OnlyOf(u) ==
  /\ version' \in [Users -> Versions] /\ open' \in [Users -> BOOLEAN]
  /\ owed' \in [Users -> Nat] /\ pending' \in [Users -> Nat]
  /\ promised' \in [Users -> Versions]
  /\ \A w \in Users \ {u} :
       /\ version'[w] = version[w] /\ open'[w] = open[w] /\ owed'[w] = owed[w]
       /\ pending'[w] = pending[w] /\ promised'[w] = promised[w]

LEMMA OneWriter ==
  ASSUME IInv, NEW u \in Users, UNCHANGED <<client, context, job>>,
         faults' \in 0 .. MaxFaults, OnlyOf(u), version[u] <= version'[u], TellsOfRow(u)'
  PROVE  IInv'
<1>1. Typed'
  BY DEF IInv, Typed, OnlyOf
<1>2. \A w \in Users : version[w] <= version'[w]
  BY BoundsAssumption DEF IInv, Typed, Versions, OnlyOf
<1>3. ASSUME NEW w \in Users PROVE TellsOfRow(w)'
  <2>1. CASE w = u
    BY <2>1
  <2>2. CASE w # u
    BY <2>2 DEF IInv, EventsCommitted, TellsOfRow, OnlyOf
  <2>. QED  BY <2>1, <2>2
<1>. QED  BY <1>1, <1>2, <1>3, Grows DEF IInv, Typed, EventsCommitted

LEMMA WriteInv == ASSUME IInv, NEW u \in Users, Write(u) PROVE IInv'
<1>1. /\ version[u] \in Nat /\ owed[u] \in Nat /\ pending[u] \in Nat
      /\ promised[u] \in Nat /\ version[u] <= MaxVersion /\ MaxVersion \in Nat
      /\ TellsOfRow(u)
      /\ Versions = 0 .. MaxVersion
      /\ faults \in 0 .. MaxFaults
  BY BoundsAssumption DEF IInv, Typed, EventsCommitted, Versions
<1>2. /\ version \in [Users -> Versions] /\ open \in [Users -> BOOLEAN]
      /\ owed \in [Users -> Nat] /\ pending \in [Users -> Nat]
      /\ promised \in [Users -> Versions]
  BY DEF IInv, Typed
<1>3. Fault => faults' \in 0 .. MaxFaults
  BY FaultTyped DEF IInv
<1>4. CASE CreateUser(u)
  <2>1. /\ OnlyOf(u) /\ version[u] = 0 /\ version'[u] = 1
        /\ UNCHANGED <<open, pending, client, context, job, promised, faults>>
    BY <1>1, <1>2, <1>4 DEF CreateUser, OnlyOf
  <2>2. TellsOfRow(u)'
    BY <1>1, <2>1 DEF TellsOfRow
  <2>. QED  BY <1>1, <2>1, <2>2, OneWriter
<1>5. CASE WelcomeUser(u)
  <2>1. /\ OnlyOf(u) /\ version[u] \in 1 .. MaxVersion - 1
        /\ UNCHANGED <<version, pending, client, context, job, promised, faults>>
    BY <1>1, <1>2, <1>5 DEF WelcomeUser, OnlyOf
  <2>2. TellsOfRow(u)'
    BY <1>1, <2>1 DEF TellsOfRow
  <2>. QED  BY <1>1, <2>1, <2>2, OneWriter
<1>6. CASE CommitBatch(u)
  <2>1. version[u] \in 1 .. MaxVersion - 1
    BY <1>1, <1>6 DEF CommitBatch, TellsOfRow
  <2>2. /\ OnlyOf(u) /\ version'[u] = version[u] + 1 /\ ~open'[u]
        /\ UNCHANGED <<owed, pending, client, context, job, promised, faults>>
    BY <1>1, <1>2, <1>6, <2>1 DEF CommitBatch, OnlyOf
  <2>3. TellsOfRow(u)'
    BY <1>1, <2>1, <2>2 DEF TellsOfRow
  <2>. QED  BY <1>1, <2>2, <2>3, OneWriter
<1>7. CASE RollBackBatch(u)
  <2>1. /\ OnlyOf(u) /\ ~open'[u] /\ Fault
        /\ UNCHANGED <<version, owed, pending, client, context, job, promised>>
    BY <1>1, <1>2, <1>7 DEF RollBackBatch, OnlyOf
  <2>2. TellsOfRow(u)'
    BY <1>1, <2>1 DEF TellsOfRow
  <2>. QED  BY <1>1, <1>3, <2>1, <2>2, OneWriter
<1>8. CASE Publish(u)
  <2>1. /\ OnlyOf(u) /\ promised'[u] = version[u] /\ owed[u] > 0
        /\ UNCHANGED <<version, open, client, context, job, faults>>
    BY <1>1, <1>2, <1>8 DEF Publish, OnlyOf
  <2>2. TellsOfRow(u)'
    BY <1>1, <2>1 DEF TellsOfRow
  <2>. QED  BY <1>1, <2>1, <2>2, OneWriter
<1>9. CASE EventLost(u)
  <2>1. /\ OnlyOf(u) /\ owed[u] > 0 /\ Fault
        /\ UNCHANGED <<version, open, pending, client, context, job, promised>>
    BY <1>1, <1>2, <1>9 DEF EventLost, OnlyOf
  <2>2. TellsOfRow(u)'
    BY <1>1, <2>1 DEF TellsOfRow
  <2>. QED  BY <1>1, <1>3, <2>1, <2>2, OneWriter
<1>. QED  BY <1>4, <1>5, <1>6, <1>7, <1>8, <1>9 DEF Write

LEMMA StartInv == ASSUME IInv, NEW j \in Jobs, NEW u \in Users, Start(j, u) PROVE IInv'
<1> DEFINE s == [job[j] EXCEPT !.pc = "byIdentifier", !.user = u]
<1>1. /\ job[j] \in JobState /\ pending[u] \in Nat /\ pending[u] > 0 /\ version[u] > 0
      /\ job' = [job EXCEPT ![j] = s]
      /\ pending' = [pending EXCEPT ![u] = @ - 1]
      /\ UNCHANGED <<version, open, owed, client, context, promised, faults>>
  BY DEF IInv, Typed, EventsCommitted, TellsOfRow, Start, writers
<1>2. s \in JobState /\ s.pc = "byIdentifier" /\ s.user = u
  BY <1>1 DEF JobState, Phases
<1>3. JobOK(s, context')
  BY <1>1, <1>2 DEF JobOK
<1>4. job' \in [Jobs -> JobState] /\ JobsOK'
  BY <1>1, <1>2, <1>3, OneJob DEF IInv
<1>5. Typed'
  BY <1>1, <1>4 DEF IInv, Typed
<1>6. EventsCommitted'
  BY <1>1 DEF IInv, Typed, EventsCommitted, TellsOfRow
<1>. QED  BY <1>1, <1>4, <1>5, <1>6 DEF IInv, OwnView, ContextCommitted, IsCommitted

\* No promise is made: each is kept as it was, or given up.
NonePromised ==
  promised' \in [Users -> Versions] /\ \A u \in Users : promised'[u] \in {0, promised[u]}

LEMMA NothingNew == ASSUME Typed, UNCHANGED promised PROVE NonePromised
BY DEF Typed, NonePromised

LEMMA GivenUp == ASSUME Typed, NEW S, GiveUp(S) PROVE NonePromised
BY BoundsAssumption DEF Typed, NonePromised, GiveUp, Versions

\* What is told of the users stays about committed rows.
LEMMA StillTells ==
  ASSUME IInv, UNCHANGED writers, NonePromised,
         \A u \in Users : pending'[u] > 0 => version[u] > 0
  PROVE  EventsCommitted'
<1> SUFFICES ASSUME NEW u \in Users PROVE TellsOfRow(u)'
  BY DEF EventsCommitted
<1>1. /\ TellsOfRow(u) /\ version[u] \in Nat /\ promised[u] \in Nat
      /\ promised'[u] \in {0, promised[u]}
  BY BoundsAssumption DEF IInv, Typed, EventsCommitted, NonePromised, Versions
<1>. QED  BY <1>1 DEF TellsOfRow, writers

\* A step that only moves a job, or sets a key as OwnView asks, keeps the rest.
LEMMA JobStep ==
  ASSUME IInv, UNCHANGED <<writers, pending>>, NonePromised, faults' \in 0 .. MaxFaults,
         job' \in [Jobs -> JobState], JobsOK',
         context' = context \/ (context' \in Views /\ IsCommitted(context')),
         client' \in [Users -> Views], OwnView'
  PROVE  IInv'
<1>1. Typed'
  BY DEF IInv, Typed, writers, NonePromised
<1>2. ContextCommitted'
  BY DEF IInv, ContextCommitted, IsCommitted, writers
<1>3. EventsCommitted'
  BY StillTells DEF IInv, EventsCommitted, TellsOfRow
<1>. QED  BY <1>1, <1>2, <1>3 DEF IInv

LEMMA OnlyJob ==
  ASSUME IInv, UNCHANGED <<writers, pending, client, context>>, NonePromised,
         faults' \in 0 .. MaxFaults, job' \in [Jobs -> JobState], JobsOK'
  PROVE  IInv'
<1>1. client' \in [Users -> Views] /\ OwnView'
  BY DEF IInv, Typed, OwnView, writers
<1>. QED  BY <1>1, JobStep

LEMMA ByIdentifierInv == ASSUME IInv, NEW j \in Jobs, ByIdentifier(j) PROVE IInv'
<1> DEFINE e == [user |-> job[j].user, version |-> version[job[j].user]]
<1>1. /\ job[j] \in JobState /\ job[j].user \in Users /\ job[j].pc # "idle"
      /\ version[job[j].user] \in 1 .. MaxVersion
  BY UnderWay DEF IInv, ByIdentifier
<1>2. e \in Views /\ IsCommitted(e)
  BY <1>1, BoundsAssumption DEF Views, Versions, IsCommitted
<1>3. job[j].cached \in Views
  BY <1>1 DEF JobState
<1>4. /\ job' = [job EXCEPT ![j] = [job[j] EXCEPT !.pc = "settle", !.entity = e,
                                                  !.cached = job[j].cached]]
      /\ UNCHANGED <<writers, pending, client, context, promised, faults>>
  BY <1>1 DEF ByIdentifier, JobState, IInv, Typed
<1>5. job' \in [Jobs -> JobState] /\ JobsOK'
  BY <1>1, <1>2, <1>3, <1>4, Went DEF IInv, writers
<1>. QED  BY <1>4, <1>5, NothingNew, OnlyJob DEF IInv, Typed

LEMMA FailsInv ==
  ASSUME IInv, NEW j \in Jobs, ByIdentifierFails(j) \/ ByClientIdFails(j) PROVE IInv'
<1>1. /\ Fault /\ job[j].pc # "idle" /\ Finish(j) /\ GiveUp({job[j].user})
      /\ UNCHANGED <<writers, pending, client, context>>
  BY DEF ByIdentifierFails, ByClientIdFails
<1>2. job' \in [Jobs -> JobState] /\ JobsOK'
  BY <1>1, Ended DEF IInv, writers
<1>. QED  BY <1>1, <1>2, FaultTyped, GivenUp, OnlyJob DEF IInv

LEMMA EndInv == ASSUME IInv, NEW j \in Jobs, End(j) PROVE IInv'
<1>1. /\ Free(j) /\ UNCHANGED <<writers, pending, client, context, promised, faults>>
  BY DEF End
<1>2. job' \in [Jobs -> JobState] /\ JobsOK'
  BY <1>1, Freed DEF IInv, writers
<1>. QED  BY <1>1, <1>2, NothingNew, OnlyJob DEF IInv, Typed

LEMMA JobThrowsInv == ASSUME IInv, NEW j \in Jobs, JobThrows(j) PROVE IInv'
<1>1. /\ Fault /\ Free(j) /\ UNCHANGED <<writers, client, context>>
      /\ pending' \in {pending, [pending EXCEPT ![job[j].user] = @ + 1]}
      /\ GiveUp({job[j].user})
      /\ job[j].pc # "idle"
  BY DEF JobThrows
<1>2. job[j].user \in Users /\ version[job[j].user] > 0
  BY <1>1, UnderWay DEF IInv
<1>3. pending' \in [Users -> Nat] /\ \A u \in Users : pending'[u] > 0 => version[u] > 0
  BY <1>1, <1>2 DEF IInv, Typed, EventsCommitted, TellsOfRow
<1>4. NonePromised
  BY <1>1, GivenUp DEF IInv
<1>5. job' \in [Jobs -> JobState] /\ JobsOK'
  BY <1>1, Freed DEF IInv, writers
<1>6. Typed'
  BY <1>1, <1>3, <1>4, <1>5, FaultTyped DEF IInv, Typed, writers, NonePromised
<1>7. EventsCommitted'
  BY <1>1, <1>3, <1>4, StillTells
<1>. QED  BY <1>1, <1>5, <1>6, <1>7 DEF IInv, OwnView, ContextCommitted, IsCommitted, writers

LEMMA SettleInv == ASSUME IInv, NEW j \in Jobs, Settle(j) PROVE IInv'
<1> DEFINE s == [job[j] EXCEPT !.pc = "result"]
<1>1. /\ job[j] \in JobState /\ job[j].user \in Users /\ version[job[j].user] > 0
      /\ IsCommitted(job[j].entity)
  BY UnderWay DEF IInv, Settle
<1>2. /\ context' = job[j].entity
      /\ job' = [job EXCEPT ![j] = s]
      /\ UNCHANGED <<writers, pending, client, promised, faults>>
  BY DEF Settle, Goto
<1>3. s \in JobState /\ s.pc = "result" /\ s.user = job[j].user /\ s.entity = job[j].entity
  BY <1>1 DEF JobState, Phases
<1>4. context' \in Views /\ IsCommitted(context') /\ context' # NoView
  BY <1>1, <1>2, NoViewTyped DEF JobState
<1>5. JobOK(s, context')
  BY <1>1, <1>2, <1>3, <1>4 DEF JobOK, IsCommitted
<1>6. job' \in [Jobs -> JobState] /\ JobsOK'
  BY <1>2, <1>3, <1>4, <1>5, OneJob DEF IInv, writers
<1>7. client' \in [Users -> Views] /\ OwnView'
  BY <1>2 DEF IInv, Typed, OwnView, writers
<1>. QED  BY <1>2, <1>4, <1>6, <1>7, NothingNew, JobStep DEF IInv, Typed

LEMMA GetResultInv == ASSUME IInv, NEW j \in Jobs, GetResult(j) PROVE IInv'
<1>1. job[j] \in JobState /\ job[j].pc # "idle" /\ context # NoView
  BY UnderWay DEF IInv, GetResult
<1>2. context \in Views /\ IsCommitted(context) /\ job[j].cached \in Views
  BY <1>1 DEF IInv, Typed, ContextCommitted, JobState
<1>3. /\ job' = [job EXCEPT ![j] = [job[j] EXCEPT !.pc = "get", !.entity = context,
                                                  !.cached = job[j].cached]]
      /\ UNCHANGED <<writers, pending, client, context, promised, faults>>
  BY <1>1 DEF GetResult, JobState, IInv, Typed
<1>4. job' \in [Jobs -> JobState] /\ JobsOK'
  BY <1>1, <1>2, <1>3, Went DEF IInv, writers
<1>. QED  BY <1>3, <1>4, NothingNew, OnlyJob DEF IInv, Typed

LEMMA GetClientInv == ASSUME IInv, NEW j \in Jobs, GetClient(j) PROVE IInv'
<1> DEFINE found == client[job[j].entity.user]
           p == IF found = NoView THEN "set" ELSE "rowVersion"
<1>1. job[j] \in JobState /\ job[j].pc # "idle" /\ IsCommitted(job[j].entity)
  BY UnderWay DEF IInv, GetClient
<1>2. job[j].entity \in Views /\ found \in Views
  BY <1>1 DEF IInv, Typed, IsCommitted, JobState
<1>3. /\ job' = [job EXCEPT ![j] = [job[j] EXCEPT !.pc = p, !.entity = job[j].entity,
                                                  !.cached = found]]
      /\ UNCHANGED <<writers, pending, client, context, promised, faults>>
  BY <1>1 DEF GetClient, JobState, IInv, Typed
<1>4. p \in {"set", "rowVersion"}
  OBVIOUS
<1>5. job' \in [Jobs -> JobState] /\ JobsOK'
  BY <1>1, <1>2, <1>3, <1>4, Went DEF IInv, writers
<1>. QED  BY <1>3, <1>5, NothingNew, OnlyJob DEF IInv, Typed

LEMMA CheckRowVersionInv == ASSUME IInv, NEW j \in Jobs, CheckRowVersion(j) PROVE IInv'
<1>1. UNCHANGED <<writers, pending, client, context, promised, faults>>
  BY DEF CheckRowVersion
<1>2. CASE Finish(j)
  BY <1>1, <1>2, Ended, NothingNew, OnlyJob DEF IInv, Typed, CheckRowVersion, writers
<1>3. CASE Goto(j, "set")
  <2>1. job[j] \in JobState /\ job[j].pc # "idle" /\ IsCommitted(job[j].entity)
    BY UnderWay DEF IInv, CheckRowVersion
  <2>2. job[j].entity \in Views /\ job[j].cached \in Views
    BY <2>1 DEF JobState
  <2>3. job' = [job EXCEPT ![j] = [job[j] EXCEPT !.pc = "set", !.entity = job[j].entity,
                                                 !.cached = job[j].cached]]
    BY <1>3, <2>1 DEF Goto, JobState, IInv, Typed
  <2>4. job' \in [Jobs -> JobState] /\ JobsOK'
    BY <1>1, <2>1, <2>2, <2>3, Went DEF IInv, writers
  <2>. QED  BY <1>1, <2>4, NothingNew, OnlyJob DEF IInv, Typed
<1>. QED  BY <1>2, <1>3 DEF CheckRowVersion

\* Key and view come from one result: whose it is does not matter.
LEMMA SetClientInv == ASSUME IInv, NEW j \in Jobs, SetClient(j) PROVE IInv'
<1> DEFINE e == job[j].entity
<1>1. job[j] \in JobState /\ IsCommitted(e)
  BY UnderWay DEF IInv, SetClient
<1>2. /\ client' = [client EXCEPT ![e.user] = e]
      /\ Finish(j) /\ job[j].pc # "idle"
      /\ UNCHANGED <<writers, pending, context, promised, faults>>
  BY DEF SetClient
<1>3. client' \in [Users -> Views]
  BY <1>1, <1>2 DEF IInv, Typed, JobState
<1>4. OwnView'
  <2> SUFFICES ASSUME NEW u \in Users, client'[u] # NoView
               PROVE  client'[u].user = u /\ client'[u].version \in 1 .. version[u]
    BY <1>2 DEF OwnView, writers
  <2>1. CASE u = e.user
    <3>1. client'[u] = e
      BY <1>2, <2>1 DEF IInv, Typed
    <3>. QED  BY <1>1, <2>1, <3>1 DEF IsCommitted
  <2>2. CASE u # e.user
    <3>1. client'[u] = client[u]
      BY <1>2, <2>2 DEF IInv, Typed
    <3>. QED  BY <3>1 DEF IInv, OwnView
  <2>. QED  BY <2>1, <2>2
<1>5. job' \in [Jobs -> JobState] /\ JobsOK'
  BY <1>2, Ended DEF IInv, writers
<1>. QED  BY <1>2, <1>3, <1>4, <1>5, NothingNew, JobStep DEF IInv, Typed

LEMMA WorkerCrashInv == ASSUME IInv, WorkerCrash PROVE IInv'
<1>1. PICK again \in SUBSET {j \in Jobs : job[j].pc # "idle"} :
        pending' = [u \in Users |-> pending[u] + Cardinality({j \in again : job[j].user = u})]
  BY DEF WorkerCrash
<1>2. /\ Fault /\ job' = [j \in Jobs |-> Idle] /\ context' = NoView
      /\ GiveUp({job[j].user : j \in Jobs})
      /\ UNCHANGED <<writers, client>>
  BY DEF WorkerCrash
<1>3. ASSUME NEW u \in Users
      PROVE  pending'[u] \in Nat /\ (pending'[u] > 0 => version[u] > 0)
  <2> DEFINE S == {j \in again : job[j].user = u}
  <2>1. IsFiniteSet(S)
    BY JobsAssumption, FS_Subset
  <2>2. Cardinality(S) \in Nat /\ (S = {} => Cardinality(S) = 0)
    BY <2>1, FS_CardinalityType, FS_EmptySet
  <2>3. pending'[u] = pending[u] + Cardinality(S) /\ pending[u] \in Nat
    BY <1>1 DEF IInv, Typed
  <2>4. ASSUME NEW j \in S PROVE version[u] > 0
    BY UnderWay DEF IInv
  <2>5. CASE S = {}
    BY <2>2, <2>3, <2>5 DEF IInv, EventsCommitted, TellsOfRow
  <2>6. CASE S # {}
    BY <2>2, <2>3, <2>4, <2>6
  <2>. QED  BY <2>5, <2>6
<1>4. NonePromised
  BY <1>2, GivenUp DEF IInv
<1>5. Typed'
  <2>1. pending' \in [Users -> Nat]
    BY <1>1, <1>3
  <2>. QED  BY <1>2, <1>4, <2>1, FaultTyped, IdleTyped, NoViewTyped
            DEF IInv, Typed, writers, NonePromised
<1>6. EventsCommitted'
  BY <1>2, <1>3, <1>4, StillTells
<1>7. OwnView' /\ ContextCommitted' /\ JobsOK'
  BY <1>2 DEF IInv, OwnView, ContextCommitted, JobsOK, JobOK, Idle, NoView, writers
<1>. QED  BY <1>5, <1>6, <1>7 DEF IInv

LEMMA RedisRestartInv == ASSUME IInv, RedisRestart PROVE IInv'
<1>1. PICK saved \in [Users -> Versions] :
        /\ \A u \in Users : saved[u] <= version[u]
        /\ client' = [u \in Users |->
             IF saved[u] = 0 THEN NoView ELSE [user |-> u, version |-> saved[u]]]
  BY DEF RedisRestart
<1>2. Fault /\ GiveUp(Users) /\ UNCHANGED <<writers, pending, context, job>>
  BY DEF RedisRestart
<1>3. client' \in [Users -> Views]
  BY <1>1, NoViewTyped DEF Views
<1>4. OwnView'
  <2> SUFFICES ASSUME NEW u \in Users, client'[u] # NoView
               PROVE  client'[u].user = u /\ client'[u].version \in 1 .. version[u]
    BY <1>2 DEF OwnView, writers
  <2>1. /\ client'[u] = [user |-> u, version |-> saved[u]]
        /\ saved[u] # 0 /\ saved[u] \in Versions /\ saved[u] <= version[u]
        /\ version[u] \in Versions
    BY <1>1 DEF IInv, Typed
  <2>. QED  BY <2>1, BoundsAssumption DEF Versions
<1>5. job' \in [Jobs -> JobState] /\ JobsOK'
  BY <1>2 DEF IInv, Typed, JobsOK, JobOK, IsCommitted, writers
<1>. QED  BY <1>2, <1>3, <1>4, <1>5, FaultTyped, GivenUp, JobStep DEF IInv

LEMMA NextInv == ASSUME IInv, [Next]_vars PROVE IInv'
<1>1. ASSUME NEW u \in Users, Write(u) PROVE IInv'
  BY <1>1, WriteInv
<1>2. ASSUME NEW j \in Jobs, \E u \in Users : Start(j, u) PROVE IInv'
  BY <1>2, StartInv
<1>3. ASSUME NEW j \in Jobs, Proceed(j) PROVE IInv'
  BY <1>3, ByIdentifierInv, SettleInv, GetResultInv, GetClientInv, CheckRowVersionInv,
     SetClientInv, EndInv DEF Proceed
<1>4. ASSUME NEW j \in Jobs, ByIdentifierFails(j) \/ ByClientIdFails(j) \/ JobThrows(j)
      PROVE  IInv'
  BY <1>4, FailsInv, JobThrowsInv
<1>5. CASE WorkerCrash
  BY <1>5, WorkerCrashInv
<1>6. CASE RedisRestart
  BY <1>6, RedisRestartInv
<1>7. CASE UNCHANGED vars
  <2>1. EventsCommitted' /\ ContextCommitted' /\ JobsOK'
    BY <1>7 DEF IInv, vars, EventsCommitted, TellsOfRow, ContextCommitted, JobsOK, JobOK, IsCommitted
  <2>2. Typed' /\ OwnView'
    BY <1>7 DEF IInv, vars, Typed, OwnView
  <2>. QED  BY <2>1, <2>2 DEF IInv
<1>. QED  BY <1>1, <1>2, <1>3, <1>4, <1>5, <1>6, <1>7 DEF Next, Write

THEOREM Invariance == Spec => []IInv
<1>1. Init => IInv
  BY InitInv
<1>2. IInv /\ [Next]_vars => IInv'
  BY NextInv
<1>. QED  BY <1>1, <1>2, PTL DEF Spec

\* Every reachable state of the refresh is well typed.
THEOREM TypeCorrect == Spec => []TypeOK
<1>1. IInv => TypeOK
  BY DEF IInv, TypeOK, EventsCommitted, TellsOfRow
<1>. QED  BY <1>1, Invariance, PTL

\* The key of a client holds a committed view of its own user or none, however
\* many jobs mix their results in the map of the pipeline.
THEOREM ClientsOwnTheirViews == Spec => []OwnView
<1>1. IInv => OwnView
  BY DEF IInv
<1>. QED  BY <1>1, Invariance, PTL
-----------------------------------------------------------------------------
(***************************************************************************)
(* Jobs that never overlap.                                                 *)
(***************************************************************************)
\* No two jobs are under way: what ConvergesAlone asks for.
Alone == Cardinality(Busy) <= 1

AtWork(j) == job[j].pc \notin {"idle", "end"}

\* A job alone finds its own result in the map.
HasOwn(j) ==
  /\ job[j].pc # "byIdentifier" => job[j].entity.user = job[j].user
  /\ job[j].pc = "result" => context = job[j].entity

\* What the job has read is as recent as the refresh asks for, and what it found
\* under the key is still there.
OnCourse(j) ==
  /\ job[j].pc # "byIdentifier" => job[j].entity.version >= promised[job[j].user]
  /\ job[j].pc = "rowVersion" => job[j].cached = client[job[j].user]

\* Another job will carry out the refresh of u, or it has been given up.
Provided(u) == pending[u] > 0 \/ promised[u] = 0

Timely == \A j \in Jobs : AtWork(j) => HasOwn(j) /\ (Provided(job[j].user) \/ OnCourse(j))

\* A client whose user no job has to refresh any more is served.
Refreshed ==
  \A u \in Users : Provided(u) \/ (\E j \in Jobs : AtWork(j) /\ job[j].user = u) \/ Served(u)

\* With the queue empty and the worker idle every client is served.
QuietIsServed == Busy = {} /\ (\A u \in Users : pending[u] = 0) => \A u \in Users : Served(u)

LEMMA AtMostOne ==
  ASSUME NEW S, IsFiniteSet(S), Cardinality(S) <= 1, NEW x \in S, NEW y \in S
  PROVE  x = y
<1>1. Cardinality(S) \in Nat
  BY FS_CardinalityType
<1>2. CASE Cardinality(S) = 0
  BY <1>2, FS_EmptySet
<1>3. CASE Cardinality(S) = 1
  <2>1. \E z : S = {z}
    BY <1>3, FS_Singleton
  <2>. QED  BY <2>1
<1>. QED  BY <1>1, <1>2, <1>3

\* The other slots are free, before a step of a job and after it.
LEMMA OthersIdle ==
  ASSUME Alone, NEW j \in Jobs, job[j].pc # "idle", NEW k \in Jobs \ {j}
  PROVE  job[k].pc = "idle"
<1>1. IsFiniteSet(Busy)
  BY JobsAssumption, FS_Subset DEF Busy
<1>. QED  BY <1>1, AtMostOne DEF Alone, Busy

\* What the step of a job leaves of the users other than its own.
Spares(u) ==
  \A w \in Users \ {u} :
    client'[w] = client[w] /\ pending'[w] = pending[w] /\ promised'[w] = promised[w]

\* A step of the only job: it stays timely while it is at work, and has served the
\* client of its user, or the refresh is provided for, when it is done.
LEMMA AloneStep ==
  ASSUME Timely, Refreshed, NEW j \in Jobs, NEW u \in Users, job[j].user = u,
         \A k \in Jobs \ {j} : job[k].pc = "idle" /\ job'[k] = job[k],
         Spares(u),
         AtWork(j)' => job'[j].user = u /\ HasOwn(j)' /\ (Provided(u)' \/ OnCourse(j)'),
         ~AtWork(j)' => Provided(u)' \/ Served(u)'
  PROVE  Timely' /\ Refreshed'
<1>1. \A k \in Jobs : AtWork(k) \/ AtWork(k)' => k = j
  BY DEF AtWork
<1>2. Timely'
  BY <1>1 DEF Timely, Provided
<1>3. ASSUME NEW w \in Users
      PROVE  Provided(w)' \/ (\E k \in Jobs : AtWork(k)' /\ job'[k].user = w) \/ Served(w)'
  <2>1. CASE w = u
    BY <2>1
  <2>2. CASE w # u
    <3>1. Provided(w) \/ Served(w)
      BY <1>1, <2>2 DEF Refreshed
    <3>. QED  BY <2>2, <3>1 DEF Provided, Served, Spares
  <2>. QED  BY <2>1, <2>2
<1>. QED  BY <1>2, <1>3 DEF Refreshed

\* Writers do not touch what the jobs hold; an event that is published provides
\* for what it promises.
LEMMA AloneWrite ==
  ASSUME IInv, Timely, Refreshed, NEW u \in Users, Write(u) PROVE Timely' /\ Refreshed'
<1>1. UNCHANGED <<client, context, job>>
  BY DEF Write, CreateUser, WelcomeUser, CommitBatch, RollBackBatch, Publish, EventLost
<1>2. CASE UNCHANGED <<pending, promised>>
  BY <1>1, <1>2 DEF Timely, Refreshed, AtWork, HasOwn, OnCourse, Provided, Served
<1>3. CASE Publish(u)
  <2>1. pending'[u] > 0 /\ Spares(u)
    BY <1>3 DEF Publish, Spares, IInv, Typed
  <2>2. \A j \in Jobs : job[j].user # u /\ AtWork(j) => job[j].user \in Users
    BY UnderWay DEF IInv, AtWork
  <2>3. Timely'
    BY <1>1, <2>1, <2>2 DEF Timely, AtWork, HasOwn, OnCourse, Provided, Spares
  <2>4. Refreshed'
    BY <1>1, <2>1 DEF Refreshed, AtWork, Provided, Served, Spares
  <2>. QED  BY <2>3, <2>4
<1>. QED  BY <1>2, <1>3 DEF Write, CreateUser, WelcomeUser, CommitBatch, RollBackBatch, EventLost

LEMMA AloneStart ==
  ASSUME IInv, Alone', Timely, Refreshed, NEW j \in Jobs, NEW u \in Users, Start(j, u)
  PROVE  Timely' /\ Refreshed'
<1>1. /\ job[j].pc = "idle" /\ job'[j].pc = "byIdentifier" /\ job'[j].user = u
      /\ \A k \in Jobs \ {j} : job'[k] = job[k]
      /\ UNCHANGED <<client, context, promised>>
  BY DEF Start, IInv, Typed, JobState
<1>2. \A w \in Users \ {u} : pending'[w] = pending[w]
  BY DEF Start, IInv, Typed
<1>3. IsFiniteSet(Busy')
  BY JobsAssumption, FS_Subset DEF Busy
<1>4. \A k \in Jobs : job'[k].pc # "idle" => k = j
  BY <1>1, <1>3, AtMostOne DEF Alone, Busy
<1>5. \A k \in Jobs : ~AtWork(k)
  BY <1>1, <1>4 DEF AtWork
<1>6. AtWork(j)' /\ HasOwn(j)' /\ OnCourse(j)'
  BY <1>1 DEF AtWork, HasOwn, OnCourse
<1>7. Timely'
  BY <1>4, <1>6 DEF Timely, AtWork
<1>8. Refreshed'
  BY <1>1, <1>2, <1>5, <1>6 DEF Refreshed, Provided, Served
<1>. QED  BY <1>7, <1>8

\* What a job at work holds, when it is alone.
LEMMA InHand ==
  ASSUME IInv, Alone, Timely, NEW j \in Jobs, AtWork(j)
  PROVE  /\ job[j] \in JobState /\ job[j].user \in Users /\ job[j].pc # "idle"
         /\ HasOwn(j)
         /\ Provided(job[j].user) \/ OnCourse(j)
         /\ version[job[j].user] \in 1 .. MaxVersion
         /\ promised[job[j].user] \in Nat
         /\ promised[job[j].user] <= version[job[j].user]
         /\ \A k \in Jobs \ {j} : job[k].pc = "idle"
<1>1. job[j].pc # "idle"
  BY DEF AtWork
<1>2. /\ job[j] \in JobState /\ job[j].user \in Users
      /\ version[job[j].user] \in 1 .. MaxVersion
  BY <1>1, UnderWay DEF IInv
<1>3. promised[job[j].user] \in Nat /\ promised[job[j].user] <= version[job[j].user]
  BY <1>2, BoundsAssumption DEF IInv, Typed, EventsCommitted, TellsOfRow, Versions
<1>. QED  BY <1>1, <1>2, <1>3, OthersIdle DEF Timely

\* The steps that only move the job, or what it holds: no client changes, and the
\* job is at work before and after.
LEMMA AloneMoves ==
  ASSUME IInv, Alone, Timely, Refreshed, NEW j \in Jobs,
         ByIdentifier(j) \/ Settle(j) \/ GetResult(j) \/ GetClient(j)
  PROVE  Timely' /\ Refreshed'
<1>1. AtWork(j)
  BY DEF AtWork, ByIdentifier, Settle, GetResult, GetClient
<1>2. PICK u \in Users : job[j].user = u
  BY <1>1, InHand
<1>3. /\ job[j] \in JobState /\ job[j].user = u /\ job[j].pc # "idle"
      /\ HasOwn(j)
      /\ Provided(u) \/ OnCourse(j)
      /\ version[u] \in 1 .. MaxVersion /\ promised[u] \in Nat /\ promised[u] <= version[u]
  BY <1>1, <1>2, InHand
<1>4. UNCHANGED <<version, pending, promised, client>> /\ Spares(u)
  BY DEF ByIdentifier, Settle, GetResult, GetClient, writers, Spares
<1>5. \A k \in Jobs \ {j} : job[k].pc = "idle" /\ job'[k] = job[k]
  BY <1>1, InHand DEF ByIdentifier, Settle, GetResult, GetClient, Goto, IInv, Typed
<1>6. /\ job'[j].user = u
      /\ HasOwn(j)'
      /\ Provided(u)' \/ OnCourse(j)'
      /\ AtWork(j)'
  <2>1. CASE ByIdentifier(j)
    BY <1>3, <1>4, <2>1
       DEF ByIdentifier, HasOwn, OnCourse, Provided, AtWork, JobState, IInv, Typed
  <2>2. CASE Settle(j)
    BY <1>3, <1>4, <2>2
       DEF Settle, Goto, HasOwn, OnCourse, Provided, AtWork, JobState, IInv, Typed
  <2>3. CASE GetResult(j)
    BY <1>3, <1>4, <2>3
       DEF GetResult, HasOwn, OnCourse, Provided, AtWork, JobState, IInv, Typed
  <2>4. CASE GetClient(j)
    BY <1>3, <1>4, <2>4
       DEF GetClient, HasOwn, OnCourse, Provided, AtWork, JobState, IInv, Typed
  <2>. QED  BY <2>1, <2>2, <2>3, <2>4
<1>. QED  BY <1>3, <1>4, <1>5, <1>6, AloneStep

\* A hit that stands has the version of the row and, found under the key of the
\* user, is the view of the user.
LEMMA AloneCheck ==
  ASSUME IInv, Alone, Timely, Refreshed, NEW j \in Jobs, CheckRowVersion(j)
  PROVE  Timely' /\ Refreshed'
<1>1. AtWork(j) /\ job[j].pc = "rowVersion"
  BY DEF AtWork, CheckRowVersion
<1>2. PICK u \in Users : job[j].user = u
  BY <1>1, InHand
<1>3. /\ job[j] \in JobState /\ job[j].user = u /\ job[j].pc # "idle"
      /\ HasOwn(j)
      /\ Provided(u) \/ OnCourse(j)
      /\ version[u] \in 1 .. MaxVersion /\ promised[u] \in Nat /\ promised[u] <= version[u]
  BY <1>1, <1>2, InHand
<1>4. UNCHANGED <<version, pending, promised, client, context>> /\ Spares(u)
  BY DEF CheckRowVersion, writers, Spares
<1>5. \A k \in Jobs \ {j} : job[k].pc = "idle" /\ job'[k] = job[k]
  BY <1>1, InHand DEF CheckRowVersion, Goto, Finish, IInv, Typed
<1>6. CASE Goto(j, "set")
  <2>1. job'[j].user = u /\ job'[j].pc = "set" /\ job'[j].entity = job[j].entity
    BY <1>3, <1>6 DEF Goto, JobState, IInv, Typed
  <2>2. AtWork(j)' /\ HasOwn(j)' /\ (Provided(u)' \/ OnCourse(j)')
    BY <1>1, <1>3, <1>4, <2>1 DEF AtWork, HasOwn, OnCourse, Provided
  <2>. QED  BY <1>3, <1>4, <1>5, <2>1, <2>2, AloneStep
<1>7. CASE job[j].cached.version = version[u] /\ Finish(j)
  <2>1. ~AtWork(j)'
    BY <1>7 DEF Finish, Idle, AtWork, IInv, Typed
  <2>2. Provided(u)' \/ Served(u)'
    <3>1. CASE Provided(u)
      BY <1>4, <3>1 DEF Provided
    <3>2. CASE client[u] = job[j].cached
      <4>1. client[u] # NoView
        BY <1>3, <1>7, <3>2 DEF NoView
      <4>2. client[u].user = u
        BY <1>3, <4>1 DEF IInv, OwnView
      <4>. QED  BY <1>3, <1>4, <1>7, <3>2, <4>2 DEF Served
    <3>. QED  BY <1>1, <1>3, <3>1, <3>2 DEF OnCourse
  <2>. QED  BY <1>3, <1>4, <1>5, <2>1, <2>2, AloneStep
<1>. QED  BY <1>3, <1>6, <1>7 DEF CheckRowVersion

LEMMA AloneSet ==
  ASSUME IInv, Alone, Timely, Refreshed, NEW j \in Jobs, SetClient(j)
  PROVE  Timely' /\ Refreshed'
<1>1. AtWork(j) /\ job[j].pc = "set"
  BY DEF AtWork, SetClient
<1>2. PICK u \in Users : job[j].user = u
  BY <1>1, InHand
<1>3. /\ job[j] \in JobState /\ job[j].user = u /\ job[j].pc # "idle"
      /\ HasOwn(j)
      /\ Provided(u) \/ OnCourse(j)
  BY <1>1, <1>2, InHand
<1>4. job[j].entity \in Views /\ job[j].entity.user = u
  BY <1>1, <1>3 DEF HasOwn, JobState
<1>5. /\ UNCHANGED <<pending, promised>>
      /\ client' = [client EXCEPT ![u] = job[j].entity]
      /\ Finish(j)
  BY <1>4 DEF SetClient
<1>6. \A k \in Jobs \ {j} : job[k].pc = "idle" /\ job'[k] = job[k]
  BY <1>1, InHand DEF SetClient, Finish, IInv, Typed
<1>7. ~AtWork(j)'
  BY <1>5 DEF Finish, Idle, AtWork, IInv, Typed
<1>8. client'[u] = job[j].entity /\ Spares(u)
  BY <1>3, <1>5 DEF IInv, Typed, Spares
<1>9. Provided(u)' \/ Served(u)'
  BY <1>1, <1>3, <1>4, <1>5, <1>8 DEF OnCourse, Served, Provided
<1>. QED  BY <1>3, <1>6, <1>7, <1>8, <1>9, AloneStep

\* A job that fails gives its refresh up, unless the queue has another.
LEMMA AloneFails ==
  ASSUME IInv, Alone, Timely, Refreshed, NEW j \in Jobs, job[j].pc # "idle",
         Finish(j) \/ Free(j), GiveUp({job[j].user}), UNCHANGED client,
         pending' \in {pending, [pending EXCEPT ![job[j].user] = @ + 1]}
  PROVE  Timely' /\ Refreshed'
<1>1. PICK u \in Users : job[j].user = u
  BY UnderWay DEF IInv
<1>2. \A k \in Jobs \ {j} : job[k].pc = "idle" /\ job'[k] = job[k]
  BY OthersIdle DEF Finish, Free, IInv, Typed
<1>3. job'[j].pc \in {"idle", "end"}
  <2>1. CASE Finish(j)
    BY <2>1 DEF Finish, Idle, IInv, Typed
  <2>2. CASE Free(j)
    BY <2>2 DEF Free, Idle, IInv, Typed
  <2>. QED  BY <2>1, <2>2
<1>4. Spares(u) /\ pending' \in [Users -> Nat]
  BY <1>1 DEF Spares, GiveUp, IInv, Typed
<1>5. Provided(u)'
  BY <1>1, <1>4 DEF Provided, GiveUp
<1>. QED  BY <1>1, <1>2, <1>3, <1>4, <1>5, AloneStep DEF AtWork

LEMMA AloneEnd ==
  ASSUME IInv, Timely, Refreshed, NEW j \in Jobs, End(j)
  PROVE  Timely' /\ Refreshed'
<1>1. /\ UNCHANGED <<pending, promised, client, context>>
      /\ \A k \in Jobs : AtWork(k)' <=> AtWork(k)
      /\ \A k \in Jobs : AtWork(k) => job'[k] = job[k]
  BY DEF End, Free, Idle, AtWork, IInv, Typed
<1>2. Timely'
  BY <1>1 DEF Timely, HasOwn, OnCourse, Provided
<1>3. Refreshed'
  BY <1>1 DEF Refreshed, Provided, Served
<1>. QED  BY <1>2, <1>3

\* With the worker the refreshes of its jobs are gone, or back on the queue.
LEMMA AloneCrash == ASSUME IInv, Timely, Refreshed, WorkerCrash PROVE Timely' /\ Refreshed'
<1>1. PICK again \in SUBSET {j \in Jobs : job[j].pc # "idle"} :
        pending' = [u \in Users |-> pending[u] + Cardinality({j \in again : job[j].user = u})]
  BY DEF WorkerCrash
<1>2. /\ job' = [j \in Jobs |-> Idle] /\ GiveUp({job[j].user : j \in Jobs})
      /\ UNCHANGED client
  BY DEF WorkerCrash
<1>3. Timely'
  BY <1>2 DEF Timely, AtWork, Idle
<1>4. ASSUME NEW u \in Users PROVE Provided(u)' \/ Served(u)'
  <2>1. pending[u] \in Nat /\ pending'[u] \in Nat /\ pending'[u] >= pending[u]
    <3> DEFINE S == {j \in again : job[j].user = u}
    <3>1. Cardinality(S) \in Nat
      BY JobsAssumption, FS_Subset, FS_CardinalityType
    <3>. QED  BY <1>1, <3>1 DEF IInv, Typed
  <2>2. promised'[u] \in {0, promised[u]}
    BY <1>2 DEF GiveUp
  <2>3. CASE \E j \in Jobs : job[j].user = u
    BY <1>2, <2>1, <2>3 DEF Provided, GiveUp
  <2>4. CASE ~ \E j \in Jobs : job[j].user = u
    BY <1>2, <2>1, <2>2, <2>4 DEF Refreshed, Provided, Served
  <2>. QED  BY <2>3, <2>4
<1>. QED  BY <1>3, <1>4 DEF Refreshed

LEMMA AloneRestart == ASSUME IInv, Timely, RedisRestart PROVE Timely' /\ Refreshed'
<1>1. GiveUp(Users) /\ UNCHANGED <<pending, context, job>>
  BY DEF RedisRestart
<1>2. \A u \in Users : Provided(u)'
  BY <1>1 DEF Provided, GiveUp, IInv, Typed
<1>3. \A j \in Jobs : AtWork(j) => job[j].user \in Users
  BY UnderWay DEF IInv, AtWork
<1>. QED  BY <1>1, <1>2, <1>3 DEF Timely, Refreshed, AtWork, HasOwn

LEMMA AloneNext ==
  ASSUME IInv, Alone, Alone', Timely, Refreshed, [Next]_vars
  PROVE  Timely' /\ Refreshed'
<1>1. ASSUME NEW u \in Users, Write(u) PROVE Timely' /\ Refreshed'
  BY <1>1, AloneWrite
<1>2. ASSUME NEW j \in Jobs, NEW u \in Users, Start(j, u) PROVE Timely' /\ Refreshed'
  BY <1>2, AloneStart
<1>3. ASSUME NEW j \in Jobs, Proceed(j) PROVE Timely' /\ Refreshed'
  BY <1>3, AloneMoves, AloneCheck, AloneSet, AloneEnd DEF Proceed
<1>4. ASSUME NEW j \in Jobs, ByIdentifierFails(j) \/ ByClientIdFails(j) PROVE Timely' /\ Refreshed'
  <2>1. /\ job[j].pc # "idle" /\ Finish(j) /\ GiveUp({job[j].user})
        /\ UNCHANGED <<pending, client>>
    BY <1>4 DEF ByIdentifierFails, ByClientIdFails
  <2>. QED  BY <2>1, AloneFails
<1>5. ASSUME NEW j \in Jobs, JobThrows(j) PROVE Timely' /\ Refreshed'
  BY <1>5, AloneFails DEF JobThrows
<1>6. CASE UNCHANGED vars
  BY <1>6 DEF vars, Timely, Refreshed, AtWork, HasOwn, OnCourse, Provided, Served
<1>. QED
  BY <1>1, <1>2, <1>3, <1>4, <1>5, <1>6, AloneCrash, AloneRestart DEF Next, Write

LEMMA AloneInit == Init => Timely /\ Refreshed
BY DEF Init, Timely, Refreshed, Provided, AtWork, Idle

\* While jobs never overlap, a worker that is idle with nothing on its queue has
\* left, under the key of every client, a view at least as recent as the row was
\* when the latest refresh of its user was published: whatever fails, unless it is
\* the job of that refresh, or Redis that loses its result.  The safety part of
\* ConvergesAlone, on the same condition.
THEOREM QuietConvergence ==
  Spec /\ [](Cardinality(Busy) <= 1) => []QuietIsServed
<1> DEFINE Calm == Cardinality(Busy) <= 1
           Course == Timely /\ Refreshed
<1>1. Init => Course
  BY AloneInit
<1>2. IInv /\ Calm /\ Calm' /\ Course /\ [Next]_vars => Course'
  BY AloneNext DEF Alone
<1>3. IInv /\ Course => QuietIsServed
  BY DEF IInv, Typed, Refreshed, Provided, Served, QuietIsServed, Busy, AtWork
<1> HIDE DEF Calm, Course
<1>4. Spec /\ []Calm => []QuietIsServed
  BY <1>1, <1>2, <1>3, Invariance, PTL DEF Spec
<1>. QED  BY <1>4 DEF Calm
=============================================================================
