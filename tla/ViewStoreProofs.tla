--------------------------- MODULE ViewStoreProofs ---------------------------
(***************************************************************************)
(* For any number of users, calls, versions and faults: the materialized   *)
(* view is typed, its reads are fresh, and it implements atomic reads.     *)
(***************************************************************************)
EXTENDS ViewStore, TLAPS

(***************************************************************************)
(* The inductive invariant.  No key is ahead of the committed row, and a   *)
(* call knows a view from the moment a statement returned it.              *)
(***************************************************************************)
NeverAhead == \A u \in Users : cache[u] <= version[u]

Consistent(s) ==
  \/ s = Idle
  \/ /\ s.user \in Users
     /\ s.pc # "idle"
     /\ s.floor <= version[s.user]
     /\ s.pc \in {"set", "storing"} => s.floor <= s.view /\ s.view \in 1 .. version[s.user]
     /\ s.pc \notin {"set", "storing", "done"} => s.view = 0
     /\ IF s.pc = "done" THEN s.outcome # "none" ELSE s.outcome = "none"
     /\ s.outcome = "error" => s.view = 0
     /\ s.outcome \in {"ok", "fallback"} => s.floor <= s.view /\ s.view \in 1 .. version[s.user]

CallsConsistent == \A c \in Calls : Consistent(call[c])

IInv == Typed /\ NeverAhead /\ CallsConsistent

-----------------------------------------------------------------------------
\* A step that only takes call c to the consistent state s keeps all calls so.
LEMMA OneCall ==
  ASSUME Typed, CallsConsistent, UNCHANGED version,
         NEW c \in Calls, NEW s \in CallState, Consistent(s),
         call' = [call EXCEPT ![c] = s]
  PROVE  /\ call' \in [Calls -> CallState]
         /\ CallsConsistent'
<1>1. call' \in [Calls -> CallState]
  BY DEF Typed
<1>2. ASSUME NEW d \in Calls PROVE Consistent(call[d])'
  <2>1. call'[d] = IF d = c THEN s ELSE call[d]
    BY DEF Typed
  <2>2. Consistent(call'[d])
    BY <2>1 DEF CallsConsistent
  <2>. QED  BY <2>2 DEF Consistent
<1>. QED  BY <1>1, <1>2 DEF CallsConsistent

\* A call that is under way is of a user, and knows no more than was committed.
LEMMA Busy ==
  ASSUME Typed, CallsConsistent, NEW c \in Calls, call[c].pc # "idle"
  PROVE  /\ call[c] \in CallState
         /\ call[c].user \in Users
         /\ Committed(c) \in Versions
         /\ cache[call[c].user] \in Versions
         /\ call[c].floor <= Committed(c)
         /\ Consistent(call[c])
BY DEF Typed, CallsConsistent, Consistent, Committed, Idle

\* The new state of a call that answers.
LEMMA Answered ==
  ASSUME Typed, CallsConsistent, UNCHANGED version,
         NEW c \in Calls, call[c].pc # "idle",
         NEW v \in Versions, NEW o \in Outcomes \ {"none"},
         Answer(c, v, o),
         IF o = "error" THEN v = 0 ELSE v \in 1 .. Committed(c) /\ call[c].floor <= v
  PROVE  /\ call' \in [Calls -> CallState]
         /\ CallsConsistent'
<1> DEFINE s == [call[c] EXCEPT !.pc = "done", !.view = v, !.outcome = o]
<1>1. /\ call[c] \in CallState /\ call[c].user \in Users
      /\ call[c].floor <= Committed(c) /\ Committed(c) \in Versions
  BY Busy
<1>2. s \in CallState
  BY <1>1 DEF CallState, Phases, Outcomes
<1>3. Consistent(s)
  BY <1>1, BoundsAssumption DEF Consistent, CallState, Outcomes, Committed, Versions
<1>4. call' = [call EXCEPT ![c] = s]
  BY DEF Answer
<1>. QED  BY <1>2, <1>3, <1>4, OneCall

\* The new state of a call that goes on without an answer or a view.
LEMMA Went ==
  ASSUME Typed, CallsConsistent, UNCHANGED version,
         NEW c \in Calls, call[c].pc \notin {"idle", "set", "storing", "done"},
         NEW p \in {"get", "rowVersion", "readDb", "fallback"}, NEW g \in Versions,
         call' = [call EXCEPT ![c] = [call[c] EXCEPT !.pc = p, !.got = g]]
  PROVE  /\ call' \in [Calls -> CallState]
         /\ CallsConsistent'
<1> DEFINE s == [call[c] EXCEPT !.pc = p, !.got = g]
<1>1. call[c] \in CallState /\ Consistent(call[c]) /\ call[c] # Idle
  BY Busy DEF Idle
<1>2. s \in CallState
  BY <1>1 DEF CallState, Phases
<1>3. Consistent(s)
  BY <1>1 DEF Consistent, CallState
<1>. QED  BY <1>2, <1>3, OneCall

\* A call slot that becomes free.
LEMMA Freed ==
  ASSUME Typed, CallsConsistent, UNCHANGED version,
         NEW c \in Calls, call' = [call EXCEPT ![c] = Idle]
  PROVE  /\ call' \in [Calls -> CallState]
         /\ CallsConsistent'
<1>1. Idle \in CallState
  BY BoundsAssumption DEF Idle, CallState, Phases, Outcomes, Versions
<1>2. Consistent(Idle)
  BY DEF Consistent
<1>. QED  BY <1>1, <1>2, OneCall

-----------------------------------------------------------------------------
LEMMA InitInv == Init => IInv
BY BoundsAssumption
   DEF Init, IInv, Typed, NeverAhead, CallsConsistent, Consistent, Versions,
       CallState, Phases, Outcomes, Idle

\* The steps of one call, the database unchanged.
LEMMA CallStep ==
  ASSUME IInv, NEW c \in Calls,
         Proceed(c) \/ InitThrows(c) \/ SetThrows(c) \/ DbFails(c) \/ Crash(c)
  PROVE  IInv'
<1> USE DEF IInv
<1>0. /\ UNCHANGED version
      /\ faults' \in 0 .. MaxFaults
      /\ UNCHANGED redis
  BY BoundsAssumption
     DEF Typed, Proceed, InitRedis, InitThrows, GetCache, GetFails, CheckRowVersion, ReadDb,
         SendSet, SetRefused, SetCache, SetRejected, SetThrows, Fallback, DbFails, Return,
         Crash, Fault
<1>1. ASSUME call[c].pc # "idle"
      PROVE  /\ call[c] \in CallState /\ call[c].user \in Users
             /\ Committed(c) \in Versions /\ cache[call[c].user] \in Versions
             /\ call[c].floor <= Committed(c) /\ Consistent(call[c])
  BY <1>1, Busy
<1>2. ASSUME call[c].pc \in {"set", "storing"}
      PROVE  /\ call[c].view \in Versions
             /\ call[c].view \in 1 .. Committed(c)
             /\ call[c].floor <= call[c].view
  BY <1>1, <1>2 DEF Consistent, CallState, Committed, Idle
<1> DEFINE CallsOK == call' \in [Calls -> CallState] /\ CallsConsistent'
           CacheOK == cache' \in [Users -> Versions] /\ NeverAhead'
<1>3. ASSUME UNCHANGED cache PROVE CacheOK
  BY <1>0, <1>3 DEF Typed, NeverAhead
<1>4. ASSUME call[c].pc = "storing", cache' = [cache EXCEPT ![call[c].user] = call[c].view]
      PROVE  CacheOK
  <2>1. call[c].user \in Users /\ call[c].view \in Versions
    BY <1>1, <1>2, <1>4
  <2>2. \A u \in Users : cache'[u] = IF u = call[c].user THEN call[c].view ELSE cache[u]
    BY <1>4, <2>1 DEF Typed
  <2>3. call[c].view <= version[call[c].user]
    BY <1>2, <1>4, <1>1 DEF Committed, Versions
  <2>. QED  BY <1>0, <1>4, <2>1, <2>2, <2>3 DEF Typed, NeverAhead
<1>5. ASSUME Refuse(c), call[c].pc # "idle" PROVE CallsOK
  BY <1>0, <1>5, Answered, BoundsAssumption DEF Refuse, Outcomes, Versions
<1>6. ASSUME call[c].pc \notin {"idle", "set", "storing", "done"},
             NEW p \in {"get", "rowVersion", "readDb", "fallback"}, Goto(c, p)
      PROVE  CallsOK
  <2>1. call[c] \in CallState
    BY <1>1, <1>6
  <2>2. [call[c] EXCEPT !.pc = p] = [call[c] EXCEPT !.pc = p, !.got = call[c].got]
    BY <2>1 DEF CallState
  <2>3. call' = [call EXCEPT ![c] = [call[c] EXCEPT !.pc = p, !.got = call[c].got]]
    BY <1>6, <2>2 DEF Goto
  <2>4. call[c].got \in Versions
    BY <2>1 DEF CallState
  <2>. QED  BY <1>0, <1>6, <2>3, <2>4, Went
<1>7. CASE InitRedis(c) \/ InitThrows(c)
  BY <1>0, <1>3, <1>6, <1>7 DEF InitRedis, InitThrows, Typed
<1>8. CASE GetCache(c)
  <2> DEFINE p == IF cache[call[c].user] = 0 THEN "readDb" ELSE "rowVersion"
           g == cache[call[c].user]
  <2>2. call[c].pc = "get" /\ call' = [call EXCEPT ![c] = [call[c] EXCEPT !.pc = p, !.got = g]]
    BY <1>8 DEF GetCache
  <2>3. p \in {"get", "rowVersion", "readDb", "fallback"} /\ g \in Versions
    BY <1>1, <2>2
  <2> HIDE DEF p, g
  <2>1. CallsOK
    BY <1>0, <2>2, <2>3, Went
  <2>. QED  BY <1>0, <1>3, <1>8, <2>1 DEF GetCache, Typed
<1>9. CASE GetFails(c)
  BY <1>0, <1>3, <1>6, <1>9 DEF GetFails, Typed
<1>10. CASE CheckRowVersion(c)
  <2>0. call[c].pc = "rowVersion"
    BY <1>10 DEF CheckRowVersion
  <2>1. ASSUME Committed(c) # 0 /\ call[c].got = Committed(c) PROVE CallsOK
    BY <1>0, <1>1, <1>10, <2>0, <2>1, Answered DEF CheckRowVersion, Outcomes, Versions
  <2>2. ASSUME Committed(c) = 0 \/ call[c].got # Committed(c) PROVE CallsOK
    BY <1>5, <1>6, <1>10, <2>0, <2>2 DEF CheckRowVersion
  <2>. QED  BY <1>0, <1>3, <1>10, <2>1, <2>2 DEF CheckRowVersion, Typed
<1>11. CASE ReadDb(c)
  <2>0. call[c].pc = "readDb"
    BY <1>11 DEF ReadDb
  <2>1. ASSUME Committed(c) = 0 PROVE CallsOK
    BY <1>5, <1>11, <2>0, <2>1 DEF ReadDb
  <2>2. ASSUME Committed(c) # 0 PROVE CallsOK
    <3> DEFINE s == [call[c] EXCEPT !.pc = "set", !.view = Committed(c)]
    <3>1. s \in CallState
      BY <1>1, <2>0 DEF CallState, Phases
    <3>2. Consistent(s)
      BY <1>1, <2>0, <2>2 DEF Consistent, CallState, Idle, Committed, Versions
    <3>3. call' = [call EXCEPT ![c] = s]
      BY <1>11, <2>2 DEF ReadDb
    <3>. QED  BY <1>0, <3>1, <3>2, <3>3, OneCall
  <2>. QED  BY <1>0, <1>3, <1>11, <2>1, <2>2 DEF ReadDb, Typed
<1>12. ASSUME call[c].pc \in {"set", "storing"}, Answer(c, call[c].view, "ok") PROVE CallsOK
  BY <1>0, <1>2, <1>12, Answered DEF Outcomes
<1>13. CASE SetCache(c)
  BY <1>0, <1>4, <1>12, <1>13 DEF SetCache, Typed
<1>14. CASE SetRefused(c)
  BY <1>0, <1>3, <1>12, <1>14 DEF SetRefused, Typed
<1>15. CASE SetThrows(c) \/ SetRejected(c)
  BY <1>0, <1>3, <1>4, <1>5, <1>15 DEF SetThrows, SetRejected, Typed
<1>19. CASE SendSet(c)
  <2> DEFINE s == [call[c] EXCEPT !.pc = "storing"]
  <2>0. call[c].pc = "set" /\ call' = [call EXCEPT ![c] = s]
    BY <1>19 DEF SendSet, Goto
  <2>1. s \in CallState
    BY <1>1, <2>0 DEF CallState, Phases
  <2>2. Consistent(s)
    BY <1>1, <2>0 DEF Consistent, CallState, Idle
  <2>3. CallsOK
    BY <1>0, <2>0, <2>1, <2>2, OneCall
  <2>. QED  BY <1>0, <1>3, <1>19, <2>3 DEF SendSet, Typed
<1>16. CASE Fallback(c)
  <2>0. call[c].pc = "fallback"
    BY <1>16 DEF Fallback
  <2>1. ASSUME Committed(c) = 0 PROVE CallsOK
    BY <1>5, <1>16, <2>0, <2>1 DEF Fallback
  <2>2. ASSUME Committed(c) # 0 PROVE CallsOK
    BY <1>0, <1>1, <1>16, <2>0, <2>2, Answered DEF Fallback, Outcomes, Versions
  <2>. QED  BY <1>0, <1>3, <1>16, <2>1, <2>2 DEF Fallback, Typed
<1>17. CASE DbFails(c)
  BY <1>0, <1>3, <1>5, <1>17 DEF DbFails, Typed
<1>18. CASE Return(c) \/ Crash(c)
  BY <1>0, <1>3, <1>18, Freed DEF Return, Crash, Typed
<1>. QED
  BY <1>7, <1>8, <1>9, <1>10, <1>11, <1>13, <1>14, <1>15, <1>16, <1>17, <1>18, <1>19
     DEF Proceed

\* A call begins: its floor is the version of the row at that moment.
LEMMA BeginStep ==
  ASSUME IInv, NEW c \in Calls, NEW u \in Users, HandleAsync(c, u)
  PROVE  IInv'
<1> USE DEF IInv
<1>1. Began(u) \in CallState
  BY BoundsAssumption DEF Began, CallState, Phases, Outcomes, Typed, Versions
<1>2. Consistent(Began(u))
  BY DEF Consistent, Began, Typed, Versions
<1>3. call' \in [Calls -> CallState] /\ CallsConsistent'
  BY <1>1, <1>2, OneCall DEF HandleAsync
<1>. QED  BY <1>3 DEF HandleAsync, Typed, NeverAhead

\* A commit only raises a version: what calls and keys hold stays committed.
LEMMA CommitStep ==
  ASSUME IInv, NEW u \in Users, Commit(u)
  PROVE  IInv'
<1> USE DEF IInv
<1>1. version' \in [Users -> Versions] /\ \A w \in Users : version[w] <= version'[w]
  BY BoundsAssumption DEF Commit, Typed, Versions
<1>2. Typed'
  BY <1>1 DEF Commit, Typed
<1>3. NeverAhead'
  BY <1>1 DEF Commit, NeverAhead, Typed, Versions
<1>4. CallsConsistent'
  <2> SUFFICES ASSUME NEW c \in Calls PROVE Consistent(call[c])'
    BY DEF CallsConsistent
  <2>1. call[c] \in CallState /\ Consistent(call[c]) /\ call' = call
    BY DEF Commit, Typed, CallsConsistent
  <2>. QED  BY <1>1, <2>1 DEF Consistent, CallState, Typed, Versions
<1>. QED  BY <1>2, <1>3, <1>4

\* Redis falling silent or going away, or coming back with less than it held,
\* harms no call.
RedisMoves == RedisHangs \/ RedisAnswers \/ RedisStop \/ RedisStart

LEMMA RedisStep ==
  ASSUME IInv, RedisMoves
  PROVE  IInv'
<1> USE DEF IInv
<1>1. faults' \in 0 .. MaxFaults
  BY BoundsAssumption DEF RedisMoves, RedisHangs, RedisAnswers, RedisStop, RedisStart, Fault, Typed
<1>2. redis' \in {"up", "silent", "down"}
  BY DEF RedisMoves, RedisHangs, RedisAnswers, RedisStop, RedisStart
<1>3. Typed'
  BY <1>1, <1>2 DEF RedisMoves, RedisHangs, RedisAnswers, RedisStop, RedisStart, Typed
<1>4. NeverAhead'
  BY BoundsAssumption
     DEF RedisMoves, RedisHangs, RedisAnswers, RedisStop, RedisStart, NeverAhead, Typed, Versions
<1>5. CallsConsistent'
  BY DEF RedisMoves, RedisHangs, RedisAnswers, RedisStop, RedisStart, CallsConsistent, Consistent
<1>. QED  BY <1>3, <1>4, <1>5

LEMMA NextInv == IInv /\ [Next]_vars => IInv'
<1>1. ASSUME IInv, UNCHANGED vars PROVE IInv'
  BY <1>1 DEF vars, IInv, Typed, NeverAhead, CallsConsistent, Consistent
<1>. QED  BY <1>1, CallStep, BeginStep, CommitStep, RedisStep DEF Next, RedisMoves

-----------------------------------------------------------------------------
\* The inductive invariant holds.
THEOREM Invariance == Spec => []IInv
BY InitInv, NextInv, PTL DEF Spec

\* Every variable keeps its type, and no result that should carry a view lacks it.
THEOREM TypeCorrect == Spec => []TypeOK
<1>1. IInv => TypeOK
  BY DEF IInv, TypeOK, Typed, CallsConsistent, Consistent, Idle
<1>. QED  BY <1>1, Invariance, PTL

\* Every answered call returns a view at least as new as the row was when the
\* call began, and one that was committed: see Fresh.
THEOREM Freshness == Spec => []Fresh
<1>1. IInv => Fresh
  BY DEF IInv, Typed, CallsConsistent, Consistent, Fresh, Committed, Idle
<1>. QED  BY <1>1, Invariance, PTL

\* The call that performs a SET stores a view that was the committed one during
\* that same call, whatever the others do meanwhile: see StaleWriteBounded.
THEOREM BoundedStaleness == Spec => StaleWriteBounded
<1>1. IInv /\ [Next]_vars => [WriteIsRecent]_vars
  <2> SUFFICES ASSUME IInv, Next PROVE WriteIsRecent
    BY DEF WriteIsRecent
  <2> SUFFICES ASSUME NEW u \in Users, redis # "down", cache'[u] # cache[u]
               PROVE  \E c \in Calls : /\ call[c].pc = "storing" /\ call'[c].pc = "done"
                                       /\ call[c].user = u
                                       /\ cache'[u] \in call[c].floor .. version[u]
    BY DEF WriteIsRecent
  <2>1. PICK c \in Calls : /\ call[c].pc = "storing"
                           /\ SetCache(c) \/ SetThrows(c)
                           /\ cache' = [cache EXCEPT ![call[c].user] = call[c].view]
    BY DEF Next, Commit, HandleAsync, Proceed, InitRedis, InitThrows, GetCache, GetFails,
           CheckRowVersion, ReadDb, SendSet, SetRefused, SetCache, SetRejected, SetThrows,
           Fallback, Return, DbFails, Crash, RedisHangs, RedisAnswers, RedisStop, RedisStart
  <2>2. /\ call[c].user \in Users
        /\ call[c].floor <= call[c].view /\ call[c].view \in 1 .. version[call[c].user]
        /\ call[c] \in CallState
    BY <2>1, Busy DEF IInv, Consistent, Idle
  <2>3. call[c].user = u /\ cache'[u] = call[c].view
    BY <2>1, <2>2 DEF IInv, Typed
  <2>4. call'[c].pc = "done"
    BY <2>1, <2>2 DEF SetCache, SetThrows, Answer, Refuse, IInv, Typed, CallState
  <2>. QED  BY <2>1, <2>2, <2>3, <2>4 DEF CallState, Versions
<1>. QED  BY <1>1, Invariance, PTL DEF Spec, StaleWriteBounded

-----------------------------------------------------------------------------
(***************************************************************************)
(* Refinement of AtomicView.                                               *)
(***************************************************************************)
Reads == [c \in Calls |-> AbstractRead(call[c])]

LEMMA OneRead ==
  ASSUME IInv, NEW c \in Calls, NEW s, call' = [call EXCEPT ![c] = s]
  PROVE  Reads' = [Reads EXCEPT ![c] = AbstractRead(s)]
<1>1. \A d \in Calls : call'[d] = IF d = c THEN s ELSE call[d]
  BY DEF IInv, Typed
<1>2. \A d \in Calls : AbstractRead(call[d])' = IF d = c THEN AbstractRead(s) ELSE AbstractRead(call[d])
  BY <1>1 DEF AbstractRead
<1>. QED  BY <1>2 DEF Reads

\* What AtomicView sees of a call that is under way.
LEMMA ReadOf ==
  ASSUME IInv, NEW c \in Calls, call[c].pc # "idle"
  PROVE  /\ Reads[c] = AbstractRead(call[c])
         /\ Reads[c].phase = IF call[c].outcome = "error" THEN "failed"
                             ELSE IF call[c].pc \in {"set", "storing", "done"} THEN "effective"
                             ELSE "invoked"
         /\ Reads[c].user = call[c].user
         /\ Reads[c].view = call[c].view
BY DEF Reads, AbstractRead

\* A call that goes on without a view is still an invoked read.
LEMMA StillInvoked ==
  ASSUME IInv, NEW c \in Calls, call[c].pc \in {"init", "get", "rowVersion", "fallback"},
         NEW p \in {"get", "rowVersion", "readDb", "fallback"}, NEW g,
         call' = [call EXCEPT ![c] = [call[c] EXCEPT !.pc = p, !.got = g]]
  PROVE  Reads' = Reads
<1> DEFINE s == [call[c] EXCEPT !.pc = p, !.got = g]
<1>1. call[c] \in CallState
  BY Busy DEF IInv
<1>2. s.pc = p /\ s.outcome = call[c].outcome /\ s.user = call[c].user /\ s.view = call[c].view
  BY <1>1 DEF CallState
<1>3. call' = [call EXCEPT ![c] = s]
  OBVIOUS
<1> HIDE DEF s
<1>4. AbstractRead(s) = Reads[c]
  BY <1>2, ReadOf DEF AbstractRead
<1>5. Reads' = [Reads EXCEPT ![c] = AbstractRead(s)]
  BY <1>3, OneRead
<1>. QED  BY <1>4, <1>5 DEF Reads

\* An error ends the read, answered or not.
LEMMA RefusedFails ==
  ASSUME IInv, NEW c \in Calls, UNCHANGED version,
         call[c].pc \notin {"idle", "done"}, Refuse(c)
  PROVE  Abstract!Fail(c)
<1> DEFINE s == [call[c] EXCEPT !.pc = "done", !.view = 0, !.outcome = "error"]
<1>1. call[c] \in CallState /\ Consistent(call[c]) /\ call[c] # Idle
  BY Busy DEF Idle, IInv
<1>2. s.pc = "done" /\ s.outcome = "error" /\ s.user = call[c].user /\ s.view = 0
  BY <1>1 DEF CallState
<1>3. call' = [call EXCEPT ![c] = s]
  BY DEF Refuse, Answer
<1> HIDE DEF s
<1>4. Reads' = [Reads EXCEPT ![c] = AbstractRead(s)]
  BY <1>3, OneRead
<1>5. Reads[c].phase \in {"invoked", "effective"} /\ Reads[c].user = call[c].user
  BY <1>1, ReadOf DEF Consistent
<1>6. AbstractRead(s) = [phase |-> "failed", user |-> Reads[c].user, view |-> 0]
  BY <1>2, <1>5 DEF AbstractRead
<1>. QED  BY <1>4, <1>5, <1>6 DEF Abstract!Fail, Reads

\* The statement whose result is returned is where the read takes effect.
LEMMA ReadTakesEffect ==
  ASSUME IInv, NEW c \in Calls, UNCHANGED version,
         call[c].pc \in {"rowVersion", "readDb", "fallback"}, Committed(c) # 0,
         NEW s, call' = [call EXCEPT ![c] = s],
         s.pc \in {"set", "done"}, s.outcome # "error",
         s.user = call[c].user, s.view = Committed(c)
  PROVE  Abstract!TakeEffect(c)
<1>1. /\ call[c] \in CallState /\ Consistent(call[c]) /\ call[c] # Idle
      /\ Committed(c) \in Versions
  BY Busy DEF Idle, IInv
<1>2. Reads[c].phase = "invoked" /\ Reads[c].user = call[c].user
  BY <1>1, ReadOf DEF Consistent
<1>3. AbstractRead(s) = [phase |-> "effective", user |-> Reads[c].user, view |-> version[Reads[c].user]]
  BY <1>2 DEF AbstractRead, Committed
<1>4. Reads' = [Reads EXCEPT ![c] = AbstractRead(s)]
  BY OneRead
<1>5. version[Reads[c].user] > 0
  BY <1>1, <1>2 DEF Committed, Versions
<1>. QED  BY <1>2, <1>3, <1>4, <1>5 DEF Abstract!TakeEffect, Reads

\* Answering with the view read before is no step of the read.
LEMMA AnswerStutters ==
  ASSUME IInv, NEW c \in Calls, call[c].pc \in {"set", "storing"},
         Answer(c, call[c].view, "ok")
  PROVE  Reads' = Reads
<1> DEFINE s == [call[c] EXCEPT !.pc = "done", !.view = call[c].view, !.outcome = "ok"]
<1>1. call[c] \in CallState /\ Consistent(call[c]) /\ call[c] # Idle
  BY Busy DEF Idle, IInv
<1>2. s.pc = "done" /\ s.outcome = "ok" /\ s.user = call[c].user /\ s.view = call[c].view
  BY <1>1 DEF CallState
<1>3. call' = [call EXCEPT ![c] = s]
  BY DEF Answer
<1> HIDE DEF s
<1>4. AbstractRead(s) = Reads[c]
  BY <1>1, <1>2, ReadOf DEF AbstractRead, Consistent
<1>5. Reads' = [Reads EXCEPT ![c] = AbstractRead(s)]
  BY <1>3, OneRead
<1>. QED  BY <1>4, <1>5 DEF Reads

\* The initial states of the store are initial states of AtomicView.
LEMMA RefineInit == Init => Abstract!Init
BY DEF Init, Abstract!Init, Abstract!Free, AbstractRead, Idle

\* A step of one call is a step of its read, or none.
LEMMA RefineCall ==
  ASSUME IInv, NEW c \in Calls,
         Proceed(c) \/ InitThrows(c) \/ SetThrows(c) \/ DbFails(c) \/ Crash(c)
  PROVE  \/ UNCHANGED <<version, Reads>>
         \/ Abstract!TakeEffect(c) \/ Abstract!Fail(c) \/ Abstract!Return(c)
<1>0. UNCHANGED version
  BY DEF Proceed, InitRedis, InitThrows, GetCache, GetFails, CheckRowVersion, ReadDb, SendSet,
         SetRefused, SetCache, SetRejected, SetThrows, Fallback, DbFails, Return, Crash
<1>1. ASSUME NEW p \in {"get", "readDb", "fallback"}, Goto(c, p),
             call[c].pc \in {"init", "get", "rowVersion"}
      PROVE  UNCHANGED Reads
  <2>1. call[c] \in CallState
    BY <1>1, Busy DEF IInv
  <2>2. [call[c] EXCEPT !.pc = p] = [call[c] EXCEPT !.pc = p, !.got = call[c].got]
    BY <2>1 DEF CallState
  <2>3. call' = [call EXCEPT ![c] = [call[c] EXCEPT !.pc = p, !.got = call[c].got]]
    BY <1>1, <2>2 DEF Goto
  <2>. QED  BY <1>1, <2>3, StillInvoked
<1>2. ASSUME call[c].pc \in {"rowVersion", "readDb", "fallback"}, Committed(c) # 0,
             NEW p \in {"set", "done"}, NEW o \in {"none", "ok", "fallback"},
             call' = [call EXCEPT ![c] = [call[c] EXCEPT !.pc = p, !.view = Committed(c), !.outcome = o]]
      PROVE  Abstract!TakeEffect(c)
  <2> DEFINE s == [call[c] EXCEPT !.pc = p, !.view = Committed(c), !.outcome = o]
  <2>1. call[c] \in CallState
    BY <1>2, Busy DEF IInv
  <2>2. /\ s.pc \in {"set", "done"} /\ s.outcome # "error"
        /\ s.user = call[c].user /\ s.view = Committed(c)
    BY <2>1, <1>2 DEF CallState
  <2>3. call' = [call EXCEPT ![c] = s]
    BY <1>2
  <2> HIDE DEF s
  <2>. QED  BY <1>0, <1>2, <2>2, <2>3, ReadTakesEffect
<1>3. CASE InitRedis(c) \/ InitThrows(c) \/ GetFails(c)
  BY <1>0, <1>1, <1>3 DEF InitRedis, InitThrows, GetFails
<1>4. CASE GetCache(c)
  <2> DEFINE p == IF cache[call[c].user] = 0 THEN "readDb" ELSE "rowVersion"
             g == cache[call[c].user]
  <2>1. call[c].pc = "get" /\ call' = [call EXCEPT ![c] = [call[c] EXCEPT !.pc = p, !.got = g]]
    BY <1>4 DEF GetCache
  <2>2. p \in {"get", "rowVersion", "readDb", "fallback"}
    OBVIOUS
  <2> HIDE DEF p, g
  <2>. QED  BY <1>0, <2>1, <2>2, StillInvoked
<1>5. ASSUME Refuse(c), call[c].pc \notin {"idle", "done"} PROVE Abstract!Fail(c)
  BY <1>0, <1>5, RefusedFails
<1>6. CASE CheckRowVersion(c)
  <2>1. ASSUME Committed(c) # 0, call[c].got = Committed(c) PROVE Abstract!TakeEffect(c)
    BY <1>2, <1>6, <2>1 DEF CheckRowVersion, Answer
  <2>. QED  BY <1>0, <1>1, <1>5, <1>6, <2>1 DEF CheckRowVersion
<1>7. CASE ReadDb(c)
  <2>1. ASSUME Committed(c) # 0 PROVE Abstract!TakeEffect(c)
    <3>1. call[c] \in CallState /\ call[c].outcome = "none"
      BY <1>7, Busy DEF ReadDb, IInv, Consistent, Idle
    <3>2. [call[c] EXCEPT !.pc = "set", !.view = Committed(c)]
            = [call[c] EXCEPT !.pc = "set", !.view = Committed(c), !.outcome = "none"]
      BY <3>1 DEF CallState
    <3>3. call' = [call EXCEPT ![c] = [call[c] EXCEPT !.pc = "set", !.view = Committed(c)]]
      BY <1>7, <2>1 DEF ReadDb
    <3>. QED  BY <1>2, <1>7, <2>1, <3>2, <3>3 DEF ReadDb
  <2>. QED  BY <1>5, <1>7, <2>1 DEF ReadDb
<1>8. CASE SetCache(c) \/ SetRefused(c)
  BY <1>0, <1>8, AnswerStutters DEF SetCache, SetRefused
<1>9. CASE SetThrows(c) \/ SetRejected(c) \/ DbFails(c)
  BY <1>5, <1>9 DEF SetThrows, SetRejected, DbFails
<1>12. CASE SendSet(c)
  <2> DEFINE s == [call[c] EXCEPT !.pc = "storing"]
  <2>1. call[c] \in CallState /\ call[c].pc = "set" /\ call[c].outcome = "none"
    BY <1>12, Busy DEF SendSet, IInv, Consistent, Idle
  <2>2. s.pc = "storing" /\ s.outcome = "none" /\ s.user = call[c].user /\ s.view = call[c].view
    BY <2>1 DEF CallState
  <2>3. call' = [call EXCEPT ![c] = s]
    BY <1>12 DEF SendSet, Goto
  <2> HIDE DEF s
  <2>4. AbstractRead(s) = Reads[c]
    BY <2>1, <2>2, ReadOf DEF AbstractRead
  <2>5. Reads' = [Reads EXCEPT ![c] = AbstractRead(s)]
    BY <2>3, OneRead
  <2>. QED  BY <1>0, <2>4, <2>5 DEF Reads
<1>10. CASE Fallback(c)
  <2>1. ASSUME Committed(c) # 0 PROVE Abstract!TakeEffect(c)
    BY <1>2, <1>10, <2>1 DEF Fallback, Answer
  <2>. QED  BY <1>5, <1>10, <2>1 DEF Fallback
<1>11. CASE Return(c) \/ Crash(c)
  <2>1. call' = [call EXCEPT ![c] = Idle] /\ call[c].pc # "idle"
    BY <1>11 DEF Return, Crash
  <2>2. Reads' = [Reads EXCEPT ![c] = AbstractRead(Idle)]
    BY <2>1, OneRead
  <2>3. Reads[c].phase # "free"
    BY <2>1, ReadOf
  <2>. QED  BY <1>0, <2>2, <2>3 DEF Abstract!Return, Abstract!Free, Reads, AbstractRead, Idle
<1>. QED
  BY <1>3, <1>4, <1>6, <1>7, <1>8, <1>9, <1>10, <1>11, <1>12 DEF Proceed

LEMMA RefineNext == IInv /\ [Next]_vars => [Abstract!Next]_(Abstract!vars)
<1> SUFFICES ASSUME IInv, [Next]_vars PROVE [Abstract!Next]_<<version, Reads>>
  BY DEF Abstract!vars, Reads
<1>1. ASSUME NEW u \in Users, Commit(u) PROVE Abstract!Commit(u)
  BY <1>1 DEF Commit, Abstract!Commit
<1>2. ASSUME NEW c \in Calls, NEW u \in Users, HandleAsync(c, u) PROVE Abstract!Invoke(c, u)
  <2>1. Reads' = [Reads EXCEPT ![c] = AbstractRead(Began(u))]
    BY <1>2, OneRead DEF HandleAsync
  <2>2. Reads[c].phase = "free"
    BY <1>2 DEF HandleAsync, Reads, AbstractRead
  <2>3. AbstractRead(Began(u)) = [phase |-> "invoked", user |-> u, view |-> 0]
    BY DEF AbstractRead, Began
  <2>. QED  BY <1>2, <2>1, <2>2, <2>3 DEF Abstract!Invoke, Reads, HandleAsync
<1>3. ASSUME RedisMoves \/ UNCHANGED vars PROVE UNCHANGED <<version, Reads>>
  BY <1>3 DEF RedisMoves, RedisHangs, RedisAnswers, RedisStop, RedisStart, vars, Reads
<1>. QED  BY <1>1, <1>2, <1>3, RefineCall DEF Next, RedisMoves, Abstract!Next

\* Reads through the cache are atomic reads of the committed row: every step of
\* the store is a step of AtomicView or changes nothing AtomicView sees.
THEOREM Linearizability == Spec => LinearizableReads
BY RefineInit, RefineNext, Invariance, PTL DEF Spec, LinearizableReads, Abstract!Spec

-----------------------------------------------------------------------------
(***************************************************************************)
(* The safety part of ConnectedCallsReturn: a call never goes back.         *)
(***************************************************************************)
\* The steps a call has at most before it is free again.
StepsLeft == [init |-> 8, get |-> 7, rowVersion |-> 6, readDb |-> 5, set |-> 4,
              storing |-> 3, fallback |-> 2, done |-> 1, idle |-> 0]

\* What changes a call takes it nearer to its return.
CallsAdvance ==
  \A c \in Calls :
    call[c].pc # "idle" /\ call'[c] # call[c] =>
      StepsLeft[call'[c].pc] < StepsLeft[call[c].pc]

\* A call of handleAsync takes eight steps at most, whatever Redis and the
\* database do: no miss, mismatch, failed GET or fallback takes it back to an
\* earlier statement, and no other call makes it start over.
THEOREM CallsEnd == Spec => [][CallsAdvance]_vars
<1>1. ASSUME IInv, Next PROVE CallsAdvance
  <2>1. CASE \E u \in Users : Commit(u)
    BY <2>1 DEF Commit, CallsAdvance
  <2>2. CASE RedisMoves
    BY <2>2 DEF RedisMoves, RedisHangs, RedisAnswers, RedisStop, RedisStart, CallsAdvance
  <2>3. ASSUME NEW c \in Calls,
               \/ \E u \in Users : HandleAsync(c, u)
               \/ Proceed(c) \/ InitThrows(c) \/ SetThrows(c) \/ DbFails(c) \/ Crash(c)
        PROVE  CallsAdvance
    <3>1. Typed
      BY <1>1 DEF IInv
    <3>2. \A d \in Calls \ {c} : call'[d] = call[d]
      BY <2>3, <3>1
         DEF HandleAsync, Proceed, InitRedis, InitThrows, GetCache, GetFails, CheckRowVersion,
             ReadDb, SendSet, SetRefused, SetCache, SetRejected, SetThrows, Fallback, Return,
             DbFails, Crash, Goto, Answer, Refuse, Typed
    <3>3. call[c] \in CallState
      BY <3>1 DEF Typed
    <3>4. call[c].pc # "idle" => StepsLeft[call'[c].pc] < StepsLeft[call[c].pc]
      <4>1. CASE \E u \in Users : HandleAsync(c, u)
        BY <4>1 DEF HandleAsync
      <4>2. CASE InitRedis(c) \/ InitThrows(c) \/ GetCache(c) \/ GetFails(c)
        BY <3>1, <3>3, <4>2
           DEF InitRedis, InitThrows, GetCache, GetFails, Goto, CallState, StepsLeft, Typed
      <4>3. CASE CheckRowVersion(c) \/ ReadDb(c) \/ Fallback(c) \/ DbFails(c)
        BY <3>1, <3>3, <4>3
           DEF CheckRowVersion, ReadDb, Fallback, DbFails, Goto, Answer, Refuse, CallState,
               StepsLeft, Typed
      <4>4. CASE SendSet(c) \/ SetRefused(c) \/ SetCache(c) \/ SetRejected(c) \/ SetThrows(c)
        BY <3>1, <3>3, <4>4
           DEF SendSet, SetRefused, SetCache, SetRejected, SetThrows, Goto, Answer, Refuse,
               CallState, StepsLeft, Typed
      <4>5. CASE Return(c) \/ Crash(c)
        <5>1. call'[c].pc = "idle"
          BY <3>1, <4>5 DEF Return, Crash, Idle, Typed
        <5>. QED  BY <3>3, <5>1 DEF CallState, Phases, StepsLeft
      <4>. QED  BY <2>3, <4>1, <4>2, <4>3, <4>4, <4>5 DEF Proceed
    <3>. QED  BY <3>2, <3>4 DEF CallsAdvance
  <2>. QED  BY <1>1, <2>1, <2>2, <2>3 DEF Next, RedisMoves
<1>2. IInv /\ [Next]_vars => [CallsAdvance]_vars
  BY <1>1
<1>. QED  BY <1>2, Invariance, PTL DEF Spec
=============================================================================
