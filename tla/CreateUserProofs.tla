--------------------------- MODULE CreateUserProofs ---------------------------
(***************************************************************************)
(* CreateUser for any number of requests, any contact data and any number   *)
(* of faults.                                                               *)
(***************************************************************************)
EXTENDS CreateUser, TLAPS

\* The tables a request has written into when it is at p.
Prior(p) ==
  CASE p = "communications" -> {"users"}
    [] p = "credentials" -> {"users", "communications"}
    [] p = "keys" -> {"users", "communications", "credentials"}
    [] p = "settings" -> {"users", "communications", "credentials", "keys"}
    [] p = "outbox" -> {"users", "communications", "credentials", "keys", "settings"}
    [] p \in {"respond", "commit"} -> Tables
    [] OTHER -> {}

\* A request at p, with rows w written and rows s committed, that has told its
\* client a and has published e.
Sound(p, w, s, a, e) ==
  /\ w = Prior(p)
  /\ s \in {{}, Tables}
  /\ s # {} => p \in {"answer", "done"}
  /\ p = "answer" => s = Tables
  /\ a # "none" => p = "done"
  /\ a = "created" => s = Tables
  /\ a = "conflict" => s = {}
  /\ e # "none" => s = Tables

\* The unique columns of the communications table keep r and q apart.
Apart(r, q) ==
  "communications" \in stored[r] \cup written[r] /\ "communications" \in stored[q] \cup written[q] =>
    Email[r] # Email[q] /\ Mobile[r] # Mobile[q]

\* The inductive invariant: what a request has written and committed follows
\* from where it is, and no two open or committed requests clash.
IInv ==
  /\ TypeOK
  /\ \A r \in Requests : Sound(pc[r], written[r], stored[r], answer[r], event[r])
  /\ UniqueContact

-----------------------------------------------------------------------------
LEMMA InitInv == Init => IInv
BY BoundsAssumption
   DEF Init, IInv, TypeOK, Sound, Prior, UniqueContact, Phases, Tables, Answers, Events

\* What an insert changes of the tables written.
LEMMA PriorAfter ==
  ASSUME NEW t \in Tables
  PROVE  /\ After[t] \in Tables \cup {"respond"}
         /\ Prior(After[t]) = Prior(t) \cup {t}
<1>1. CASE t = "users" BY <1>1 DEF After, Prior, Tables
<1>2. CASE t = "communications" BY <1>2 DEF After, Prior, Tables
<1>3. CASE t = "credentials" BY <1>3 DEF After, Prior, Tables
<1>4. CASE t = "keys" BY <1>4 DEF After, Prior, Tables
<1>5. CASE t = "settings" BY <1>5 DEF After, Prior, Tables
<1>6. CASE t = "outbox" BY <1>6 DEF After, Prior, Tables
<1>. QED  BY <1>1, <1>2, <1>3, <1>4, <1>5, <1>6 DEF Tables

\* A step of r preserves the invariant if it leaves r sound and apart from the
\* other requests, of which it changes nothing.
LEMMA OneRequest ==
  ASSUME IInv, TypeOK', NEW r \in Requests,
         \A q \in Requests \ {r} : /\ pc'[q] = pc[q] /\ written'[q] = written[q]
                                   /\ stored'[q] = stored[q] /\ answer'[q] = answer[q]
                                   /\ event'[q] = event[q],
         Sound(pc'[r], written'[r], stored'[r], answer'[r], event'[r]),
         \A q \in Requests \ {r} : Apart(r, q)'
  PROVE  IInv'
<1>1. \A q \in Requests : Sound(pc'[q], written'[q], stored'[q], answer'[q], event'[q])
  BY DEF IInv
<1>2. ASSUME NEW p \in Requests, NEW q \in Requests, p # q PROVE Apart(p, q)'
  <2>1. CASE p = r BY <1>2, <2>1
  <2>2. CASE q = r
    <3>1. Apart(q, p)'  BY <1>2, <2>2
    <3>. QED  BY <3>1 DEF Apart
  <2>3. CASE p # r /\ q # r
    BY <1>2, <2>3 DEF IInv, UniqueContact, Apart
  <2>. QED  BY <2>1, <2>2, <2>3
<1>3. UniqueContact'
  BY <1>2 DEF UniqueContact, Apart
<1>. QED  BY <1>1, <1>3 DEF IInv

\* A step that writes and commits no more than there was keeps r apart.
LEMMA StillApart ==
  ASSUME IInv, NEW r \in Requests,
         \A q \in Requests \ {r} : written'[q] = written[q] /\ stored'[q] = stored[q],
         stored'[r] \cup written'[r] \subseteq stored[r] \cup written[r]
  PROVE  \A q \in Requests \ {r} : Apart(r, q)'
BY DEF IInv, UniqueContact, Apart

LEMMA RollBackInv ==
  ASSUME IInv, NEW r \in Requests, NEW told \in {"failed", "conflict"},
         RollBack(r, told), pc[r] \notin {"answer", "done"}, faults' \in 0 .. MaxFaults
  PROVE  IInv'
<1>1. TypeOK'
  BY DEF RollBack, IInv, TypeOK, Phases, Answers
<1>2. Sound(pc'[r], written'[r], stored'[r], answer'[r], event'[r])
  BY DEF RollBack, IInv, TypeOK, Sound, Prior
<1>3. \A q \in Requests \ {r} : /\ pc'[q] = pc[q] /\ written'[q] = written[q]
                                /\ stored'[q] = stored[q] /\ answer'[q] = answer[q]
                                /\ event'[q] = event[q]
  BY DEF RollBack, IInv, TypeOK
<1>4. stored'[r] \cup written'[r] \subseteq stored[r] \cup written[r]
  BY DEF RollBack, IInv, TypeOK
<1>. QED  BY <1>1, <1>2, <1>3, <1>4, StillApart, OneRequest

\* A step of r that writes no row and touches no other request.
LEMMA QuietStep ==
  ASSUME IInv, NEW r \in Requests,
         Handle(r) \/ Prepare(r) \/ Respond(r) \/ Commit(r) \/ CommitFails(r)
           \/ Answer(r) \/ Publish(r) \/ PublishFails(r) \/ Crash(r)
  PROVE  IInv'
<1>0. Sound(pc[r], written[r], stored[r], answer[r], event[r]) /\ TypeOK
  BY DEF IInv
<1>1. TypeOK'
  BY <1>0, BoundsAssumption DEF TypeOK, Phases, Tables, Answers, Events, Fault, Handle, Prepare, Respond,
     Commit, CommitFails, Answer, Publish, PublishFails, Crash
<1>2. \A q \in Requests \ {r} : /\ pc'[q] = pc[q] /\ written'[q] = written[q]
                                /\ stored'[q] = stored[q] /\ answer'[q] = answer[q]
                                /\ event'[q] = event[q]
  BY <1>0 DEF TypeOK, Handle, Prepare, Respond, Commit, CommitFails, Answer, Publish,
     PublishFails, Crash
<1>3. /\ Sound(pc'[r], written'[r], stored'[r], answer'[r], event'[r])
      /\ stored'[r] \cup written'[r] \subseteq stored[r] \cup written[r]
  <2>1. CASE Handle(r) \/ Prepare(r) \/ Respond(r)
    BY <1>0, <2>1 DEF TypeOK, Sound, Prior, Handle, Prepare, Respond
  <2>2. CASE Commit(r) \/ CommitFails(r)
    BY <1>0, <2>2 DEF TypeOK, Sound, Prior, Commit, CommitFails
  <2>3. CASE Answer(r) \/ Publish(r) \/ PublishFails(r)
    BY <1>0, <2>3 DEF TypeOK, Sound, Prior, Answer, Publish, PublishFails
  <2>4. CASE Crash(r)
    BY <1>0, <2>4 DEF TypeOK, Sound, Prior, Crash
  <2>. QED  BY <2>1, <2>2, <2>3, <2>4
<1>. QED  BY <1>1, <1>2, <1>3, StillApart, OneRequest

\* The one step by which two requests could clash.
LEMMA InsertInv ==
  ASSUME IInv, NEW r \in Requests, Insert(r)
  PROVE  IInv'
<1>0. /\ Sound(pc[r], written[r], stored[r], answer[r], event[r]) /\ TypeOK
      /\ pc[r] \in Tables
  BY DEF IInv, Insert
<1>1. /\ pc' = [pc EXCEPT ![r] = After[pc[r]]]
      /\ written' = [written EXCEPT ![r] = written[r] \cup {pc[r]}]
      /\ UNCHANGED <<stored, answer, event, faults>>
  BY DEF Insert
<1>2. After[pc[r]] \in Tables \cup {"respond"} /\ Prior(After[pc[r]]) = Prior(pc[r]) \cup {pc[r]}
  BY <1>0, PriorAfter
<1>3. TypeOK'
  BY <1>0, <1>1, <1>2 DEF TypeOK, Phases
<1>4. \A q \in Requests \ {r} : /\ pc'[q] = pc[q] /\ written'[q] = written[q]
                                /\ stored'[q] = stored[q] /\ answer'[q] = answer[q]
                                /\ event'[q] = event[q]
  BY <1>0, <1>1 DEF TypeOK
<1>5. Sound(pc'[r], written'[r], stored'[r], answer'[r], event'[r])
  <2>1. pc'[r] = After[pc[r]] /\ written'[r] = written[r] \cup {pc[r]}
    BY <1>0, <1>1 DEF TypeOK
  <2>2. stored[r] = {} /\ answer[r] = "none" /\ event[r] = "none"
    BY <1>0 DEF Sound, Tables
  <2>. QED  BY <1>0, <1>1, <1>2, <2>1, <2>2 DEF Sound, Tables
<1>6. ASSUME NEW q \in Requests \ {r} PROVE Apart(r, q)'
  <2>1. CASE pc[r] = "communications"
    <3>1. "communications" \in stored[q] \cup written[q] => ~Clash("communications", q, r)
      BY <2>1 DEF Insert, Duplicate, Blocked
    <3>. QED  BY <1>1, <1>4, <3>1 DEF Apart, Clash
  <2>2. CASE pc[r] # "communications"
    <3>1. "communications" \in written'[r] => "communications" \in written[r]
      BY <1>0, <1>1, <2>2 DEF TypeOK
    <3>2. Apart(r, q)
      BY DEF IInv, UniqueContact, Apart
    <3>. QED  BY <1>1, <1>4, <3>1, <3>2 DEF Apart
  <2>. QED  BY <2>1, <2>2
<1>. QED  BY <1>3, <1>4, <1>5, <1>6, OneRequest

LEMMA NextInv == IInv /\ [Next]_vars => IInv'
<1> SUFFICES ASSUME IInv, [Next]_vars PROVE IInv'
  OBVIOUS
<1>1. ASSUME NEW r \in Requests, Invalid(r) \/ Conflict(r) \/ StepFails(r) PROVE IInv'
  <2>1. faults' \in 0 .. MaxFaults
    BY <1>1, BoundsAssumption DEF IInv, TypeOK, Invalid, Conflict, StepFails, Fault
  <2>2. pc[r] \notin {"answer", "done"} /\ \E told \in {"failed", "conflict"} : RollBack(r, told)
    BY <1>1 DEF Invalid, Conflict, StepFails, Tables
  <2>. QED  BY <2>1, <2>2, RollBackInv
<1>2. CASE UNCHANGED vars
  BY <1>2 DEF vars, IInv, TypeOK, UniqueContact
<1>. QED  BY <1>1, <1>2, QuietStep, InsertInv DEF Next, Proceed

THEOREM Invariance == Spec => []IInv
BY InitInv, NextInv, PTL DEF Spec

-----------------------------------------------------------------------------
\* Every reachable state has its type.
THEOREM TypeCorrect == Spec => []TypeOK
BY Invariance, PTL DEF IInv

\* A user is committed with all of its rows, the outbox row included, or not at
\* all, whatever fails on the way.
THEOREM Atomicity == Spec => []AllOrNothing
<1>1. IInv => AllOrNothing
  BY DEF IInv, Sound, AllOrNothing
<1>. QED  BY <1>1, Invariance, PTL

\* However the inserts of concurrent requests interleave, no two users share an
\* email or a mobile number.
THEOREM Uniqueness == Spec => []UniqueContact
BY Invariance, PTL DEF IInv

\* The refresh event of a user is never ahead of the commit.
THEOREM EventOrder == Spec => []EventsFollowCommit
<1>1. IInv => EventsFollowCommit
  BY DEF IInv, Sound, EventsFollowCommit
<1>. QED  BY <1>1, Invariance, PTL

-----------------------------------------------------------------------------
(***************************************************************************)
(* Refinement of AtomicRegistration.                                       *)
(***************************************************************************)
Registered == {r \in Requests : stored[r] # {}}

LEMMA RefineInit == Init => Registration!Init
BY DEF Init, Registration!Init

\* At its commit, no user stands in the way of a request.
LEMMA NothingInTheWay ==
  ASSUME IInv, NEW r \in Requests, pc[r] = "commit"
  PROVE  /\ r \notin Registered
         /\ written[r] = Tables
         /\ answer[r] = "none"
         /\ \A q \in Registered : q # r => Email[q] # Email[r] /\ Mobile[q] # Mobile[r]
<1>1. Sound(pc[r], written[r], stored[r], answer[r], event[r])
  BY DEF IInv
<1>2. stored[r] = {} /\ written[r] = Tables /\ answer[r] = "none"
  BY <1>1 DEF Sound, Prior
<1>3. ASSUME NEW q \in Registered, q # r PROVE Email[q] # Email[r] /\ Mobile[q] # Mobile[r]
  <2>1. q \in Requests /\ stored[q] = Tables
    BY DEF IInv, Sound, Registered
  <2>. QED  BY <1>2, <1>3, <2>1 DEF IInv, UniqueContact, Tables
<1>. QED  BY <1>2, <1>3 DEF Registered

\* A rollback tells the client, and registers nobody.
LEMMA RefineRollBack ==
  ASSUME IInv, NEW r \in Requests, NEW told, RollBack(r, told),
         pc[r] \notin {"answer", "done"}
  PROVE  /\ r \notin Registered /\ Registered' = Registered
         /\ answer[r] = "none" /\ answer' = [answer EXCEPT ![r] = told]
<1>1. Sound(pc[r], written[r], stored[r], answer[r], event[r])
  BY DEF IInv
<1>. QED  BY <1>1 DEF Sound, RollBack, Registered

\* The step that makes the rows of a request visible registers its user.
LEMMA RefineCommit ==
  ASSUME IInv, NEW r \in Requests, pc[r] = "commit",
         stored' = [stored EXCEPT ![r] = written[r]]
  PROVE  /\ answer[r] = "none" /\ r \notin Registered /\ Registered' = Registered \cup {r}
         /\ ~\E q \in Registered : q # r /\ (Email[q] = Email[r] \/ Mobile[q] = Mobile[r])
<1>1. stored'[r] = Tables /\ \A q \in Requests \ {r} : stored'[q] = stored[q]
  BY NothingInTheWay DEF IInv, TypeOK
<1>. QED  BY <1>1, NothingInTheWay DEF Registered, Tables

LEMMA RefineNext == IInv /\ [Next]_vars => [Registration!Next]_(Registration!vars)
<1> SUFFICES ASSUME IInv, [Next]_vars PROVE [Registration!Next]_<<Registered, answer>>
  BY DEF Registration!vars, Registered
<1>1. ASSUME NEW r \in Requests, Invalid(r) \/ StepFails(r) PROVE Registration!Failed(r)
  <2>1. RollBack(r, "failed") /\ pc[r] \notin {"answer", "done"}
    BY <1>1 DEF Invalid, StepFails, Tables
  <2>. QED  BY <2>1, RefineRollBack DEF Registration!Failed, Registration!Tell, Registered
<1>2. ASSUME NEW r \in Requests, Conflict(r) PROVE Registration!Conflict(r)
  <2>1. RollBack(r, "conflict") /\ pc[r] \notin {"answer", "done"}
    BY <1>2 DEF Conflict, Tables
  <2>2. \E q \in Registered : q # r /\ (Email[q] = Email[r] \/ Mobile[q] = Mobile[r])
    BY <1>2 DEF Conflict, Duplicate, Clash, Registered
  <2>. QED
    BY <2>1, <2>2, RefineRollBack
       DEF Registration!Conflict, Registration!Conflicts, Registration!Tell, Registered
<1>3. ASSUME NEW r \in Requests, Commit(r) PROVE Registration!Register(r)
  BY <1>3, RefineCommit
     DEF Commit, Registration!Register, Registration!Conflicts, Registered
<1>4. ASSUME NEW r \in Requests, CommitFails(r)
      PROVE  Registration!Failed(r) \/ Registration!RegisterFailed(r)
  <2>1. pc[r] = "commit" /\ answer' = [answer EXCEPT ![r] = "failed"] /\ answer[r] = "none"
    BY <1>4, NothingInTheWay DEF CommitFails
  <2>2. CASE stored' = stored
    BY <2>1, <2>2 DEF Registration!Failed, Registration!Tell
  <2>3. CASE stored' = [stored EXCEPT ![r] = written[r]]
    BY <2>1, <2>3, RefineCommit
       DEF Registration!RegisterFailed, Registration!Conflicts, Registered
  <2>. QED  BY <1>4, <2>2, <2>3 DEF CommitFails
<1>5. ASSUME NEW r \in Requests, Answer(r) PROVE Registration!Created(r)
  <2>1. Sound(pc[r], written[r], stored[r], answer[r], event[r])
    BY DEF IInv
  <2>. QED
    BY <1>5, <2>1 DEF Sound, Answer, Tables, Registration!Created, Registration!Tell
<1>6. ASSUME NEW r \in Requests, Crash(r)
      PROVE  Registration!Failed(r) \/ UNCHANGED <<Registered, answer>>
  <2>1. CASE answer[r] = "none"
    <3>1. answer' = [answer EXCEPT ![r] = "failed"] /\ UNCHANGED stored
      BY <1>6, <2>1 DEF Crash
    <3>. QED  BY <2>1, <3>1 DEF Registration!Failed, Registration!Tell
  <2>2. CASE answer[r] # "none"
    BY <1>6, <2>2 DEF Crash, IInv, TypeOK, Registered
  <2>. QED  BY <2>1, <2>2
<1>7. ASSUME NEW r \in Requests,
             Handle(r) \/ Prepare(r) \/ Insert(r) \/ Respond(r) \/ Publish(r)
               \/ PublishFails(r)
      PROVE  UNCHANGED <<Registered, answer>>
  BY <1>7 DEF Handle, Prepare, Insert, Respond, Publish, PublishFails, Registered
<1>8. CASE UNCHANGED vars
  BY <1>8 DEF vars, Registered
<1>. QED
  BY <1>1, <1>2, <1>3, <1>4, <1>5, <1>6, <1>7, <1>8 DEF Next, Proceed, Registration!Next

\* The command, with its statements interleaved with those of other requests and
\* failing anywhere, registers in one instant and tells its client the truth.
THEOREM AtomicRegistrations == Spec => RegistersAtomically
BY RefineInit, RefineNext, Invariance, PTL
   DEF Spec, RegistersAtomically, Registration!Spec

-----------------------------------------------------------------------------
(***************************************************************************)
(* Who waits for whom.                                                      *)
(***************************************************************************)
\* The insert that r is at waits for a row that the transaction of q has written.
WaitsFor(r, q) == q # r /\ pc[r] \in written[q] /\ Clash(pc[r], q, r)

\* The insert into communications decides: the email of a request is unique there
\* before it is at credentials, whose own constraint never has to.
DecidedEarly == \A r \in Requests : Blocked(r) \/ Duplicate(r) => pc[r] = "communications"

\* Nobody waits for somebody who waits, or who will be refused.
WaitsAreShort ==
  \A r, q \in Requests :
    WaitsFor(r, q) =>
      pc[q] \in (Tables \cup {"respond", "commit"}) /\ ~Blocked(q) /\ ~Duplicate(q)

\* What has been written by then keeps an insert into credentials from clashing.
LEMMA CredentialsApart ==
  ASSUME IInv, NEW r \in Requests, pc[r] = "credentials",
         NEW q \in Requests \ {r}, "credentials" \in written[q] \cup stored[q]
  PROVE  Email[q] # Email[r]
<1>1. "communications" \in written[r]
  BY DEF IInv, Sound, Prior
<1>2. "communications" \in written[q] \cup stored[q]
  <2>1. /\ stored[q] \in {{}, Tables}
        /\ written[q] = Prior(pc[q])
    BY DEF IInv, Sound
  <2>2. "credentials" \in Prior(pc[q]) => "communications" \in Prior(pc[q])
    BY DEF Prior, Tables
  <2>. QED
    BY <2>1, <2>2 DEF Tables
<1>. QED
  BY <1>1, <1>2 DEF IInv, UniqueContact

LEMMA EarlyFromInv == IInv => DecidedEarly
<1>. SUFFICES ASSUME IInv, NEW r \in Requests, Blocked(r) \/ Duplicate(r)
              PROVE  pc[r] = "communications"
  BY DEF DecidedEarly
<1>1. PICK q \in Requests \ {r} : pc[r] \in written[q] \cup stored[q] /\ Clash(pc[r], q, r)
  BY DEF Blocked, Duplicate
<1>2. pc[r] \in {"communications", "credentials"} /\ (pc[r] = "credentials" => Email[q] = Email[r])
  BY <1>1 DEF Clash
<1>. QED
  BY <1>1, <1>2, CredentialsApart

LEMMA ShortFromInv == IInv => WaitsAreShort
<1>. SUFFICES ASSUME IInv, NEW r \in Requests, NEW q \in Requests, WaitsFor(r, q)
              PROVE  /\ pc[q] \in (Tables \cup {"respond", "commit"})
                     /\ ~Blocked(q) /\ ~Duplicate(q)
  BY DEF WaitsAreShort
<1>1. pc[r] = "communications"
  BY EarlyFromInv DEF DecidedEarly, WaitsFor, Blocked
<1>2. "communications" \in Prior(pc[q])
  BY <1>1 DEF WaitsFor, IInv, Sound
<1>3. pc[q] # "communications" /\ pc[q] \in (Tables \cup {"respond", "commit"})
  BY <1>2 DEF Prior, Tables
<1>. QED
  BY <1>3, EarlyFromInv DEF DecidedEarly

\* Conflicts over contact data are decided by the communications table alone.
THEOREM Decision == Spec => []DecidedEarly
BY EarlyFromInv, Invariance, PTL

\* However many requests ask for the same contact data, the transaction that a
\* request waits for waits for nobody and meets no conflict: chains of waiting
\* are one link long, and there is no deadlock.
THEOREM NoWaitingChains == Spec => []WaitsAreShort
BY ShortFromInv, Invariance, PTL

\* The steps a request has at most before it is answered.
StepsLeft == [idle |-> 11, prepare |-> 10, users |-> 9, communications |-> 8, credentials |-> 7,
              keys |-> 6, settings |-> 5, outbox |-> 4, respond |-> 3, commit |-> 2, answer |-> 1,
              done |-> 0]

\* A step moves one request at most, and moves it on.
RequestsAdvance ==
  \A r \in Requests :
    pc'[r] # pc[r] =>
      /\ StepsLeft[pc'[r]] < StepsLeft[pc[r]]
      /\ \A q \in Requests \ {r} : pc'[q] = pc[q]

\* A request is never taken back to an insert that it has made, by an error, a
\* conflict or the outcome of another request: besides its waits it takes eleven
\* steps at most.
THEOREM RequestsEnd == Spec => [][RequestsAdvance]_vars
<1>1. ASSUME IInv, Next PROVE RequestsAdvance
  <2>1. PICK r \in Requests :
          \/ Handle(r) \/ Proceed(r) \/ Publish(r)
          \/ StepFails(r) \/ CommitFails(r) \/ PublishFails(r) \/ Crash(r)
    BY <1>1 DEF Next
  <2>2. pc \in [Requests -> Phases]
    BY <1>1 DEF IInv, TypeOK
  <2>3. /\ \A q \in Requests \ {r} : pc'[q] = pc[q]
        /\ pc'[r] # pc[r] => StepsLeft[pc'[r]] < StepsLeft[pc[r]]
    <3>1. CASE Handle(r) \/ Prepare(r) \/ Respond(r) \/ Commit(r) \/ CommitFails(r) \/ Answer(r)
      BY <2>2, <3>1 DEF Handle, Prepare, Respond, Commit, CommitFails, Answer, StepsLeft
    <3>2. CASE Insert(r)
      BY <2>2, <3>2 DEF Insert, Tables, After, StepsLeft
    <3>3. CASE Invalid(r) \/ Conflict(r) \/ StepFails(r) \/ Crash(r)
      BY <2>2, <3>3
         DEF Invalid, Conflict, StepFails, Crash, RollBack, Phases, Tables, StepsLeft
    <3>4. CASE Publish(r) \/ PublishFails(r)
      BY <3>4 DEF Publish, PublishFails
    <3>. QED
      BY <2>1, <3>1, <3>2, <3>3, <3>4 DEF Proceed
  <2>. QED
    BY <2>3 DEF RequestsAdvance
<1>2. IInv /\ [Next]_vars => [RequestsAdvance]_vars
  BY <1>1
<1>. QED
  BY <1>2, Invariance, PTL DEF Spec
=============================================================================
