----------------------- MODULE WelcomeEmailOutboxProofs -----------------------
(***************************************************************************)
(* WelcomeEmailOutbox for any number of rows, of overlapping ticks and of   *)
(* faults of any kind.                                                      *)
(***************************************************************************)
EXTENDS WelcomeEmailOutbox, FiniteSetTheorems, TLAPS

\* The committed rows of r agree with each other and with what was sent.
RowOK(r) ==
  /\ outbox[r].jobStatus # "NONE" => user[r].version > 0
  /\ outbox[r].jobStatus = "PENDING" => Claimable(r)
  /\ outbox[r].jobStatus = "COMPLETED" => user[r].welcome = "YES"
  /\ user[r].welcome = "YES" => sent[r] > 0
  /\ user[r].welcome = "YES" <=> user[r].version > 1

\* A tick works on rows that exist, and completes only what was sent.
ItemOK(t, r) ==
  /\ item[t][r] # "out" => user[r].version > 0
  /\ item[t][r] \in {"accepted", "completed"} => sent[r] > 0

\* The inductive invariant.  What a batch has not committed yet must already
\* be justified, as other ticks may commit, abort or crash in between.
IInv ==
  /\ TypeOK
  /\ \A r \in Rows : RowOK(r)
  /\ \A t \in Ticks, r \in Rows : ItemOK(t, r)

-----------------------------------------------------------------------------
LEMMA InitInv == Init => IInv
BY BoundsAssumption
   DEF Init, IInv, TypeOK, RowOK, ItemOK, Claimable, OutboxRow, JobStatus, User, TickPhases,
       Items, Nothing

\* Counting a send never loses the sends before it.
LEMMA OneMoreType ==
  ASSUME NEW n \in 0 .. MaxSends
  PROVE  OneMore(n) \in 0 .. MaxSends /\ OneMore(n) > 0 /\ OneMore(n) >= n
BY BoundsAssumption DEF OneMore

LEMMA SentMore ==
  ASSUME TypeOK, NEW r \in Rows, sent' = [sent EXCEPT ![r] = OneMore(sent[r])]
  PROVE  /\ sent' \in [Rows -> 0 .. MaxSends]
         /\ sent'[r] > 0
         /\ \A q \in Rows : sent'[q] >= sent[q]
<1>1. sent[r] \in 0 .. MaxSends
  BY DEF TypeOK
<1>. QED  BY <1>1, OneMoreType, BoundsAssumption DEF TypeOK

\* What a step of one handler makes of the items.
LEMMA OneItem ==
  ASSUME TypeOK, NEW t \in Ticks, NEW r \in Rows, NEW to \in Items, Step(t, r, to)
  PROVE  /\ item' \in [Ticks -> [Rows -> Items]]
         /\ \A s \in Ticks, q \in Rows :
              item'[s][q] = IF s = t /\ q = r THEN to ELSE item[s][q]
BY DEF TypeOK, Step

\* The steps of a handler, which commit nothing.
LEMMA HandlerInv ==
  ASSUME IInv, NEW t \in Ticks, NEW r \in Rows, NEW to \in Items,
         item[t][r] # "out", Step(t, r, to), UNCHANGED rows,
         orphans' \in [Rows -> Nat], missed' \subseteq Rows,
         \/ UNCHANGED sent
         \/ sent' = [sent EXCEPT ![r] = OneMore(sent[r])],
         to \in {"accepted", "completed"} => sent'[r] > 0,
         tick' \in [Ticks -> TickPhases],
         faults' \in 0 .. MaxFaults
  PROVE  IInv'
<1>1. /\ sent' \in [Rows -> 0 .. MaxSends]
      /\ \A q \in Rows : sent'[q] >= sent[q]
  BY SentMore, BoundsAssumption DEF IInv, TypeOK
<1>2. /\ item' \in [Ticks -> [Rows -> Items]]
      /\ \A s \in Ticks, q \in Rows : item'[s][q] = IF s = t /\ q = r THEN to ELSE item[s][q]
  BY OneItem DEF IInv
<1>3. TypeOK'
  BY <1>1, <1>2 DEF IInv, TypeOK, rows
<1>4. \A q \in Rows : sent[q] \in Nat /\ sent'[q] \in Nat
  BY <1>1, BoundsAssumption DEF IInv, TypeOK
<1>5. ASSUME NEW q \in Rows PROVE RowOK(q)'
  BY <1>1, <1>4 DEF IInv, RowOK, Claimable, rows
<1>6. ASSUME NEW s \in Ticks, NEW q \in Rows PROVE ItemOK(s, q)'
  BY <1>1, <1>2, <1>4 DEF IInv, ItemOK, rows
<1>. QED  BY <1>3, <1>5, <1>6 DEF IInv

LEMMA FaultType == ASSUME TypeOK, NEW k, Fault(k) PROVE faults' \in 0 .. MaxFaults
BY BoundsAssumption DEF TypeOK, Fault

LEMMA HandlersInv ==
  ASSUME IInv, NEW t \in Ticks, NEW r \in Rows,
         \/ Handle(t, r) \/ ReplyMissed(t, r) \/ SendThrows(t, r) \/ Refuse(t, r)
         \/ Stall(t, r) \/ ReplyLost(t, r) \/ SqlFails(t, r)
  PROVE  IInv'
<1>0. TypeOK /\ (item[t][r] = "accepted" => sent[r] > 0) /\ faults \in 0 .. MaxFaults
  BY DEF IInv, ItemOK, TypeOK
<1>1. CASE Send(t, r)
  BY <1>0, <1>1, HandlerInv DEF Send, effects, Items, TypeOK
<1>2. CASE SendThrows(t, r)
  <2>1. faults' \in 0 .. MaxFaults
    BY <1>0, <1>2, FaultType DEF SendThrows
  <2>2. orphans' \in [Rows -> Nat]
    BY <1>0, <1>2 DEF SendThrows, TypeOK
  <2>. QED  BY <1>0, <1>2, <2>1, <2>2, HandlerInv DEF SendThrows, Items, TypeOK
<1>3. CASE Deliver(t, r)
  <2>1. sent' = [sent EXCEPT ![r] = OneMore(sent[r])] /\ sent'[r] > 0
    BY <1>0, <1>3, SentMore DEF Deliver
  <2>. QED  BY <1>0, <1>3, <2>1, HandlerInv DEF Deliver, Items, TypeOK
<1>4. CASE Refuse(t, r)
  <2>1. faults' \in 0 .. MaxFaults
    BY <1>0, <1>4, FaultType DEF Refuse
  <2>. QED  BY <1>0, <1>4, <2>1, HandlerInv DEF Refuse, effects, Items, TypeOK
<1>5. CASE Stall(t, r)
  <2>1. faults' \in 0 .. MaxFaults
    BY <1>0, <1>5, FaultType DEF Stall
  <2>2. PICK to \in {"requeued", "abandoned"} : Step(t, r, to)
    BY <1>5 DEF Stall
  <2>3. \/ UNCHANGED sent
        \/ sent' = [sent EXCEPT ![r] = OneMore(sent[r])]
    BY <1>5 DEF Stall
  <2>4. /\ item[t][r] # "out" /\ to \in Items /\ to \notin {"accepted", "completed"}
        /\ UNCHANGED <<rows, tick, orphans, missed>>
    BY <1>5 DEF Stall, Items
  <2>. QED  BY <1>0, <2>1, <2>2, <2>3, <2>4, HandlerInv DEF TypeOK
<1>6. CASE ReplyLost(t, r)
  <2>1. faults' \in 0 .. MaxFaults
    BY <1>0, <1>6, FaultType DEF ReplyLost
  <2>2. PICK to \in {"lost", "abandoned"} : Step(t, r, to)
    BY <1>6 DEF ReplyLost
  <2>3. \/ UNCHANGED sent
        \/ sent' = [sent EXCEPT ![r] = OneMore(sent[r])]
    BY <1>6 DEF ReplyLost
  <2>4. /\ item[t][r] # "out" /\ to \in Items /\ to \notin {"accepted", "completed"}
        /\ UNCHANGED <<rows, tick, orphans, missed>>
    BY <1>6 DEF ReplyLost, Items
  <2>. QED  BY <1>0, <2>1, <2>2, <2>3, <2>4, HandlerInv DEF TypeOK
<1>7. CASE UpdateEmail(t, r)
  <2>1. PICK to \in {"completed", "refused"} : Step(t, r, to)
    BY <1>7 DEF UpdateEmail
  <2>2. /\ item[t][r] = "accepted" /\ to \in Items
        /\ UNCHANGED <<rows, tick, effects, faults>>
    BY <1>7 DEF UpdateEmail, Items
  <2>. QED  BY <1>0, <2>1, <2>2, HandlerInv DEF effects, TypeOK
<1>8. CASE ReverseOutbox(t, r)
  BY <1>0, <1>8, HandlerInv DEF ReverseOutbox, effects, Items, TypeOK
<1>9. CASE SqlFails(t, r)
  <2>1. faults' \in 0 .. MaxFaults
    BY <1>0, <1>9, FaultType DEF SqlFails
  <2>2. tick' \in [Ticks -> TickPhases] /\ item[t][r] # "out"
    BY <1>0, <1>9 DEF SqlFails, Wants, TypeOK, TickPhases
  <2>. QED  BY <1>0, <1>9, <2>1, <2>2, HandlerInv DEF SqlFails, effects, Items, TypeOK
<1>10. CASE WriteAborted(t, r)
  BY <1>0, <1>10, HandlerInv DEF WriteAborted, effects, Items, TypeOK
<1>11. CASE ReplyMissed(t, r)
  <2>1. faults' \in 0 .. MaxFaults
    BY <1>0, <1>11, FaultType DEF ReplyMissed
  <2>2. /\ item[t][r] # "out" /\ Step(t, r, "abandoned")
        /\ UNCHANGED <<rows, tick, orphans>> /\ missed' \subseteq Rows
        /\ UNCHANGED sent \/ sent' = [sent EXCEPT ![r] = OneMore(sent[r])]
    BY <1>0, <1>11 DEF ReplyMissed, TypeOK
  <2>. QED  BY <1>0, <2>1, <2>2, HandlerInv DEF Items, TypeOK
<1>. QED
  BY <1>1, <1>2, <1>3, <1>4, <1>5, <1>6, <1>7, <1>8, <1>9, <1>10, <1>11 DEF Handle

-----------------------------------------------------------------------------
\* The number of rows of some kind is a number.
LEMMA CountType ==
  ASSUME NEW S, NEW T, IsFiniteSet(T), S \subseteq T
  PROVE  Cardinality(S) \in Nat
BY FS_Subset, FS_CardinalityType

LEMMA CreateInv ==
  ASSUME IInv, NEW r \in Rows, CreateUser(r)
  PROVE  IInv'
<1>1. Cardinality({q \in Rows : born[q] > 0}) \in Nat
  BY CountType, FiniteAssumption
<1>2. PICK s \in {"ACTIVE", "INACTIVE"} :
        user' = [user EXCEPT ![r] = [status |-> s, welcome |-> "NO", version |-> 1]]
  BY StatusAssumption DEF CreateUser
<1>3. TypeOK'
  BY <1>1, <1>2 DEF CreateUser, IInv, TypeOK, OutboxRow, JobStatus, User, Pending, work, effects
<1>4. \A q \in Rows \ {r} : outbox'[q] = outbox[q] /\ user'[q] = user[q]
  BY <1>2 DEF CreateUser, IInv, TypeOK
<1>5. outbox'[r] = Pending /\ user'[r] = [status |-> s, welcome |-> "NO", version |-> 1]
  BY <1>2 DEF CreateUser, IInv, TypeOK
<1>6. ASSUME NEW q \in Rows PROVE RowOK(q)'
  <2>1. CASE q = r  BY <1>5, <2>1 DEF RowOK, Claimable, Pending
  <2>2. CASE q # r  BY <1>4, <2>2 DEF IInv, RowOK, Claimable, CreateUser, effects
  <2>. QED  BY <2>1, <2>2
<1>7. ASSUME NEW t \in Ticks, NEW q \in Rows PROVE ItemOK(t, q)'
  BY <1>4, <1>5 DEF IInv, ItemOK, CreateUser, work, effects
<1>. QED  BY <1>3, <1>6, <1>7 DEF IInv

\* A step that changes nothing but the tick, and its items to others that are
\* as well justified.
LEMMA TickInv ==
  ASSUME IInv, UNCHANGED <<rows, effects>>, NEW t \in Ticks, TypeOK',
         \A s \in Ticks \ {t} : item'[s] = item[s],
         \A r \in Rows : /\ item'[t][r] \notin {"accepted", "completed"}
                         /\ item'[t][r] # "out" =>
                              item[t][r] # "out" \/ outbox[r].jobStatus # "NONE"
  PROVE  IInv'
<1>1. ASSUME NEW q \in Rows PROVE RowOK(q)'
  BY DEF IInv, RowOK, Claimable, rows, effects
<1>2. ASSUME NEW s \in Ticks, NEW q \in Rows PROVE ItemOK(s, q)'
  BY DEF IInv, RowOK, ItemOK, rows, effects
<1>. QED  BY <1>1, <1>2 DEF IInv

LEMMA SelectInv ==
  ASSUME IInv, NEW t \in Ticks, Select(t)
  PROVE  IInv'
<1>1. PICK S \in Batches :
        item' = [item EXCEPT ![t] = [r \in Rows |-> IF r \in S THEN "listed" ELSE "out"]]
  BY DEF Select
<1>2. \A r \in S : r \in Rows /\ outbox[r].jobStatus = "PENDING"
  BY DEF Batches, Claimable
<1>3. TypeOK'
  BY <1>1 DEF Select, IInv, TypeOK, Items, TickPhases, rows, effects
<1>4. /\ \A s \in Ticks \ {t} : item'[s] = item[s]
      /\ \A r \in Rows : item'[t][r] = IF r \in S THEN "listed" ELSE "out"
  BY <1>1 DEF IInv, TypeOK
<1>. QED  BY <1>2, <1>3, <1>4, TickInv DEF Select

\* The end of a tick that records nothing.
LEMMA OverInv ==
  ASSUME IInv, NEW t \in Ticks, Over(t), UNCHANGED <<rows, effects>>, faults' \in 0 .. MaxFaults
  PROVE  IInv'
<1>1. TypeOK'
  BY DEF Over, IInv, TypeOK, Items, TickPhases, Nothing, rows, effects
<1>2. /\ \A s \in Ticks \ {t} : item'[s] = item[s]
      /\ \A r \in Rows : item'[t][r] = "out"
  BY DEF Over, IInv, TypeOK, Nothing
<1>. QED  BY <1>1, <1>2, TickInv

\* A claim takes rows that exist, and takes them even from a tick that is
\* working on them.
LEMMA ClaimInv ==
  ASSUME IInv, NEW t \in Ticks, Claim(t)
  PROVE  IInv'
<1>1. \A r \in Rows : outbox[r] \in OutboxRow
  BY DEF IInv, TypeOK
<1>2. \A r \in Rows : /\ Processing(outbox[r]) \in OutboxRow
                      /\ Processing(outbox[r]).jobStatus = "PROCESSING"
  BY <1>1 DEF Processing, OutboxRow, JobStatus
<1>3. \A r \in Rows :
        outbox'[r] = IF item[t][r] = "listed" THEN Processing(outbox[r]) ELSE outbox[r]
  BY DEF Claim
<1>4. /\ \A s \in Ticks \ {t} : item'[s] = item[s]
      /\ \A r \in Rows : item'[t][r] = IF item[t][r] = "listed" THEN "ready" ELSE "out"
  BY DEF Claim, IInv, TypeOK
<1>5. TypeOK'
  <2>1. outbox' \in [Rows -> OutboxRow]
    BY <1>1, <1>2 DEF Claim
  <2>2. item' \in [Ticks -> [Rows -> Items]] /\ tick' \in [Ticks -> TickPhases]
    BY DEF Claim, IInv, TypeOK, Items, TickPhases
  <2>. QED  BY <2>1, <2>2 DEF Claim, IInv, TypeOK, effects
<1>6. ASSUME NEW r \in Rows PROVE RowOK(r)'
  <2>1. CASE item[t][r] = "listed"
    BY <1>2, <1>3, <2>1 DEF IInv, RowOK, ItemOK, Claim, effects
  <2>2. CASE item[t][r] # "listed"
    BY <1>3, <2>2 DEF IInv, RowOK, Claimable, Claim, effects
  <2>. QED  BY <2>1, <2>2
<1>7. ASSUME NEW s \in Ticks, NEW r \in Rows PROVE ItemOK(s, r)'
  BY <1>4 DEF IInv, ItemOK, Claim, effects
<1>. QED  BY <1>5, <1>6, <1>7 DEF IInv

\* What the commit makes of the user of a completed row.
LEMMA WelcomedUser ==
  ASSUME NEW u \in User
  PROVE  /\ Welcomed(u) \in User
         /\ Welcomed(u).welcome = "YES"
         /\ Welcomed(u).version = u.version + 1
BY DEF Welcomed, User

\* The commit records only what its handlers had reason to write.
LEMMA CommitInv ==
  ASSUME IInv, NEW t \in Ticks, Commit(t)
  PROVE  IInv'
<1>1. \A r \in Rows : user[r] \in User /\ outbox[r] \in OutboxRow
  BY DEF IInv, TypeOK
<1>2. \A r \in Rows : /\ Welcomed(user[r]) \in User
                      /\ Welcomed(user[r]).welcome = "YES"
                      /\ Welcomed(user[r]).version = user[r].version + 1
  BY <1>1, WelcomedUser
<1>3. Completed \in OutboxRow /\ Reversed \in OutboxRow
  BY DEF Completed, Reversed, Pending, OutboxRow, JobStatus
<1>4. /\ \A s \in Ticks \ {t} : item'[s] = item[s]
      /\ \A r \in Rows : item'[t][r] = "out"
      /\ item' \in [Ticks -> [Rows -> Items]] /\ tick' \in [Ticks -> TickPhases]
  BY DEF Commit, Over, IInv, TypeOK, Nothing, Items, TickPhases
<1>5. TypeOK'
  <2>1. outbox' \in [Rows -> OutboxRow] /\ user' \in [Rows -> User]
    BY <1>1, <1>2, <1>3 DEF Commit
  <2>. QED  BY <1>4, <2>1 DEF Commit, IInv, TypeOK, effects
<1>6. ASSUME NEW r \in Rows PROVE RowOK(r)' /\ user'[r].version >= user[r].version
  <2>0. user[r].version \in Nat
    BY <1>1 DEF User
  <2>1. CASE Holds(t, r) /\ item[t][r] = "completed"
    <3>1. outbox'[r] = Completed /\ user'[r] = Welcomed(user[r])
      BY <2>1 DEF Commit
    <3>2. sent'[r] > 0 /\ user[r].version > 0
      BY <2>1 DEF IInv, ItemOK, Commit, effects
    <3>. QED  BY <1>2, <2>0, <3>1, <3>2 DEF RowOK, Completed
  <2>2. CASE Holds(t, r) /\ item[t][r] # "completed"
    <3>1. outbox'[r] = Reversed /\ user'[r] = user[r] /\ sent'[r] = sent[r]
      BY <2>2 DEF Commit, effects
    <3>2. user[r].version > 0
      BY <2>2 DEF IInv, ItemOK, Holds
    <3>. QED  BY <2>0, <3>1, <3>2 DEF IInv, RowOK, Reversed, Pending, Claimable
  <2>3. CASE ~Holds(t, r)
    <3>1. outbox'[r] = outbox[r] /\ user'[r] = user[r] /\ sent'[r] = sent[r]
      BY <2>3 DEF Commit, effects
    <3>. QED  BY <2>0, <3>1 DEF IInv, RowOK, Claimable
  <2>. QED  BY <2>1, <2>2, <2>3
<1>7. ASSUME NEW s \in Ticks, NEW r \in Rows PROVE ItemOK(s, r)'
  <2>1. user[r].version \in Nat /\ user'[r].version \in Nat
    BY <1>1, <1>5 DEF TypeOK, User
  <2>. QED  BY <1>4, <1>6, <2>1 DEF IInv, ItemOK, Commit, effects
<1>. QED  BY <1>5, <1>6, <1>7 DEF IInv

\* A crash forgets what was under way; what was committed stays as it is.
LEMMA CrashInv ==
  ASSUME IInv, CronCrash
  PROVE  IInv'
<1>1. faults' \in 0 .. MaxFaults
  BY FaultType DEF CronCrash, IInv
<1>2. orphans' \in [Rows -> Nat]
  <2> DEFINE left(r) == Cardinality({t \in Ticks : item[t][r] \in {"queued", "requeued"}})
  <2>1. \A r \in Rows : left(r) \in Nat
    BY CountType, FiniteAssumption
  <2>2. orphans' = [r \in Rows |-> orphans[r] + left(r)]
    BY DEF CronCrash
  <2>3. \A r \in Rows : orphans[r] \in Nat
    BY DEF IInv, TypeOK
  <2> HIDE DEF left
  <2>. QED  BY <2>1, <2>2, <2>3
<1>4. TypeOK'
  BY <1>1, <1>2 DEF CronCrash, IInv, TypeOK, rows, Nothing, Items, TickPhases
<1>5. ASSUME NEW q \in Rows PROVE RowOK(q)'
  BY DEF CronCrash, IInv, RowOK, Claimable, rows
<1>6. ASSUME NEW s \in Ticks, NEW q \in Rows PROVE ItemOK(s, q)'
  BY DEF CronCrash, ItemOK, Nothing
<1>. QED  BY <1>4, <1>5, <1>6 DEF IInv

\* What the worker does for a row that no handler waits for.
LEMMA OrphanInv ==
  ASSUME IInv, NEW r \in Rows, DeliverOrphan(r)
  PROVE  IInv'
<1>1. UNCHANGED <<rows, work, missed, faults>> /\ sent' = [sent EXCEPT ![r] = OneMore(sent[r])]
  BY DEF DeliverOrphan
<1>2. /\ sent' \in [Rows -> 0 .. MaxSends]
      /\ \A q \in Rows : sent'[q] >= sent[q]
  BY <1>1, SentMore, BoundsAssumption DEF IInv, TypeOK
<1>3. TypeOK'
  BY <1>1, <1>2 DEF DeliverOrphan, IInv, TypeOK, rows, work
<1>4. \A q \in Rows : sent[q] \in Nat /\ sent'[q] \in Nat
  BY <1>2, BoundsAssumption DEF IInv, TypeOK
<1>5. ASSUME NEW q \in Rows PROVE RowOK(q)'
  BY <1>1, <1>2, <1>4 DEF IInv, RowOK, Claimable, rows
<1>6. ASSUME NEW s \in Ticks, NEW q \in Rows PROVE ItemOK(s, q)'
  BY <1>1, <1>2, <1>4 DEF IInv, ItemOK, rows, work
<1>. QED  BY <1>3, <1>5, <1>6 DEF IInv

LEMMA NextInv == IInv /\ [Next]_vars => IInv'
<1> SUFFICES ASSUME IInv, [Next]_vars PROVE IInv'
  OBVIOUS
<1>1. ASSUME NEW t \in Ticks, ClaimFails(t) \/ CommitFails(t) PROVE IInv'
  <2>1. faults' \in 0 .. MaxFaults
    BY <1>1, FaultType DEF ClaimFails, CommitFails, IInv
  <2>. QED  BY <1>1, <2>1, OverInv DEF ClaimFails, CommitFails
<1>2. CASE UNCHANGED vars
  BY <1>2 DEF vars, rows, work, effects, IInv, TypeOK, RowOK, ItemOK, Claimable
<1>. QED
  BY <1>1, <1>2, CreateInv, OrphanInv, SelectInv, ClaimInv, CommitInv, HandlersInv, CrashInv
     DEF Next

THEOREM Invariance == Spec => []IInv
BY InitInv, NextInv, PTL DEF Spec

-----------------------------------------------------------------------------
\* Every reachable state has its type; above all, no row is ever FAILED.
THEOREM TypeCorrect == Spec => []TypeOK
BY Invariance, PTL DEF IInv

\* However many ticks overlap and whatever fails, COMPLETED means that the
\* email was sent, that the settings say so and that the version went up.
THEOREM CompletedIsSent == Spec => []CompletedMeansSent
<1>1. IInv => CompletedMeansSent
  BY DEF IInv, RowOK, CompletedMeansSent
<1>. QED  BY <1>1, Invariance, PTL

\* The welcome flag and the version of a user never part.
THEOREM WelcomeVersioned == Spec => []WelcomeIsVersioned
<1>1. IInv => WelcomeIsVersioned
  BY DEF IInv, RowOK, WelcomeIsVersioned
<1>. QED  BY <1>1, Invariance, PTL

-----------------------------------------------------------------------------
(***************************************************************************)
(* What the settings that a user is created with decide.                    *)
(***************************************************************************)
\* A row is written as completed, and a user welcomed, only if the settings row
\* was INACTIVE; and nothing changes the status that a user was created with.
StatusOK(r) ==
  /\ born[r] = 0 => user[r].version = 0
  /\ user[r].version > 0 => user[r].status \in CreatedStatus
  /\ \A t \in Ticks : item[t][r] = "completed" => user[r].status = "INACTIVE"
  /\ user[r].welcome = "YES" => user[r].status = "INACTIVE"

LEMMA InitStatus == Init => \A r \in Rows : StatusOK(r)
BY DEF Init, StatusOK, Nothing

\* A tick that is over holds nothing, and the others hold what they held.
LEMMA OverEmpties ==
  ASSUME TypeOK, NEW t \in Ticks, Over(t), NEW s \in Ticks, NEW r \in Rows
  PROVE  item'[s][r] \in {item[s][r], "out"}
<1>1. item'[s] = IF s = t THEN Nothing ELSE item[s]
  BY DEF Over, TypeOK
<1>. QED
  BY <1>1 DEF Nothing

\* A step that leaves users alone, and completes a row only if it is INACTIVE.
LEMMA StatusKept ==
  ASSUME NEW r \in Rows, StatusOK(r), UNCHANGED <<born[r], user[r]>>,
         \A t \in Ticks :
           item'[t][r] = "completed" => item[t][r] = "completed" \/ user[r].status = "INACTIVE"
  PROVE  StatusOK(r)'
BY DEF StatusOK

LEMMA NextStatus ==
  ASSUME IInv, NEW r \in Rows, StatusOK(r), Next
  PROVE  StatusOK(r)'
<1>0. TypeOK /\ user[r] \in User
  BY DEF IInv, TypeOK
<1>1. ASSUME NEW q \in Rows, CreateUser(q) PROVE StatusOK(r)'
  <2>1. CASE q # r
    BY <1>0, <1>1, <2>1, StatusKept DEF CreateUser, work, TypeOK
  <2>2. CASE q = r
    <3>1. born'[r] # 0
      <4>1. Cardinality({x \in Rows : born[x] > 0}) \in Nat
        BY CountType, FiniteAssumption
      <4>. QED
        BY <1>0, <1>1, <2>2, <4>1 DEF CreateUser, TypeOK
    <3>2. PICK s \in CreatedStatus :
            user' = [user EXCEPT ![r] = [status |-> s, welcome |-> "NO", version |-> 1]]
      BY <1>1, <2>2 DEF CreateUser
    <3>3. user'[r].status \in CreatedStatus /\ user'[r].welcome = "NO"
      BY <1>0, <3>2 DEF TypeOK
    <3>4. \A t \in Ticks : item'[t][r] = "out"
      <4>1. born[r] = 0 /\ UNCHANGED item
        BY <1>1, <2>2 DEF CreateUser, work
      <4>. QED
        BY <4>1 DEF StatusOK, IInv, ItemOK
    <3>. QED
      BY <3>1, <3>3, <3>4 DEF StatusOK
  <2>. QED
    BY <2>1, <2>2
<1>2. ASSUME NEW q \in Rows, DeliverOrphan(q)
      PROVE  StatusOK(r)'
  BY <1>2, StatusKept DEF DeliverOrphan, rows, work
<1>3. ASSUME NEW t \in Ticks, Select(t) PROVE StatusOK(r)'
  <2>1. PICK S \in Batches :
          item' = [item EXCEPT ![t] = [q \in Rows |-> IF q \in S THEN "listed" ELSE "out"]]
    BY <1>3 DEF Select
  <2>2. \A s \in Ticks : item'[s][r] \in {item[s][r], "out", "listed"}
    BY <1>0, <2>1 DEF TypeOK
  <2>. QED
    BY <1>3, <2>2, StatusKept DEF Select, rows
<1>4. ASSUME NEW t \in Ticks, Claim(t) PROVE StatusOK(r)'
  <2>1. \A s \in Ticks : item'[s][r] \in {item[s][r], "out", "ready"}
    BY <1>0, <1>4 DEF Claim, TypeOK
  <2>. QED
    BY <1>4, <2>1, StatusKept DEF Claim
<1>5. ASSUME NEW t \in Ticks, ClaimFails(t) \/ CommitFails(t) PROVE StatusOK(r)'
  <2>1. \A s \in Ticks : item'[s][r] \in {item[s][r], "out"}
    BY <1>0, <1>5, OverEmpties DEF ClaimFails, CommitFails
  <2>. QED
    BY <1>5, <2>1, StatusKept DEF ClaimFails, CommitFails, rows
<1>6. ASSUME NEW t \in Ticks, Commit(t) PROVE StatusOK(r)'
  <2>1. \A s \in Ticks : item'[s][r] \in {item[s][r], "out"}
    BY <1>0, <1>6, OverEmpties DEF Commit
  <2>2. UNCHANGED born
    BY <1>6 DEF Commit
  <2>3. CASE ~(Holds(t, r) /\ item[t][r] = "completed")
    <3>1. user'[r] = user[r]
      BY <1>6, <2>3 DEF Commit
    <3>. QED
      BY <2>1, <2>2, <3>1, StatusKept
  <2>4. CASE Holds(t, r) /\ item[t][r] = "completed"
    <3>1. user'[r] = Welcomed(user[r])
      BY <1>6, <2>4 DEF Commit
    <3>2. user[r].version > 0 /\ user[r].status = "INACTIVE" /\ born[r] # 0
      BY <1>0, <2>4 DEF IInv, ItemOK, StatusOK, User
    <3>. QED
      BY <2>1, <2>2, <3>1, <3>2 DEF StatusOK, Welcomed
  <2>. QED
    BY <2>3, <2>4
<1>7. ASSUME NEW t \in Ticks, NEW q \in Rows,
             \/ Handle(t, q) \/ ReplyMissed(t, q) \/ SendThrows(t, q) \/ Refuse(t, q)
             \/ Stall(t, q) \/ ReplyLost(t, q) \/ SqlFails(t, q)
      PROVE  StatusOK(r)'
  <2>1. CASE UpdateEmail(t, q)
    <3>1. PICK to \in {"completed", "refused"} :
            Step(t, q, to) /\ (to = "completed" => user[q].status = "INACTIVE")
      BY <2>1 DEF UpdateEmail
    <3>2. \A s \in Ticks : item'[s][r] = IF s = t /\ r = q THEN to ELSE item[s][r]
      BY <1>0, <3>1, OneItem DEF Items
    <3>. QED
      BY <2>1, <3>1, <3>2, StatusKept DEF UpdateEmail, rows
  <2>2. CASE ~UpdateEmail(t, q)
    <3>1. UNCHANGED <<born, user>> /\ \E to \in Items \ {"completed"} : Step(t, q, to)
      <4>1. CASE Send(t, q) \/ SendThrows(t, q) \/ Deliver(t, q) \/ Refuse(t, q)
        BY <4>1 DEF Send, SendThrows, Deliver, Refuse, rows, Items
      <4>2. CASE Stall(t, q) \/ ReplyLost(t, q) \/ ReplyMissed(t, q)
        BY <4>2 DEF Stall, ReplyLost, ReplyMissed, rows, Items
      <4>3. CASE ReverseOutbox(t, q) \/ SqlFails(t, q) \/ WriteAborted(t, q)
        BY <4>3 DEF ReverseOutbox, SqlFails, WriteAborted, rows, Items
      <4>. QED
        BY <1>7, <2>2, <4>1, <4>2, <4>3 DEF Handle
    <3>2. \A s \in Ticks : item'[s][r] = "completed" => item[s][r] = "completed"
      BY <1>0, <3>1, OneItem
    <3>. QED
      BY <3>1, <3>2, StatusKept
  <2>. QED
    BY <2>1, <2>2
<1>8. CASE CronCrash
  <2>1. \A s \in Ticks : item'[s][r] = "out"
    BY <1>8 DEF CronCrash, Nothing
  <2>. QED
    BY <1>8, <2>1, StatusKept DEF CronCrash, rows
<1>. QED
  BY <1>1, <1>2, <1>3, <1>4, <1>5, <1>6, <1>7, <1>8 DEF Next

LEMMA StatusInvariance == Spec => [](\A r \in Rows : StatusOK(r))
<1>1. IInv /\ (\A r \in Rows : StatusOK(r)) /\ [Next]_vars => (\A r \in Rows : StatusOK(r))'
  <2> SUFFICES ASSUME IInv, \A r \in Rows : StatusOK(r), [Next]_vars, NEW r \in Rows
               PROVE  StatusOK(r)'
    OBVIOUS
  <2>1. CASE UNCHANGED vars
    BY <2>1 DEF vars, rows, work, StatusOK
  <2>. QED
    BY <2>1, NextStatus
<1>. QED
  BY <1>1, InitStatus, Invariance, PTL DEF Spec

\* The welcome of a user is recorded only if the user was created INACTIVE,
\* which is what updateEmail looks for.
THEOREM OnlyInactiveRecorded ==
  Spec => [](\A r \in Rows :
               outbox[r].jobStatus = "COMPLETED" \/ user[r].welcome = "YES" =>
                 user[r].status = "INACTIVE" /\ "INACTIVE" \in CreatedStatus)
<1>1. IInv /\ (\A r \in Rows : StatusOK(r)) =>
        \A r \in Rows :
          outbox[r].jobStatus = "COMPLETED" \/ user[r].welcome = "YES" =>
            user[r].status = "INACTIVE" /\ "INACTIVE" \in CreatedStatus
  <2> SUFFICES ASSUME IInv, NEW r \in Rows, StatusOK(r),
                      outbox[r].jobStatus = "COMPLETED" \/ user[r].welcome = "YES"
               PROVE  user[r].status = "INACTIVE" /\ "INACTIVE" \in CreatedStatus
    OBVIOUS
  <2>1. user[r].version \in Nat
    BY DEF IInv, TypeOK, User
  <2>. QED
    BY <2>1 DEF IInv, RowOK, StatusOK
<1>. QED
  BY <1>1, Invariance, StatusInvariance, PTL

\* As the command is shipped, it creates users ACTIVE: then no row is ever
\* COMPLETED and no user is ever welcomed, for any number of rows and of ticks,
\* with faults or without.
THEOREM NothingRecordedAsShipped ==
  ASSUME CreatedStatus = {"ACTIVE"}
  PROVE  Spec => [](\A r \in Rows :
                      outbox[r].jobStatus # "COMPLETED" /\ user[r].welcome # "YES")
<1>1. (\A r \in Rows :
         outbox[r].jobStatus = "COMPLETED" \/ user[r].welcome = "YES" =>
           user[r].status = "INACTIVE" /\ "INACTIVE" \in CreatedStatus)
      => \A r \in Rows : outbox[r].jobStatus # "COMPLETED" /\ user[r].welcome # "YES"
  OBVIOUS
<1>. QED
  BY <1>1, OnlyInactiveRecorded, PTL

-----------------------------------------------------------------------------
(***************************************************************************)
(* What the ticks do to a row that updateEmail can settle.                  *)
(***************************************************************************)
\* Without a fault no handler gives up a row with the settings that it expects.
Steady(r) ==
  faults = 0 /\ user[r].status = "INACTIVE" =>
    \A t \in Ticks : item[t][r] \notin {"refused", "reversed"}

\* Such a row, once claimed, does not go back to wait.
OnlyForward ==
  \A r \in Rows :
    faults' = 0 /\ user[r].status = "INACTIVE" /\ outbox[r].jobStatus = "PROCESSING" =>
      outbox'[r].jobStatus \in {"PROCESSING", "COMPLETED"}

LEMMA InitSteady == Init => \A r \in Rows : Steady(r)
BY DEF Init, Steady, Nothing

\* A step that leaves the users alone, and has a handler refuse or reverse the
\* row only after a fault or for other settings.
LEMMA SteadyKept ==
  ASSUME NEW r \in Rows, Steady(r), user'[r].status = user[r].status,
         faults' = 0 => faults = 0,
         \A t \in Ticks :
           item'[t][r] \in {"refused", "reversed"} =>
             \/ item[t][r] \in {"refused", "reversed"}
             \/ faults' # 0
             \/ user[r].status # "INACTIVE"
  PROVE  Steady(r)'
BY DEF Steady

LEMMA FaultCounts == ASSUME TypeOK, NEW k, Fault(k) PROVE faults' # 0
BY BoundsAssumption DEF TypeOK, Fault

LEMMA HandlersSteady ==
  ASSUME IInv, NEW r \in Rows, Steady(r), NEW t \in Ticks, NEW q \in Rows,
         \/ Handle(t, q) \/ ReplyMissed(t, q) \/ SendThrows(t, q) \/ Refuse(t, q)
         \/ Stall(t, q) \/ ReplyLost(t, q) \/ SqlFails(t, q)
  PROVE  Steady(r)'
<1>1. TypeOK
  BY DEF IInv
<1>2. UNCHANGED user /\ (faults' = 0 => faults = 0)
  <2>1. CASE Send(t, q) \/ Deliver(t, q) \/ UpdateEmail(t, q) \/ ReverseOutbox(t, q) \/ WriteAborted(t, q)
    BY <2>1 DEF Send, Deliver, UpdateEmail, ReverseOutbox, WriteAborted, rows
  <2>2. CASE SendThrows(t, q) \/ Refuse(t, q) \/ Stall(t, q) \/ ReplyLost(t, q)
    BY <1>1, <2>2, FaultCounts DEF SendThrows, Refuse, Stall, ReplyLost, rows
  <2>4. CASE ReplyMissed(t, q)
    BY <1>1, <2>4, FaultCounts DEF ReplyMissed, rows
  <2>3. CASE SqlFails(t, q)
    BY <1>1, <2>3, FaultCounts DEF SqlFails, rows
  <2>. QED
    BY <2>1, <2>2, <2>3, <2>4 DEF Handle
<1>3. PICK to \in Items :
        /\ Step(t, q, to)
        /\ to \in {"refused", "reversed"} =>
             item[t][q] = "refused" \/ faults' # 0 \/ user[q].status # "INACTIVE"
  <2>1. CASE Send(t, q) \/ Deliver(t, q) \/ WriteAborted(t, q)
    BY <2>1 DEF Send, Deliver, WriteAborted, Items
  <2>2. CASE UpdateEmail(t, q)
    BY <2>2 DEF UpdateEmail, Items
  <2>3. CASE ReverseOutbox(t, q)
    BY <2>3 DEF ReverseOutbox, Items
  <2>4. CASE \/ SendThrows(t, q) \/ Stall(t, q) \/ ReplyLost(t, q) \/ SqlFails(t, q)
             \/ ReplyMissed(t, q)
    BY <2>4 DEF SendThrows, Stall, ReplyLost, SqlFails, ReplyMissed, Items
  <2>5. CASE Refuse(t, q)
    BY <1>1, <2>5, FaultCounts DEF Refuse, Items
  <2>. QED
    BY <2>1, <2>2, <2>3, <2>4, <2>5 DEF Handle
<1>4. \A s \in Ticks : item'[s][r] = IF s = t /\ r = q THEN to ELSE item[s][r]
  BY <1>1, <1>3, OneItem
<1>. QED
  BY <1>2, <1>3, <1>4, SteadyKept

LEMMA NextSteady ==
  ASSUME IInv, NEW r \in Rows, StatusOK(r), Steady(r), Next
  PROVE  Steady(r)'
<1>1. TypeOK /\ user[r] \in User
  BY DEF IInv, TypeOK
<1>2. ASSUME NEW q \in Rows, CreateUser(q) PROVE Steady(r)'
  <2>1. CASE q # r
    BY <1>1, <1>2, <2>1, SteadyKept DEF CreateUser, work, TypeOK
  <2>2. CASE q = r
    BY <1>2, <2>2 DEF CreateUser, work, StatusOK, IInv, ItemOK, Steady
  <2>. QED
    BY <2>1, <2>2
<1>3. ASSUME NEW q \in Rows, DeliverOrphan(q)
      PROVE  Steady(r)'
  BY <1>3, SteadyKept DEF DeliverOrphan, rows, work
<1>4. ASSUME NEW t \in Ticks, Select(t) PROVE Steady(r)'
  <2>1. PICK S \in Batches :
          item' = [item EXCEPT ![t] = [q \in Rows |-> IF q \in S THEN "listed" ELSE "out"]]
    BY <1>4 DEF Select
  <2>2. \A s \in Ticks : item'[s][r] \in {item[s][r], "out", "listed"}
    BY <1>1, <2>1 DEF TypeOK
  <2>. QED
    BY <1>4, <2>2, SteadyKept DEF Select, rows
<1>5. ASSUME NEW t \in Ticks, Claim(t) PROVE Steady(r)'
  <2>1. \A s \in Ticks : item'[s][r] \in {item[s][r], "out", "ready"}
    BY <1>1, <1>5 DEF Claim, TypeOK
  <2>. QED
    BY <1>5, <2>1, SteadyKept DEF Claim
<1>6. ASSUME NEW t \in Ticks, ClaimFails(t) \/ CommitFails(t) PROVE Steady(r)'
  <2>1. UNCHANGED user /\ faults' # 0
    BY <1>1, <1>6, FaultCounts DEF ClaimFails, CommitFails, rows
  <2>. QED
    BY <2>1 DEF Steady
<1>7. ASSUME NEW t \in Ticks, Commit(t) PROVE Steady(r)'
  <2>1. \A s \in Ticks : item'[s][r] \in {item[s][r], "out"}
    BY <1>1, <1>7, OverEmpties DEF Commit
  <2>2. user'[r].status = user[r].status /\ UNCHANGED faults
    BY <1>7 DEF Commit, Welcomed
  <2>. QED
    BY <2>1, <2>2, SteadyKept
<1>8. CASE CronCrash
  <2>1. UNCHANGED user /\ faults' # 0
    BY <1>1, <1>8, FaultCounts DEF CronCrash, rows
  <2>. QED
    BY <2>1 DEF Steady
<1>. QED
  BY <1>2, <1>3, <1>4, <1>5, <1>6, <1>7, <1>8, HandlersSteady DEF Next

LEMMA SteadyInvariance == Spec => [](\A r \in Rows : Steady(r))
<1>1. IInv /\ (\A r \in Rows : StatusOK(r)) /\ (\A r \in Rows : Steady(r)) /\ [Next]_vars
      => (\A r \in Rows : Steady(r))'
  <2> SUFFICES ASSUME IInv, \A r \in Rows : StatusOK(r), \A r \in Rows : Steady(r),
                      [Next]_vars, NEW r \in Rows
               PROVE  Steady(r)'
    OBVIOUS
  <2>1. CASE UNCHANGED vars
    BY <2>1 DEF vars, rows, work, Steady
  <2>. QED
    BY <2>1, NextSteady
<1>. QED
  BY <1>1, InitSteady, StatusInvariance, Invariance, PTL DEF Spec

\* Only a commit, or another claim, changes a row that is PROCESSING.
LEMMA ProcessingChanges ==
  ASSUME IInv, NEW r \in Rows, StatusOK(r), outbox[r].jobStatus = "PROCESSING", Next,
         outbox'[r].jobStatus # "PROCESSING"
  PROVE  \E t \in Ticks : Commit(t)
<1>1. born[r] # 0
  BY DEF StatusOK, IInv, RowOK
<1>2. ASSUME NEW q \in Rows, CreateUser(q) PROVE FALSE
  BY <1>1, <1>2 DEF CreateUser, IInv, TypeOK
<1>3. ASSUME NEW q \in Rows, DeliverOrphan(q) PROVE FALSE
  BY <1>3 DEF DeliverOrphan, rows
<1>4. ASSUME NEW t \in Ticks, Select(t) \/ ClaimFails(t) \/ CommitFails(t) PROVE FALSE
  BY <1>4 DEF Select, ClaimFails, CommitFails, rows
<1>5. ASSUME NEW t \in Ticks, Claim(t) PROVE FALSE
  BY <1>5 DEF Claim, Processing, IInv, TypeOK, OutboxRow
<1>6. ASSUME NEW t \in Ticks, NEW q \in Rows,
             \/ Handle(t, q) \/ ReplyMissed(t, q) \/ SendThrows(t, q) \/ Refuse(t, q)
             \/ Stall(t, q) \/ ReplyLost(t, q) \/ SqlFails(t, q)
      PROVE  FALSE
  <2>1. CASE Handle(t, q)
    BY <2>1 DEF Handle, Send, Deliver, UpdateEmail, ReverseOutbox, WriteAborted, rows
  <2>. QED
    BY <1>6, <2>1 DEF ReplyMissed, SendThrows, Refuse, Stall, ReplyLost, SqlFails, rows
<1>7. ~CronCrash
  BY DEF CronCrash, rows
<1>. QED
  BY <1>2, <1>3, <1>4, <1>5, <1>6, <1>7 DEF Next

\* As long as nothing fails, a row with the settings that updateEmail expects
\* goes from PROCESSING to COMPLETED and nowhere else, however many ticks work on
\* it side by side: deadlocks between them abort batches but never reverse it.
THEOREM NeverSentBack == Spec => [][OnlyForward]_vars
<1>1. IInv /\ (\A r \in Rows : StatusOK(r)) /\ (\A r \in Rows : Steady(r)) /\ [Next]_vars
      => [OnlyForward]_vars
  <2> SUFFICES ASSUME IInv, \A r \in Rows : StatusOK(r), \A r \in Rows : Steady(r), Next,
                      NEW r \in Rows, faults' = 0, user[r].status = "INACTIVE",
                      outbox[r].jobStatus = "PROCESSING", outbox'[r].jobStatus # "PROCESSING"
               PROVE  outbox'[r].jobStatus = "COMPLETED"
    BY DEF OnlyForward
  <2>1. PICK t \in Ticks : Commit(t)
    BY ProcessingChanges
  <2>2. item[t][r] # "reversed"
    BY <2>1 DEF Commit, Steady
  <2>3. Holds(t, r) /\ item[t][r] = "completed"
    BY <2>1, <2>2 DEF Commit, Holds
  <2>. QED
    BY <2>1, <2>3 DEF Commit, Completed
<1>. QED
  BY <1>1, Invariance, StatusInvariance, SteadyInvariance, PTL DEF Spec
=============================================================================
