---------------------------- MODULE OneTickProofs ----------------------------
(***************************************************************************)
(* WelcomeEmailOutbox while ticks do not overlap: with one slot for ticks,  *)
(* any number of rows and faults of any kind.                               *)
(***************************************************************************)
EXTENDS WelcomeEmailOutboxProofs

\* Ticks do not overlap.
OneTick == \A s, t \in Ticks : s = t

\* The items of a tick fit its phase.
PhaseOK(t) ==
  /\ tick[t] = "idle" => item[t] = Nothing
  /\ tick[t] = "selected" => \A r \in Rows : item[t][r] \in {"out", "listed"}
  /\ tick[t] \in {"running", "aborted"} => \A r \in Rows : item[t][r] # "listed"

\* The tick has listed rows that wait, and works on rows that are PROCESSING.
Owned(t, r) ==
  /\ item[t][r] = "listed" => outbox[r].jobStatus = "PENDING"
  /\ item[t][r] \notin {"out", "listed"} => outbox[r].jobStatus = "PROCESSING"

\* What may still be sent without a further fault.
MayBeSent(r) ==
  \/ outbox[r].jobStatus \in {"NONE", "PENDING"}
  \/ \E t \in Ticks : item[t][r] \in {"ready", "queued", "requeued", "refused", "reversed"}

\* Emails and orphaned jobs: one, and one for every fault; and one less while
\* the tick has yet to send.
Counted(r) ==
  user[r].status = "INACTIVE" =>
    /\ sent[r] + orphans[r] <= 1 + faults
    /\ MayBeSent(r) => sent[r] + orphans[r] <= faults

\* What exists was created, and for what does not nothing was sent.
Created(r) ==
  /\ born[r] = 0 => outbox[r].jobStatus = "NONE"
  /\ outbox[r].jobStatus = "NONE" => sent[r] = 0 /\ orphans[r] = 0

\* The inductive invariant, beside IInv.
OneTickInv ==
  /\ IInv
  /\ \A t \in Ticks : PhaseOK(t)
  /\ \A t \in Ticks, r \in Rows : Owned(t, r)
  /\ \A r \in Rows : Counted(r) /\ Created(r)

-----------------------------------------------------------------------------
LEMMA InitOneTick == Init => OneTickInv
<1>. SUFFICES ASSUME Init PROVE OneTickInv
  OBVIOUS
<1>1. IInv
  BY InitInv
<1>2. \A r \in Rows : Counted(r) /\ Created(r)
  BY DEF Init, Counted, Created
<1>. QED
  BY <1>1, <1>2
     DEF Init, OneTickInv, PhaseOK, Owned, Nothing

\* Numbers that the arithmetic below is about.
LEMMA Numbers ==
  ASSUME IInv, NEW r \in Rows
  PROVE  /\ sent[r] \in Nat /\ orphans[r] \in Nat /\ faults \in Nat
         /\ OneMore(sent[r]) \in Nat
         /\ OneMore(sent[r]) <= sent[r] + 1
BY BoundsAssumption DEF IInv, TypeOK, OneMore

\* A handler that has not sent its email yet, or is to reverse the row.
Unsent == {"ready", "queued", "requeued", "refused", "reversed"}

\* The step of a handler of tick t with row r, and what it may do to the count:
\* an email or an orphaned job more, if the step was due, and a fault more.
LEMMA HandlerOneTick ==
  ASSUME OneTick, OneTickInv, IInv', NEW t \in Ticks, NEW r \in Rows, NEW to \in Items,
         item[t][r] \notin {"out", "listed"}, to \notin {"out", "listed"},
         Step(t, r, to), UNCHANGED rows,
         tick' = tick \/ tick' = [tick EXCEPT ![t] = "aborted"],
         tick[t] # "idle" => tick'[t] # "idle",
         faults' \in {faults, faults + 1},
         \A q \in Rows \ {r} : sent'[q] = sent[q] /\ orphans'[q] = orphans[q],
         \/ sent'[r] = sent[r] /\ orphans'[r] = orphans[r]
         \/ /\ sent'[r] = OneMore(sent[r]) /\ orphans'[r] = orphans[r]
            /\ item[t][r] \in {"queued", "requeued"}
            /\ to \in Unsent => faults' = faults + 1
         \/ /\ sent'[r] = sent[r] /\ orphans'[r] = orphans[r] + 1
            /\ to \notin Unsent /\ faults' = faults + 1,
         to \in Unsent => item[t][r] \in Unsent \/ user[r].status # "INACTIVE"
  PROVE  OneTickInv'
<1>1. \A s \in Ticks, q \in Rows : item'[s][q] = IF s = t /\ q = r THEN to ELSE item[s][q]
  BY OneItem DEF OneTickInv, IInv
<1>2. UNCHANGED <<born, outbox, user>> /\ faults \in Nat
  BY Numbers DEF rows, OneTickInv
<1>3. tick[t] \in {"running", "aborted"} /\ tick'[t] \in {"running", "aborted"}
  BY DEF OneTickInv, PhaseOK, IInv, TypeOK, TickPhases, Nothing
<1>4. \A s \in Ticks : s = t
  BY DEF OneTick
<1>5. \A s \in Ticks : PhaseOK(s)'
  BY <1>1, <1>3, <1>4 DEF OneTickInv, PhaseOK
<1>7. \A s \in Ticks, q \in Rows : Owned(s, q)'
  BY <1>1, <1>2 DEF OneTickInv, Owned
<1>8. ASSUME NEW q \in Rows PROVE Counted(q)' /\ Created(q)'
  <2>1. /\ sent[q] \in Nat /\ orphans[q] \in Nat /\ faults \in Nat
        /\ OneMore(sent[q]) \in Nat /\ OneMore(sent[q]) <= sent[q] + 1
    BY Numbers DEF OneTickInv
  <2>2. CASE q # r
    <3>1. MayBeSent(q)' => MayBeSent(q)
      BY <1>1, <1>2, <2>2 DEF MayBeSent
    <3>. QED
      BY <1>2, <2>1, <2>2, <3>1 DEF OneTickInv, Counted, Created
  <2>3. CASE q = r
    <3>1. outbox[r].jobStatus = "PROCESSING"
      BY DEF OneTickInv, Owned
    <3>2. MayBeSent(r)' => to \in Unsent
      BY <1>1, <1>2, <1>4, <3>1 DEF MayBeSent, Unsent
    <3>3. item[t][r] \in Unsent => MayBeSent(r)
      BY DEF MayBeSent, Unsent
    <3>4. item[t][r] \in {"queued", "requeued"} => MayBeSent(r)
      BY DEF MayBeSent
    <3>. QED
      BY <1>2, <2>1, <2>3, <3>1, <3>2, <3>3, <3>4 DEF OneTickInv, Counted, Created
  <2>. QED
    BY <2>2, <2>3
<1>. QED
  BY <1>5, <1>7, <1>8 DEF OneTickInv

\* Alone, a tick is the victim of no deadlock.
LEMMA NoDeadlock == ASSUME OneTick, NEW t \in Ticks PROVE ~Deadlocked(t)
BY DEF OneTick, Deadlocked

LEMMA HandlersOneTick ==
  ASSUME OneTick, OneTickInv, NEW t \in Ticks, NEW r \in Rows,
         \/ Handle(t, r) \/ ReplyMissed(t, r) \/ SendThrows(t, r) \/ Refuse(t, r)
         \/ Stall(t, r) \/ ReplyLost(t, r) \/ SqlFails(t, r)
  PROVE  OneTickInv'
<1>0. IInv /\ IInv' /\ faults \in Nat
  BY HandlersInv, Numbers DEF OneTickInv
<1>a. \A q \in Rows : q # r /\ sent' = [sent EXCEPT ![r] = OneMore(sent[r])] => sent'[q] = sent[q]
  BY <1>0 DEF IInv, TypeOK
<1>b. sent' = [sent EXCEPT ![r] = OneMore(sent[r])] => sent'[r] = OneMore(sent[r])
  BY <1>0 DEF IInv, TypeOK
<1>1. CASE Send(t, r)
  BY <1>0, <1>1, HandlerOneTick DEF Send, effects, Items, Unsent
<1>2. CASE SendThrows(t, r)
  <2>1. \/ orphans' = orphans
        \/ /\ orphans'[r] = orphans[r] + 1
           /\ \A q \in Rows \ {r} : orphans'[q] = orphans[q]
    BY <1>0, <1>2 DEF SendThrows, IInv, TypeOK
  <2>2. /\ faults' = faults + 1 /\ item[t][r] = "ready" /\ Step(t, r, "abandoned")
        /\ UNCHANGED <<rows, tick, sent>>
    BY <1>2 DEF SendThrows, Fault
  <2>. QED
    BY <1>0, <2>1, <2>2, HandlerOneTick DEF Items, Unsent
<1>3. CASE Deliver(t, r)
  BY <1>0, <1>a, <1>b, <1>3, HandlerOneTick DEF Deliver, Items, Unsent
<1>4. CASE Refuse(t, r)
  BY <1>0, <1>4, HandlerOneTick DEF Refuse, Fault, effects, Items, Unsent
<1>5. CASE Stall(t, r)
  <2>1. PICK to \in {"requeued", "abandoned"} : Step(t, r, to)
    BY <1>5 DEF Stall
  <2>2. \/ sent' = sent
        \/ sent' = [sent EXCEPT ![r] = OneMore(sent[r])]
    BY <1>5 DEF Stall
  <2>3. faults' = faults + 1 /\ item[t][r] \in {"queued", "requeued"} /\ tick' = tick
        /\ UNCHANGED <<rows, orphans>>
    BY <1>5 DEF Stall, Fault
  <2>. QED
    BY <1>0, <1>a, <1>b, <2>1, <2>2, <2>3, HandlerOneTick DEF Items, Unsent
<1>6. CASE ReplyLost(t, r)
  <2>1. PICK to \in {"lost", "abandoned"} : Step(t, r, to)
    BY <1>6 DEF ReplyLost
  <2>2. \/ sent' = sent
        \/ sent' = [sent EXCEPT ![r] = OneMore(sent[r])]
    BY <1>6 DEF ReplyLost
  <2>3. faults' = faults + 1 /\ item[t][r] \in {"queued", "requeued"} /\ tick' = tick
        /\ UNCHANGED <<rows, orphans>>
    BY <1>6 DEF ReplyLost, Fault
  <2>. QED
    BY <1>0, <1>a, <1>b, <2>1, <2>2, <2>3, HandlerOneTick DEF Items, Unsent
<1>7. CASE UpdateEmail(t, r)
  <2>1. PICK to \in {"completed", "refused"} :
          Step(t, r, to) /\ (to = "refused" => user[r].status # "INACTIVE")
    BY <1>7 DEF UpdateEmail
  <2>2. to = "completed" => to \notin Unsent
    BY DEF Unsent
  <2>3. /\ item[t][r] = "accepted" /\ tick[t] = "running" /\ to \in Items
        /\ UNCHANGED <<rows, tick, sent, orphans, faults>>
    BY <1>7 DEF UpdateEmail, Wants, Items, effects
  <2>. QED
    BY <1>0, <2>1, <2>2, <2>3, HandlerOneTick
<1>8. CASE ReverseOutbox(t, r)
  BY <1>0, <1>8, HandlerOneTick DEF ReverseOutbox, Wants, effects, Items, Unsent
<1>9. CASE SqlFails(t, r)
  <2>1. faults' = faults + 1 /\ faults' > 0
    BY <1>0, <1>9, NoDeadlock DEF SqlFails, Fault
  <2>2. /\ tick' = [tick EXCEPT ![t] = "aborted"] /\ tick'[t] = "aborted"
        /\ item[t][r] \notin {"out", "listed"} /\ Step(t, r, "abandoned")
        /\ UNCHANGED <<rows, sent, orphans>>
    BY <1>0, <1>9 DEF SqlFails, Wants, effects, IInv, TypeOK
  <2>. QED
    BY <1>0, <2>1, <2>2, HandlerOneTick DEF Items, Unsent
<1>10. CASE WriteAborted(t, r)
  BY <1>0, <1>10, HandlerOneTick DEF WriteAborted, effects, Items, Unsent
<1>11. CASE ReplyMissed(t, r)
  <2>1. /\ item[t][r] = "queued" /\ Step(t, r, "abandoned")
        /\ UNCHANGED <<rows, tick, orphans>>
        /\ UNCHANGED sent \/ sent' = [sent EXCEPT ![r] = OneMore(sent[r])]
        /\ faults' \in {faults, faults + 1}
    BY <1>11 DEF ReplyMissed, Fault
  <2>. QED
    BY <1>0, <1>a, <1>b, <2>1, HandlerOneTick DEF Items, Unsent
<1>. QED
  BY <1>1, <1>2, <1>3, <1>4, <1>5, <1>6, <1>7, <1>8, <1>9, <1>10, <1>11 DEF Handle

-----------------------------------------------------------------------------
\* A new row is not in a tick yet.
LEMMA CreateOneTick ==
  ASSUME OneTick, OneTickInv, NEW r \in Rows, CreateUser(r)
  PROVE  OneTickInv'
<1>1. IInv /\ IInv' /\ UNCHANGED <<tick, item, sent, orphans, faults>>
  BY CreateInv DEF OneTickInv, CreateUser, work, effects
<1>2. /\ outbox[r].jobStatus = "NONE" /\ outbox'[r].jobStatus = "PENDING"
      /\ user'[r].status \in {"ACTIVE", "INACTIVE"}
      /\ \A q \in Rows \ {r} : UNCHANGED <<born[q], outbox[q], user[q]>>
  BY <1>1, StatusAssumption DEF CreateUser, Pending, OneTickInv, Created, IInv, TypeOK
<1>3. Cardinality({q \in Rows : born[q] > 0}) \in Nat
  BY CountType, FiniteAssumption
<1>4. born'[r] # 0
  BY <1>1, <1>3 DEF CreateUser, IInv, TypeOK
<1>5. \A t \in Ticks : item[t][r] = "out"
  BY <1>2 DEF OneTickInv, Owned
<1>6. \A t \in Ticks : PhaseOK(t)'
  BY <1>1 DEF OneTickInv, PhaseOK
<1>7. \A t \in Ticks, q \in Rows : Owned(t, q)'
  BY <1>1, <1>2, <1>5 DEF OneTickInv, Owned
<1>8. ASSUME NEW q \in Rows PROVE Counted(q)' /\ Created(q)'
  <2>1. CASE q # r
    BY <1>1, <1>2, <2>1 DEF OneTickInv, Counted, Created, MayBeSent
  <2>2. CASE q = r
    <3>1. sent[r] \in Nat /\ orphans[r] \in Nat /\ faults \in Nat
      BY <1>1, Numbers
    <3>2. sent[r] = 0 /\ orphans[r] = 0
      BY <1>2 DEF OneTickInv, Created
    <3>. QED
      BY <1>1, <1>4, <2>2, <3>1, <3>2 DEF Counted, Created
  <2>. QED
    BY <2>1, <2>2
<1>. QED
  BY <1>1, <1>6, <1>7, <1>8 DEF OneTickInv

\* A step of tick t that commits nothing and sends nothing, and leaves each of
\* its rows out of the batch or one step further.
LEMMA TickOneTick ==
  ASSUME OneTick, OneTickInv, IInv', NEW t \in Ticks,
         UNCHANGED <<rows, sent, orphans>>,
         PhaseOK(t)',
         \A r \in Rows : Owned(t, r)',
         faults' \in {faults, faults + 1},
         \A r \in Rows : item'[t][r] \in Unsent => MayBeSent(r)
  PROVE  OneTickInv'
<1>1. UNCHANGED <<born, outbox, user>>
  BY DEF rows
<1>2. \A s \in Ticks : s = t
  BY DEF OneTick
<1>3. ASSUME NEW r \in Rows PROVE Counted(r)' /\ Created(r)'
  <2>1. sent[r] \in Nat /\ orphans[r] \in Nat /\ faults \in Nat
    BY Numbers DEF OneTickInv
  <2>2. MayBeSent(r)' => MayBeSent(r)
    BY <1>1, <1>2 DEF MayBeSent, Unsent
  <2>. QED
    BY <1>1, <2>1, <2>2 DEF OneTickInv, Counted, Created
<1>. QED
  BY <1>2, <1>3 DEF OneTickInv

LEMMA SelectOneTick == ASSUME OneTick, OneTickInv, NEW t \in Ticks, Select(t) PROVE OneTickInv'
<1>1. PICK S \in Batches :
        item' = [item EXCEPT ![t] = [r \in Rows |-> IF r \in S THEN "listed" ELSE "out"]]
  BY DEF Select
<1>2. /\ \A r \in S : r \in Rows /\ outbox[r].jobStatus = "PENDING"
      /\ UNCHANGED <<rows, sent, orphans, faults>>
  BY DEF Batches, Claimable, Select, effects
<1>3. /\ \A r \in Rows : item'[t][r] = IF r \in S THEN "listed" ELSE "out"
      /\ tick[t] = "idle" /\ tick'[t] = "selected" /\ IInv'
  BY <1>1, SelectInv DEF Select, OneTickInv, IInv, TypeOK
<1>5. PhaseOK(t)' /\ \A r \in Rows : Owned(t, r)'
  BY <1>2, <1>3 DEF PhaseOK, Owned, rows
<1>. QED
  BY <1>2, <1>3, <1>5, TickOneTick DEF Unsent

\* A tick that ends in a fault, recording nothing.
LEMMA OverOneTick ==
  ASSUME OneTick, OneTickInv, NEW t \in Ticks, ClaimFails(t) \/ CommitFails(t)
  PROVE  OneTickInv'
<1>0. TypeOK /\ faults \in Nat
  BY BoundsAssumption DEF OneTickInv, IInv, TypeOK
<1>1. /\ faults' = faults + 1 /\ faults' \in 0 .. MaxFaults
      /\ Over(t) /\ UNCHANGED <<rows, effects>>
  <2>1. CASE ClaimFails(t)
    BY <1>0, <2>1, FaultType DEF ClaimFails, Fault
  <2>2. CASE CommitFails(t)
    BY <1>0, <2>2, FaultType DEF CommitFails, Fault
  <2>. QED
    BY <2>1, <2>2
<1>2. IInv'
  BY <1>1, OverInv DEF OneTickInv
<1>3. item'[t] = Nothing /\ tick'[t] = "idle" /\ faults' > 0
  BY <1>0, <1>1 DEF Over, OneTickInv, IInv, TypeOK
<1>4. PhaseOK(t)' /\ \A r \in Rows : Owned(t, r)'
  BY <1>3 DEF PhaseOK, Owned, Nothing
<1>. QED
  BY <1>1, <1>2, <1>3, <1>4, TickOneTick DEF effects, Nothing, Unsent

\* The claim takes rows that wait, and marks them.
LEMMA ClaimOneTick == ASSUME OneTick, OneTickInv, NEW t \in Ticks, Claim(t) PROVE OneTickInv'
<1>1. IInv' /\ UNCHANGED <<born, user, sent, orphans, faults>>
  BY ClaimInv DEF OneTickInv, Claim, effects
<1>2. \A s \in Ticks : s = t
  BY DEF OneTick
<1>3. /\ tick[t] = "selected" /\ tick'[t] = "running"
      /\ \A r \in Rows :
           /\ item[t][r] \in {"out", "listed"}
           /\ item'[t][r] = IF item[t][r] = "listed" THEN "ready" ELSE "out"
  BY DEF Claim, OneTickInv, PhaseOK, IInv, TypeOK
<1>4. \A r \in Rows :
        IF item[t][r] = "listed"
        THEN outbox[r].jobStatus = "PENDING" /\ outbox'[r].jobStatus = "PROCESSING"
        ELSE outbox'[r] = outbox[r]
  <2>1. \A r \in Rows : item[t][r] = "listed" => outbox[r].jobStatus = "PENDING"
    BY DEF OneTickInv, Owned
  <2>2. \A r \in Rows :
          /\ outbox[r] \in OutboxRow
          /\ outbox'[r] = IF item[t][r] = "listed" THEN Processing(outbox[r]) ELSE outbox[r]
    BY DEF Claim, OneTickInv, IInv, TypeOK
  <2>. QED
    BY <2>1, <2>2 DEF Processing, OutboxRow
<1>5. \A s \in Ticks : PhaseOK(s)'
  BY <1>2, <1>3 DEF PhaseOK
<1>6. \A s \in Ticks, r \in Rows : Owned(s, r)'
  BY <1>2, <1>3, <1>4 DEF Owned
<1>7. ASSUME NEW r \in Rows PROVE Counted(r)' /\ Created(r)'
  <2>1. MayBeSent(r)' => MayBeSent(r)
    BY <1>2, <1>3, <1>4 DEF MayBeSent
  <2>. QED
    BY <1>1, <1>4, <2>1 DEF OneTickInv, Counted, Created
<1>. QED
  BY <1>1, <1>5, <1>6, <1>7 DEF OneTickInv

\* The commit closes every row of the batch; only a reversed one waits again.
LEMMA CommitOneTick == ASSUME OneTick, OneTickInv, NEW t \in Ticks, Commit(t) PROVE OneTickInv'
<1>1. IInv' /\ UNCHANGED <<born, sent, orphans, faults>>
  BY CommitInv DEF OneTickInv, Commit, effects
<1>2. \A s \in Ticks : s = t
  BY DEF OneTick
<1>3. item'[t] = Nothing /\ tick'[t] = "idle"
  BY DEF Commit, Over, OneTickInv, IInv, TypeOK
<1>4. \A r \in Rows :
        /\ Holds(t, r) /\ item[t][r] = "completed" => outbox'[r].jobStatus = "COMPLETED"
        /\ Holds(t, r) /\ item[t][r] # "completed" => outbox'[r].jobStatus = "PENDING"
        /\ ~Holds(t, r) => outbox'[r] = outbox[r]
  BY DEF Commit, Completed, Reversed, Pending
<1>5. \A r \in Rows : user'[r].status = user[r].status
  <2>1. \A r \in Rows : user'[r] = user[r] \/ user'[r] = Welcomed(user[r])
    BY DEF Commit
  <2>2. \A r \in Rows : Welcomed(user[r]).status = user[r].status
    BY DEF Welcomed
  <2>. QED
    BY <2>1, <2>2
<1>6. \A s \in Ticks : PhaseOK(s)'
  BY <1>1, <1>2, <1>3 DEF PhaseOK, Nothing
<1>7. \A s \in Ticks, r \in Rows : Owned(s, r)'
  BY <1>2, <1>3 DEF Owned, Nothing
<1>8. ASSUME NEW r \in Rows PROVE Counted(r)' /\ Created(r)'
  <2>1. MayBeSent(r)' => MayBeSent(r)
    BY <1>2, <1>3, <1>4 DEF MayBeSent, Holds, Nothing
  <2>2. outbox[r].jobStatus # "NONE" => outbox'[r].jobStatus # "NONE"
    BY <1>4
  <2>3. outbox[r].jobStatus = "NONE" => outbox'[r].jobStatus = "NONE"
    BY <1>4 DEF OneTickInv, Owned, Holds
  <2>. QED
    BY <1>1, <1>5, <2>1, <2>2, <2>3 DEF OneTickInv, Counted, Created
<1>. QED
  BY <1>1, <1>6, <1>7, <1>8 DEF OneTickInv

\* One tick leaves one job at most behind for a row: the crash pays for it.
LEMMA CrashOneTick == ASSUME OneTick, OneTickInv, CronCrash PROVE OneTickInv'
<1>0. IInv /\ TypeOK /\ faults \in Nat
  BY BoundsAssumption DEF OneTickInv, IInv, TypeOK
<1>1. /\ IInv' /\ faults' = faults + 1 /\ UNCHANGED <<rows, sent>>
      /\ \A s \in Ticks : tick'[s] = "idle" /\ item'[s] = Nothing
  BY CrashInv DEF OneTickInv, CronCrash, Fault
<1>2. ASSUME NEW r \in Rows
      PROVE  /\ orphans'[r] \in {orphans[r], orphans[r] + 1}
             /\ orphans'[r] # orphans[r] =>
                  \E t \in Ticks : item[t][r] \in {"queued", "requeued"}
  <2> DEFINE left == {t \in Ticks : item[t][r] \in {"queued", "requeued"}}
  <2>1. orphans'[r] = orphans[r] + Cardinality(left)
    BY DEF CronCrash
  <2>2. CASE left = {}
    <3>1. orphans[r] \in Nat /\ Cardinality(left) = 0
      BY <1>0, <2>2, Numbers, FS_EmptySet
    <3>. QED
      BY <2>1, <3>1
  <2>3. CASE \E t \in Ticks : t \in left
    <3>1. PICK t \in Ticks : t \in left
      BY <2>3
    <3>2. left = {t}
      BY <3>1 DEF OneTick
    <3>. QED
      BY <2>1, <3>1, <3>2, FS_Singleton
  <2>. QED
    BY <2>2, <2>3
<1>3. \A s \in Ticks : PhaseOK(s)'
  BY <1>0, <1>1 DEF PhaseOK
<1>4. \A s \in Ticks, r \in Rows : Owned(s, r)'
  BY <1>1 DEF Owned, Nothing
<1>5. ASSUME NEW r \in Rows PROVE Counted(r)' /\ Created(r)'
  <2>1. sent[r] \in Nat /\ orphans[r] \in Nat /\ faults \in Nat
    BY <1>0, Numbers
  <2>2. \/ orphans'[r] = orphans[r]
        \/ /\ orphans'[r] = orphans[r] + 1 /\ MayBeSent(r)
           /\ outbox[r].jobStatus = "PROCESSING"
    BY <1>2 DEF MayBeSent, OneTickInv, Owned
  <2>3. MayBeSent(r)' => outbox[r].jobStatus \in {"NONE", "PENDING"}
    BY <1>1 DEF MayBeSent, Nothing, rows
  <2>4. outbox[r].jobStatus \in {"NONE", "PENDING"} => MayBeSent(r)
    BY DEF MayBeSent
  <2>. QED
    BY <1>1, <2>1, <2>2, <2>3, <2>4 DEF OneTickInv, Counted, Created, rows
<1>. QED
  BY <1>1, <1>3, <1>4, <1>5 DEF OneTickInv

\* A job left behind was counted already.
LEMMA OrphanOneTick ==
  ASSUME OneTick, OneTickInv, NEW r \in Rows, DeliverOrphan(r)
  PROVE  OneTickInv'
<1>1. IInv /\ IInv' /\ UNCHANGED <<rows, work, faults>>
  BY OrphanInv DEF OneTickInv, DeliverOrphan
<1>2. ASSUME NEW q \in Rows PROVE Counted(q)' /\ Created(q)'
  <2>1. /\ sent[q] \in Nat /\ orphans[q] \in Nat /\ faults \in Nat
        /\ OneMore(sent[q]) \in Nat /\ OneMore(sent[q]) <= sent[q] + 1
    BY <1>1, Numbers
  <2>2. \/ UNCHANGED <<sent[q], orphans[q]>>
        \/ orphans[q] > 0 /\ orphans'[q] = orphans[q] - 1 /\ sent'[q] = OneMore(sent[q])
    BY <1>1 DEF DeliverOrphan, IInv, TypeOK
  <2>3. MayBeSent(q)' <=> MayBeSent(q)
    BY <1>1 DEF MayBeSent, rows, work
  <2>. QED
    BY <1>1, <2>1, <2>2, <2>3 DEF OneTickInv, Counted, Created, rows
<1>. QED
  BY <1>1, <1>2 DEF OneTickInv, PhaseOK, Owned, rows, work

LEMMA NextOneTick == ASSUME OneTick PROVE OneTickInv /\ [Next]_vars => OneTickInv'
<1> SUFFICES ASSUME OneTickInv, [Next]_vars PROVE OneTickInv'
  OBVIOUS
<1>1. CASE UNCHANGED vars
  <2>1. IInv'
    BY <1>1, NextInv DEF OneTickInv
  <2>. QED
    BY <1>1, <2>1
       DEF vars, rows, work, effects, OneTickInv, PhaseOK, Owned, Counted, MayBeSent, Created
<1>. QED
  BY <1>1, CreateOneTick, OrphanOneTick, SelectOneTick, ClaimOneTick, OverOneTick, CommitOneTick,
     HandlersOneTick, CrashOneTick
     DEF Next

LEMMA OneTickInvariance == ASSUME OneTick PROVE Spec => []OneTickInv
<1>1. OneTickInv /\ [Next]_vars => OneTickInv'
  BY NextOneTick
<1>. QED
  BY <1>1, InitOneTick, PTL DEF Spec

-----------------------------------------------------------------------------
\* While ticks do not overlap, a user with the settings that updateEmail expects
\* gets one email, and at most one more for every fault.
THEOREM FewDuplicates == ASSUME OneTick PROVE Spec => []DuplicatesBounded
<1>1. OneTickInv => DuplicatesBounded
  <2> SUFFICES ASSUME OneTickInv, NEW r \in Rows, user[r].status = "INACTIVE"
               PROVE  sent[r] <= 1 + faults
    BY DEF DuplicatesBounded
  <2>. QED
    BY Numbers DEF OneTickInv, Counted
<1>. QED
  BY <1>1, OneTickInvariance, PTL

-----------------------------------------------------------------------------
(***************************************************************************)
(* What the handlers of a batch do, beside the counts above.                *)
(***************************************************************************)
\* A handler gives a row up in an aborted batch, for a fault or for a reply that
\* it missed; a job may stay behind only then.
LEMMA HandlerSteps ==
  ASSUME OneTick, TypeOK, NEW t \in Ticks, NEW r \in Rows,
         \/ Handle(t, r) \/ ReplyMissed(t, r) \/ SendThrows(t, r) \/ Refuse(t, r)
         \/ Stall(t, r) \/ ReplyLost(t, r) \/ SqlFails(t, r)
  PROVE  /\ UNCHANGED rows
         /\ item[t][r] \notin {"out", "listed", "abandoned"}
         /\ \E to \in Items \ {"out"} :
              /\ Step(t, r, to)
              /\ to = "abandoned" => tick[t] = "aborted" \/ faults' = faults + 1 \/ r \in missed'
              /\ \/ UNCHANGED orphans
                 \/ to = "abandoned" /\ orphans' = [orphans EXCEPT ![r] = orphans[r] + 1]
         /\ sent' = sent \/ sent' = [sent EXCEPT ![r] = OneMore(sent[r])]
         /\ missed \subseteq missed' /\ faults' \in {faults, faults + 1}
         /\ \/ UNCHANGED tick
            \/ tick' = [tick EXCEPT ![t] = "aborted"] /\ faults' = faults + 1
<1>1. CASE Send(t, r) \/ Deliver(t, r) \/ UpdateEmail(t, r) \/ ReverseOutbox(t, r)
  BY <1>1 DEF Send, Deliver, UpdateEmail, ReverseOutbox, Wants, effects, Items
<1>2. CASE WriteAborted(t, r)
  BY <1>2 DEF WriteAborted, effects, Items
<1>3. CASE SendThrows(t, r)
  BY <1>3 DEF SendThrows, Fault, Items
<1>4. CASE Refuse(t, r) \/ Stall(t, r) \/ ReplyLost(t, r)
  BY <1>4 DEF Refuse, Stall, ReplyLost, Fault, effects, Items
<1>5. CASE ReplyMissed(t, r)
  BY <1>5 DEF ReplyMissed, Fault, Items
<1>6. CASE SqlFails(t, r)
  BY <1>6, NoDeadlock DEF SqlFails, Wants, Fault, effects, Items
<1>. QED
  BY <1>1, <1>2, <1>3, <1>4, <1>5, <1>6 DEF Handle

-----------------------------------------------------------------------------
(***************************************************************************)
(* What a fault may cost: the rows of one batch.                            *)
(***************************************************************************)
\* The rows of the running tick.
Busy == {r \in Rows : \E t \in Ticks : item[t][r] # "out"}

\* The rows that no tick has, though no reply was missed.
Left ==
  {r \in Rows \ missed :
     outbox[r].jobStatus = "PROCESSING" /\ \A t \in Ticks : item[t][r] = "out"}

\* The running batch will leave rows.
Doomed ==
  \E t \in Ticks : tick[t] = "aborted" \/ \E r \in Rows \ missed : item[t][r] = "abandoned"

\* Beside OneTickInv: the faults so far have paid for the rows that were left,
\* and for those that the running batch may leave.
Paid ==
  /\ Cardinality(Busy) <= Take
  /\ Cardinality(Left) <= Take * faults
  /\ Doomed => Cardinality(Left) + Take <= Take * faults

LEMMA InitPaid == Init => Paid
<1> SUFFICES ASSUME Init PROVE Paid
  OBVIOUS
<1>1. Busy = {} /\ Left = {} /\ ~Doomed
  BY DEF Init, Busy, Left, Doomed, Nothing
<1>2. Take * faults = 0 /\ Take >= 0
  BY TakeAssumption DEF Init
<1>. QED
  BY <1>1, <1>2, FS_EmptySet DEF Paid

\* Sets of rows and their sizes.
LEMMA RowSets ==
  ASSUME NEW A \in SUBSET Rows, NEW B \in SUBSET Rows, NEW C, C \subseteq A \cup B
  PROVE  /\ Cardinality(A) \in Nat /\ Cardinality(B) \in Nat /\ Cardinality(C) \in Nat
         /\ Cardinality(C) <= Cardinality(A) + Cardinality(B)
         /\ C \subseteq A => Cardinality(C) <= Cardinality(A)
<1>1. IsFiniteSet(A) /\ IsFiniteSet(B) /\ IsFiniteSet(A \cup B) /\ IsFiniteSet(A \cap B)
  BY FS_Subset, FiniteAssumption
<1>2. IsFiniteSet(C) /\ Cardinality(C) <= Cardinality(A \cup B)
  BY <1>1, FS_Subset
<1>3. Cardinality(A \cup B) = Cardinality(A) + Cardinality(B) - Cardinality(A \cap B)
  BY <1>1, FS_Union
<1>4. C \subseteq A => Cardinality(C) <= Cardinality(A)
  BY <1>1, FS_Subset
<1>5. /\ Cardinality(A) \in Nat /\ Cardinality(B) \in Nat /\ Cardinality(C) \in Nat
      /\ Cardinality(A \cup B) \in Nat /\ Cardinality(A \cap B) \in Nat
  BY <1>1, <1>2, FS_CardinalityType
<1>. QED
  BY <1>2, <1>3, <1>4, <1>5

\* A step keeps the account: it leaves no row, and dooms the batch only for a
\* fault; or it ends the batch, doomed or by a fault, and leaves rows of it.
LEMMA PaidKept ==
  ASSUME Paid, faults \in Nat, faults' \in {faults, faults + 1},
         Cardinality(Busy') <= Take,
         \/ Left' \subseteq Left /\ (Doomed' => Doomed \/ faults' = faults + 1)
         \/ /\ Left' \subseteq Left \cup Busy /\ ~Doomed'
            /\ Doomed \/ faults' = faults + 1
  PROVE  Paid'
<1>1. Left \in SUBSET Rows /\ Busy \in SUBSET Rows
  BY DEF Left, Busy
<1>2. /\ Cardinality(Left) \in Nat /\ Cardinality(Busy) \in Nat /\ Cardinality(Left') \in Nat
      /\ Left' \subseteq Left => Cardinality(Left') <= Cardinality(Left)
      /\ Cardinality(Left') <= Cardinality(Left) + Cardinality(Busy)
  <2>1. Left' \subseteq Left \cup Busy
    OBVIOUS
  <2>. HIDE DEF Left, Busy
  <2>. QED
    BY <1>1, <2>1, RowSets
<1>3. Take \in Nat /\ Take * faults \in Nat /\ Take * (faults + 1) = Take * faults + Take
  BY TakeAssumption
<1>4. Take * faults' \in {Take * faults, Take * faults + Take}
  BY <1>3
<1>5. faults' = faults + 1 => Take * faults' = Take * faults + Take
  BY <1>3
<1>. QED
  BY <1>2, <1>3, <1>4, <1>5 DEF Paid

\* The batch of a tick that does not change, or shrinks.
LEMMA BusyKept ==
  ASSUME Paid, \A t \in Ticks, r \in Rows : item'[t][r] # "out" => item[t][r] # "out"
  PROVE  Cardinality(Busy') <= Take
<1>1. Busy \in SUBSET Rows /\ Busy' \subseteq Busy
  BY DEF Busy
<1>2. Cardinality(Busy') <= Cardinality(Busy) /\ Cardinality(Busy') \in Nat /\ Cardinality(Busy) \in Nat
  BY <1>1, RowSets
<1>. QED
  BY <1>2, TakeAssumption DEF Paid

LEMMA HandlersPaid ==
  ASSUME OneTick, OneTickInv, Paid, NEW t \in Ticks, NEW r \in Rows,
         \/ Handle(t, r) \/ ReplyMissed(t, r) \/ SendThrows(t, r) \/ Refuse(t, r)
         \/ Stall(t, r) \/ ReplyLost(t, r) \/ SqlFails(t, r)
  PROVE  Paid'
<1>0. TypeOK /\ faults \in Nat
  BY BoundsAssumption DEF OneTickInv, IInv, TypeOK
<1>1. /\ UNCHANGED rows /\ item[t][r] # "out"
      /\ missed \subseteq missed' /\ faults' \in {faults, faults + 1}
      /\ UNCHANGED tick \/ (tick' = [tick EXCEPT ![t] = "aborted"] /\ faults' = faults + 1)
  BY <1>0, HandlerSteps
<1>2. PICK to \in Items \ {"out"} :
        /\ Step(t, r, to)
        /\ to = "abandoned" => tick[t] = "aborted" \/ faults' = faults + 1 \/ r \in missed'
  BY <1>0, HandlerSteps
<1>3. \A s \in Ticks, q \in Rows : item'[s][q] = IF s = t /\ q = r THEN to ELSE item[s][q]
  BY <1>0, <1>2, OneItem
<1>4. Left' \subseteq Left
  BY <1>1, <1>2, <1>3 DEF Left, rows
<1>5. Doomed' => Doomed \/ faults' = faults + 1
  BY <1>1, <1>2, <1>3 DEF Doomed
<1>6. Cardinality(Busy') <= Take
  BY <1>1, <1>3, BusyKept
<1>. QED
  BY <1>0, <1>1, <1>4, <1>5, <1>6, PaidKept

\* A tick that begins lists rows that wait, Take of them at most.
LEMMA SelectPaid ==
  ASSUME OneTick, OneTickInv, Paid, NEW t \in Ticks, Select(t) PROVE Paid'
<1>0. TypeOK /\ faults \in Nat /\ \A s \in Ticks : s = t
  BY BoundsAssumption DEF OneTickInv, IInv, TypeOK, OneTick
<1>1. PICK S \in Batches :
        item' = [item EXCEPT ![t] = [r \in Rows |-> IF r \in S THEN "listed" ELSE "out"]]
  BY DEF Select
<1>2. /\ S \subseteq Rows /\ Cardinality(S) <= Take
      /\ \A r \in S : outbox[r].jobStatus = "PENDING"
      /\ UNCHANGED <<rows, missed, faults>> /\ tick'[t] = "selected" /\ tick[t] = "idle"
  BY <1>0 DEF Batches, Claimable, Select, effects, TypeOK
<1>3. /\ \A r \in Rows : item'[t][r] = IF r \in S THEN "listed" ELSE "out"
      /\ \A r \in Rows : item[t][r] = "out"
  BY <1>0, <1>1, <1>2 DEF TypeOK, OneTickInv, PhaseOK, Nothing
<1>4. Busy' = S
  BY <1>0, <1>2, <1>3 DEF Busy
<1>5. Left' \subseteq Left /\ ~Doomed'
  BY <1>0, <1>2, <1>3 DEF Left, Doomed, rows
<1>. QED
  BY <1>0, <1>2, <1>4, <1>5, PaidKept

LEMMA ClaimPaid ==
  ASSUME OneTick, OneTickInv, Paid, NEW t \in Ticks, Claim(t) PROVE Paid'
<1>0. TypeOK /\ faults \in Nat /\ \A s \in Ticks : s = t
  BY BoundsAssumption DEF OneTickInv, IInv, TypeOK, OneTick
<1>1. /\ tick[t] = "selected" /\ tick'[t] = "running" /\ UNCHANGED <<missed, faults>>
      /\ \A r \in Rows :
           /\ item[t][r] \in {"out", "listed"}
           /\ item'[t][r] = IF item[t][r] = "listed" THEN "ready" ELSE "out"
           /\ item[t][r] # "listed" => outbox'[r] = outbox[r]
  BY <1>0 DEF Claim, effects, TypeOK, OneTickInv, PhaseOK
<1>2. Left' \subseteq Left /\ ~Doomed'
  BY <1>0, <1>1 DEF Left, Doomed
<1>3. Cardinality(Busy') <= Take
  BY <1>0, <1>1, BusyKept
<1>. QED
  BY <1>0, <1>1, <1>2, <1>3, PaidKept

\* A batch that is over leaves no row of its own but for a fault, or if it was
\* doomed.
LEMMA CommitPaid ==
  ASSUME OneTick, OneTickInv, Paid, NEW t \in Ticks, Commit(t) PROVE Paid'
<1>0. TypeOK /\ faults \in Nat /\ \A s \in Ticks : s = t
  BY BoundsAssumption DEF OneTickInv, IInv, TypeOK, OneTick
<1>1. /\ tick'[t] = "idle" /\ UNCHANGED <<missed, faults>>
      /\ \A r \in Rows : item'[t][r] = "out" /\ item[t][r] \in Returned
      /\ tick[t] \in {"running", "aborted"}
  BY <1>0 DEF Commit, AllReturned, Over, Nothing, effects, TypeOK
<1>2. \A r \in Rows :
        /\ Holds(t, r) => outbox'[r].jobStatus # "PROCESSING"
        /\ ~Holds(t, r) => outbox'[r] = outbox[r]
  BY DEF Commit, Completed, Reversed, Pending
<1>3. Left' \subseteq Left \cup Busy /\ ~Doomed'
  BY <1>0, <1>1, <1>2 DEF Left, Busy, Doomed, Holds
<1>4. ~Doomed => Left' \subseteq Left
  <2> SUFFICES ASSUME ~Doomed, NEW r \in Left' PROVE r \in Left
    OBVIOUS
  <2>1. r \in Rows \ missed /\ outbox'[r].jobStatus = "PROCESSING"
    BY <1>1 DEF Left
  <2>2. item[t][r] \notin {"completed", "reversed", "abandoned"}
    BY <1>1, <1>2, <2>1 DEF Doomed, Holds
  <2>3. item[t][r] = "out" /\ outbox'[r] = outbox[r]
    BY <1>1, <1>2, <2>1, <2>2 DEF Returned, Holds
  <2>. QED
    BY <1>0, <2>1, <2>3 DEF Left
<1>5. Cardinality(Busy') <= Take
  BY <1>0, <1>1, BusyKept
<1>. QED
  BY <1>0, <1>1, <1>3, <1>4, <1>5, PaidKept

LEMMA EndPaid ==
  ASSUME OneTick, OneTickInv, Paid,
         CronCrash \/ \E t \in Ticks : ClaimFails(t) \/ CommitFails(t)
  PROVE  Paid'
<1>0. TypeOK /\ faults \in Nat
  BY BoundsAssumption DEF OneTickInv, IInv, TypeOK
<1>1. /\ UNCHANGED <<rows, missed>> /\ faults' = faults + 1
      /\ \A s \in Ticks : tick'[s] = "idle" /\ item'[s] = Nothing
  <2>1. CASE CronCrash
    BY <2>1 DEF CronCrash, Fault
  <2>2. CASE \E t \in Ticks : ClaimFails(t) \/ CommitFails(t)
    BY <1>0, <2>2 DEF ClaimFails, CommitFails, Over, Fault, effects, OneTick, TypeOK
  <2>. QED
    BY <2>1, <2>2
<1>2. Left' \subseteq Left \cup Busy /\ ~Doomed'
  BY <1>1 DEF Left, Busy, Doomed, rows, Nothing
<1>3. Cardinality(Busy') <= Take
  BY <1>1, BusyKept DEF Nothing
<1>. QED
  BY <1>0, <1>1, <1>2, <1>3, PaidKept

\* What concerns no tick leaves no row.
LEMMA OthersPaid ==
  ASSUME OneTickInv, Paid,
         UNCHANGED vars \/ \E r \in Rows : CreateUser(r) \/ DeliverOrphan(r)
  PROVE  Paid'
<1>0. TypeOK /\ faults \in Nat
  BY BoundsAssumption DEF OneTickInv, IInv, TypeOK
<1>1. UNCHANGED <<tick, item, missed, faults>>
  BY DEF vars, CreateUser, DeliverOrphan, work, effects
<1>2. \A r \in Rows : outbox'[r] = outbox[r] \/ outbox'[r] = Pending
  BY <1>0 DEF vars, CreateUser, DeliverOrphan, rows, TypeOK
<1>3. Left' \subseteq Left /\ (Doomed' => Doomed)
  BY <1>1, <1>2 DEF Left, Doomed, Pending
<1>4. Cardinality(Busy') <= Take
  BY <1>1, BusyKept
<1>. QED
  BY <1>0, <1>1, <1>3, <1>4, PaidKept

LEMMA NextPaid == ASSUME OneTick PROVE OneTickInv /\ Paid /\ [Next]_vars => Paid'
BY HandlersPaid, SelectPaid, ClaimPaid, CommitPaid, EndPaid, OthersPaid DEF Next

\* While ticks do not overlap, a fault strands the rows of one batch at most, and
\* where nothing fails only a reply that is missed leaves a row behind.
THEOREM FewStranded == ASSUME OneTick PROVE Spec => []StrandedBounded
<1>1. OneTickInv /\ Paid => StrandedBounded
  <2> SUFFICES ASSUME OneTickInv, Paid PROVE StrandedBounded
    OBVIOUS
  <2>1. Stranded \subseteq Left \cup Busy /\ (~Doomed => Stranded \subseteq Left)
    <3> SUFFICES ASSUME NEW r \in Stranded PROVE r \in Left \/ (r \in Busy /\ Doomed)
      OBVIOUS
    <3>1. r \in Rows \ missed /\ outbox[r].jobStatus = "PROCESSING"
      BY DEF Stranded
    <3>2. CASE \A t \in Ticks : item[t][r] = "out"
      BY <3>1, <3>2 DEF Left
    <3>3. ASSUME NEW t \in Ticks, item[t][r] # "out" PROVE r \in Busy /\ Doomed
      <4>1. tick[t] = "running" => item[t][r] = "abandoned"
        BY <3>3 DEF Stranded
      <4>2. tick[t] # "idle" /\ tick[t] # "selected"
        BY <3>1, <3>3 DEF OneTickInv, PhaseOK, Owned, Nothing
      <4>3. tick[t] \in {"running", "aborted"}
        BY <4>2 DEF OneTickInv, IInv, TypeOK, TickPhases
      <4>. QED
        BY <3>1, <3>3, <4>1, <4>3 DEF Busy, Doomed
    <3>. QED
      BY <3>2, <3>3
  <2>2. Left \in SUBSET Rows /\ Busy \in SUBSET Rows
    BY DEF Left, Busy
  <2>3. /\ Cardinality(Left) \in Nat /\ Cardinality(Busy) \in Nat /\ Cardinality(Stranded) \in Nat
        /\ Cardinality(Stranded) <= Cardinality(Left) + Cardinality(Busy)
        /\ ~Doomed => Cardinality(Stranded) <= Cardinality(Left)
    BY <2>1, <2>2, RowSets
  <2>4. Take \in Nat /\ faults \in Nat /\ Take * faults \in Nat
    BY TakeAssumption, BoundsAssumption DEF OneTickInv, IInv, TypeOK
  <2>. QED
    BY <2>3, <2>4 DEF Paid, StrandedBounded
<1>. QED
  BY <1>1, InitPaid, NextPaid, OneTickInvariance, PTL DEF Spec

-----------------------------------------------------------------------------
(***************************************************************************)
(* While ticks do not overlap, the outbox implements WelcomeMail.           *)
(***************************************************************************)
\* A job on the queue that nobody waits for belongs to a row that stays PROCESSING
\* in no batch that may settle it.
Orphaned(r) ==
  orphans[r] > 0 =>
    outbox[r].jobStatus = "PROCESSING" /\ \A t \in Ticks : item[t][r] \in {"out", "abandoned"}

LEMMA InitOrphaned == Init => \A r \in Rows : Orphaned(r)
BY DEF Init, Orphaned

LEMMA NextOrphaned ==
  ASSUME OneTick, OneTickInv, Next, NEW r \in Rows, Orphaned(r)
  PROVE  Orphaned(r)'
<1>0. TypeOK /\ orphans[r] \in Nat
  BY DEF OneTickInv, IInv, TypeOK
<1>1. ASSUME NEW q \in Rows, CreateUser(q) PROVE Orphaned(r)'
  <2>1. outbox[q].jobStatus = "NONE" /\ UNCHANGED <<orphans, item>>
    BY <1>0, <1>1 DEF CreateUser, OneTickInv, Created, effects, work, TypeOK
  <2>2. q # r => outbox'[r] = outbox[r]
    BY <1>0, <1>1 DEF CreateUser, TypeOK
  <2>. QED
    BY <2>1, <2>2 DEF Orphaned
<1>2. ASSUME NEW q \in Rows, DeliverOrphan(q)
      PROVE  Orphaned(r)'
  <2>1. UNCHANGED <<outbox, item>> /\ (orphans'[r] > 0 => orphans[r] > 0)
    BY <1>0, <1>2 DEF DeliverOrphan, rows, work, TypeOK
  <2>. QED
    BY <2>1 DEF Orphaned
<1>3. ASSUME NEW t \in Ticks, Select(t) PROVE Orphaned(r)'
  <2>1. PICK S \in Batches :
          item' = [item EXCEPT ![t] = [q \in Rows |-> IF q \in S THEN "listed" ELSE "out"]]
    BY <1>3 DEF Select
  <2>2. r \in S => outbox[r].jobStatus = "PENDING"
    BY DEF Batches, Claimable
  <2>3. \A s \in Ticks : item'[s][r] = item[s][r] \/ item'[s][r] = "out" \/ r \in S
    BY <1>0, <2>1 DEF TypeOK
  <2>. QED
    BY <1>3, <2>2, <2>3 DEF Select, Orphaned, rows, effects
<1>4. ASSUME NEW t \in Ticks, Claim(t) PROVE Orphaned(r)'
  <2>1. item[t][r] # "listed" => outbox'[r] = outbox[r]
    BY <1>4 DEF Claim
  <2>2. \A s \in Ticks : item[t][r] # "listed" => item'[s][r] \in {item[s][r], "out"}
    BY <1>0, <1>4 DEF Claim, TypeOK
  <2>3. UNCHANGED orphans
    BY <1>4 DEF Claim, effects
  <2>. QED
    BY <2>1, <2>2, <2>3 DEF Orphaned
<1>5. ASSUME NEW t \in Ticks, ClaimFails(t) \/ CommitFails(t) \/ Commit(t) PROVE Orphaned(r)'
  <2>1. ~Holds(t, r) => outbox'[r] = outbox[r]
    BY <1>5 DEF ClaimFails, CommitFails, Commit, rows
  <2>2. \A s \in Ticks : item'[s][r] \in {item[s][r], "out"}
    BY <1>0, <1>5 DEF ClaimFails, CommitFails, Commit, Over, Nothing, TypeOK
  <2>3. UNCHANGED orphans
    BY <1>5 DEF ClaimFails, CommitFails, Commit, effects
  <2>. QED
    BY <2>1, <2>2, <2>3 DEF Orphaned, Holds
<1>6. ASSUME NEW t \in Ticks, NEW q \in Rows,
             \/ Handle(t, q) \/ ReplyMissed(t, q) \/ SendThrows(t, q) \/ Refuse(t, q)
             \/ Stall(t, q) \/ ReplyLost(t, q) \/ SqlFails(t, q)
      PROVE  Orphaned(r)'
  <2>1. PICK to \in Items :
          /\ Step(t, q, to)
          /\ UNCHANGED orphans \/ (to = "abandoned" /\ orphans' = [orphans EXCEPT ![q] = orphans[q] + 1])
    BY <1>0, <1>6, HandlerSteps
  <2>2. UNCHANGED outbox /\ item[t][q] \notin {"out", "listed", "abandoned"}
    BY <1>0, <1>6, HandlerSteps DEF rows
  <2>3. \A s \in Ticks : item'[s][r] = IF s = t /\ r = q THEN to ELSE item[s][r]
    BY <1>0, <2>1, OneItem
  <2>4. \A s \in Ticks : s = t
    BY DEF OneTick
  <2>5. outbox[q].jobStatus = "PROCESSING"
    BY <2>2 DEF OneTickInv, Owned
  <2>6. CASE r # q
    BY <1>0, <2>1, <2>2, <2>3, <2>6 DEF Orphaned, TypeOK
  <2>7. CASE r = q
    BY <2>1, <2>2, <2>3, <2>4, <2>5, <2>7 DEF Orphaned
  <2>. QED
    BY <2>6, <2>7
<1>7. CASE CronCrash
  <2>1. \A s \in Ticks : item'[s][r] = "out"
    BY <1>7 DEF CronCrash, Nothing
  <2>2. UNCHANGED outbox
    BY <1>7 DEF CronCrash, rows
  <2>3. CASE \E t \in Ticks : item[t][r] \in {"queued", "requeued"}
    BY <2>1, <2>2, <2>3 DEF OneTickInv, Owned, Orphaned
  <2>4. CASE \A t \in Ticks : item[t][r] \notin {"queued", "requeued"}
    <3>1. {t \in Ticks : item[t][r] \in {"queued", "requeued"}} = {}
      BY <2>4
    <3>2. orphans'[r] = orphans[r]
      BY <1>0, <1>7, <3>1, FS_EmptySet DEF CronCrash
    <3>. QED
      BY <2>1, <2>2, <3>2 DEF Orphaned
  <2>. QED
    BY <2>3, <2>4
<1>. QED
  BY <1>1, <1>2, <1>3, <1>4, <1>5, <1>6, <1>7 DEF Next

\* A step that leaves the rows alone and sends at most one email, for a row that
\* is PROCESSING, is a step of WelcomeMail or none.
LEMMA SendingMaps ==
  ASSUME TypeOK, NEW r \in Rows, outbox[r].jobStatus = "PROCESSING", UNCHANGED outbox,
         sent' = sent \/ sent' = [sent EXCEPT ![r] = OneMore(sent[r])]
  PROVE  [Mail!Next]_(Mail!vars)
<1>1. MailStatus' = MailStatus /\ MailStatus[r] = "working"
  BY DEF MailStatus
<1>2. CASE sent' = sent
  BY <1>1, <1>2 DEF Mail!vars
<1>3. CASE sent' = [sent EXCEPT ![r] = OneMore(sent[r])]
  BY <1>1, <1>3 DEF Mail!Next, Mail!Mail, OneMore
<1>. QED
  BY <1>2, <1>3

LEMMA Silent == ASSUME UNCHANGED <<outbox, sent>> PROVE [Mail!Next]_(Mail!vars)
BY DEF MailStatus, Mail!vars

LEMMA CreateMaps ==
  ASSUME OneTickInv, NEW r \in Rows, CreateUser(r)
  PROVE  Mail!Create(r)
<1>1. /\ outbox \in [Rows -> OutboxRow] /\ outbox[r].jobStatus = "NONE"
      /\ outbox' = [outbox EXCEPT ![r] = Pending] /\ UNCHANGED sent
  BY DEF OneTickInv, IInv, TypeOK, Created, CreateUser, effects
<1>2. /\ outbox'[r].jobStatus = "PENDING"
      /\ \A q \in Rows \ {r} : outbox'[q] = outbox[q]
  BY <1>1 DEF Pending
<1>3. MailStatus' = [q \in Rows |-> IF q = r THEN "waiting" ELSE MailStatus[q]]
  BY <1>2 DEF MailStatus
<1>4. MailStatus' = [MailStatus EXCEPT ![r] = "waiting"]
  BY <1>3 DEF MailStatus
<1>. QED
  BY <1>1, <1>4 DEF Mail!Create, MailStatus

LEMMA ClaimMaps ==
  ASSUME OneTickInv, NEW t \in Ticks, Claim(t)
  PROVE  Mail!TakeUp({r \in Rows : item[t][r] = "listed"})
<1>1. \A r \in Rows :
        /\ outbox[r] \in OutboxRow
        /\ outbox'[r] = IF item[t][r] = "listed" THEN Processing(outbox[r]) ELSE outbox[r]
        /\ item[t][r] = "listed" => outbox[r].jobStatus = "PENDING"
  BY DEF OneTickInv, Owned, IInv, TypeOK, Claim
<1>2. \A r \in Rows : Processing(outbox[r]).jobStatus = "PROCESSING"
  BY <1>1 DEF Processing, OutboxRow
<1>3. UNCHANGED sent
  BY DEF Claim, effects
<1>. QED
  BY <1>1, <1>2, <1>3 DEF Mail!TakeUp, MailStatus

LEMMA CommitMaps ==
  ASSUME OneTickInv, NEW t \in Ticks, Commit(t)
  PROVE  \E D, B \in SUBSET Rows : Mail!Settle(D, B)
<1> DEFINE done == {r \in Rows : Holds(t, r) /\ item[t][r] = "completed"}
           back == {r \in Rows : Holds(t, r) /\ item[t][r] = "reversed"}
<1>1. \A r \in Rows :
        outbox'[r] = IF r \in done THEN Completed ELSE IF r \in back THEN Reversed ELSE outbox[r]
  BY DEF Commit, Holds
<1>2. \A r \in done \cup back : outbox[r].jobStatus = "PROCESSING"
  BY DEF OneTickInv, Owned
<1>3. \A r \in done : sent[r] > 0
  BY DEF OneTickInv, IInv, ItemOK
<1>4. UNCHANGED sent
  BY DEF Commit, effects
<1>5. /\ \A r \in done \cup back : MailStatus[r] = "working"
      /\ MailStatus' = [r \in Rows |-> IF r \in done THEN "recorded"
                                       ELSE IF r \in back THEN "waiting" ELSE MailStatus[r]]
  BY <1>1, <1>2 DEF MailStatus, Completed, Reversed, Pending
<1>6. Mail!Settle(done, back)
  BY <1>3, <1>4, <1>5 DEF Mail!Settle
<1>. QED
  BY <1>6

\* Every step of the outbox is one of WelcomeMail, or none.
LEMMA NextMaps ==
  ASSUME OneTick, OneTickInv, \A r \in Rows : Orphaned(r), Next
  PROVE  [Mail!Next]_(Mail!vars)
<1>0. TypeOK
  BY DEF OneTickInv, IInv
<1>1. ASSUME NEW r \in Rows, CreateUser(r) PROVE [Mail!Next]_(Mail!vars)
  BY <1>1, CreateMaps DEF Mail!Next
<1>2. ASSUME NEW r \in Rows, DeliverOrphan(r) PROVE [Mail!Next]_(Mail!vars)
  BY <1>0, <1>2, SendingMaps DEF DeliverOrphan, Orphaned, rows
<1>3. ASSUME NEW t \in Ticks, Claim(t) PROVE [Mail!Next]_(Mail!vars)
  BY <1>3, ClaimMaps DEF Mail!Next
<1>4. ASSUME NEW t \in Ticks, Commit(t) PROVE [Mail!Next]_(Mail!vars)
  BY <1>4, CommitMaps DEF Mail!Next
<1>5. ASSUME NEW t \in Ticks, NEW r \in Rows,
             \/ Handle(t, r) \/ ReplyMissed(t, r) \/ SendThrows(t, r) \/ Refuse(t, r)
             \/ Stall(t, r) \/ ReplyLost(t, r) \/ SqlFails(t, r)
      PROVE  [Mail!Next]_(Mail!vars)
  <2>1. outbox[r].jobStatus = "PROCESSING"
    BY <1>0, <1>5, HandlerSteps DEF OneTickInv, Owned
  <2>. QED
    BY <1>0, <1>5, <2>1, HandlerSteps, SendingMaps DEF rows
<1>6. CASE \/ CronCrash
           \/ \E t \in Ticks : Select(t) \/ ClaimFails(t) \/ CommitFails(t)
  BY <1>6, Silent
     DEF CronCrash, Select, ClaimFails, CommitFails, rows, effects
<1>. QED
  BY <1>1, <1>2, <1>3, <1>4, <1>5, <1>6 DEF Next

\* While ticks do not overlap, no email is sent but for a row in work, and what
\* is COMPLETED stays so: for any number of rows and of faults.
THEOREM MailsSettled == ASSUME OneTick PROVE Spec => MailsAreSettled
<1> DEFINE AllOrphaned == \A r \in Rows : Orphaned(r)
<1>1. Init => AllOrphaned
  BY InitOrphaned
<1>2. OneTickInv /\ AllOrphaned /\ [Next]_vars => AllOrphaned'
  <2> SUFFICES ASSUME OneTickInv, AllOrphaned, [Next]_vars PROVE AllOrphaned'
    OBVIOUS
  <2>1. CASE Next
    BY <2>1, NextOrphaned
  <2>2. CASE UNCHANGED vars
    BY <2>2 DEF vars, rows, work, effects, Orphaned
  <2>. QED
    BY <2>1, <2>2
<1>3. Init => Mail!Init
  BY DEF Init, Mail!Init, MailStatus
<1>4. OneTickInv /\ AllOrphaned /\ [Next]_vars => [Mail!Next]_(Mail!vars)
  <2> SUFFICES ASSUME OneTickInv, AllOrphaned, [Next]_vars PROVE [Mail!Next]_(Mail!vars)
    OBVIOUS
  <2>1. CASE UNCHANGED vars
    BY <2>1, Silent DEF vars, rows, effects
  <2>. QED
    BY <2>1, NextMaps
<1>. HIDE DEF AllOrphaned
<1>. QED
  BY <1>1, <1>2, <1>3, <1>4, OneTickInvariance, PTL DEF Spec, MailsAreSettled, Mail!Spec
=============================================================================
