----------------------------- MODULE SagaProofs -----------------------------
(***************************************************************************)
(* Saga for any number of steps, however they are registered, and any       *)
(* number of runs.                                                          *)
(***************************************************************************)
EXTENDS Saga, FiniteSetTheorems, WellFoundedInduction, TLAPS

\* On the way: the run has executed the steps from its label on, and they stand.
Forward ==
  /\ \A s \in executed : from <= s /\ s < cur /\ s \in standing
  /\ \A s \in Step : from <= s /\ s < cur /\ plan[s].retry > 0 => s \in executed

\* A step is at work, and stands once it has come to a success.
AtWork ==
  /\ cur \in Step
  /\ pc # "fallback" /\ pc # "rescue" /\ outcome = "ok" => cur \in standing

\* On the way back: the last steps are compensated and the first are not.
Backward ==
  /\ toUndo \subseteq executed
  /\ \A s \in executed : from <= s
  /\ \A s \in toUndo : s \in standing
  /\ \E k \in 0 .. Steps : toUndo = {s \in executed : s <= k}
  /\ allCompensated => \A s \in executed \ toUndo : s \notin standing

\* The inductive invariant.
IInv ==
  /\ TypeOK
  /\ pc = "idle" <=> (ended # "none" \/ runs = 0)
  /\ pc # "idle" => ended = "none" /\ from <= cur
  /\ pc \in {"step", "fallback", "rescue", "finally", "judge"} => Forward
  /\ pc \in {"fallback", "rescue", "finally", "judge"} => cur \in Step
  /\ pc \in {"finally", "judge"} => AtWork
  /\ pc = "undo" => Backward
  /\ FailureIsUndone
  /\ SuccessIsComplete

-----------------------------------------------------------------------------
LEMMA InitInv == Init => IInv
<1>. SUFFICES ASSUME Init PROVE IInv
  OBVIOUS
<1>1. /\ from \in 1 .. Steps + 1 /\ cur \in 1 .. Steps + 1
      /\ attempt \in Nat /\ tries \in Nat /\ runs \in 0 .. MaxRuns
  BY StepsAssumption, BoundsAssumption DEF Init
<1>2. TypeOK
  BY <1>1 DEF Init, TypeOK, Phases, Endings, Outcomes
<1>. QED
  BY <1>2 DEF Init, IInv, FailureIsUndone, SuccessIsComplete

\* The effect of a call at the current step adds at most that step, and adds it
\* if the call succeeds.
LEMMA EffectAdds ==
  ASSUME standing \subseteq Step, cur \in Step, NEW o \in Outcomes, Effect(o)
  PROVE  /\ standing' \subseteq Step
         /\ standing \subseteq standing'
         /\ standing' \subseteq standing \cup {cur}
         /\ o = "ok" => cur \in standing'
BY DEF Effect, Outcomes

\* The calls: of an operation, a fallback or both.
LEMMA CallInv ==
  ASSUME IInv, NEW o \in Outcomes, Call(o)
  PROVE  IInv'
<1>1. /\ pc \in {"step", "fallback", "rescue"} /\ cur \in Step /\ Effect(o)
      /\ UNCHANGED <<plan, from, cur, attempt, undoing, result>>
  BY StepsAssumption
     DEF Call, CallPlain, CallTryCatch, CallRetry, CallFallback, OnFallback, OnRescue, Running,
         IInv, TypeOK, Step
<1>2. /\ standing' \subseteq Step /\ standing \subseteq standing'
      /\ o = "ok" => cur \in standing'
  BY <1>1, EffectAdds DEF IInv, TypeOK
<1>3. /\ pc' \in {"step", "fallback", "rescue", "finally", "judge"}
      /\ pc' \in {"finally", "judge"} /\ outcome' = "ok" => o = "ok"
      /\ outcome' \in Outcomes
      /\ tries' \in Nat
  BY <1>1
     DEF Call, CallPlain, CallTryCatch, CallRetry, CallFallback, OnFallback, OnRescue, Return,
         Outcomes, IInv, TypeOK
<1>4. TypeOK'
  BY <1>1, <1>2, <1>3 DEF IInv, TypeOK, Phases, undoing, result, Step
<1>5. Forward'
  BY <1>1, <1>2 DEF IInv, Forward, undoing
<1>6. /\ FailureIsUndone' /\ SuccessIsComplete'
      /\ pc # "idle" /\ pc' # "idle" /\ ended = "none" /\ ended' = "none" /\ from <= cur
      /\ runs' = runs /\ pc' # "undo"
  BY <1>1, <1>3 DEF IInv, FailureIsUndone, SuccessIsComplete, result
<1>. QED
  BY <1>1, <1>2, <1>3, <1>4, <1>5, <1>6 DEF IInv, AtWork

\* What is left of the outcome after onFinally.
LEMMA FinallyInv == ASSUME IInv, OnFinally PROVE IInv'
<1>1. PICK o \in {outcome, "throw"} : Return(o)
  BY DEF OnFinally
<1>. QED
  BY <1>1
     DEF OnFinally, Return, IInv, TypeOK, Outcomes, Phases, Forward, AtWork, FailureIsUndone,
         SuccessIsComplete, undoing, result

\* The judgement of an outcome.
LEMMA StepSucceedsInv == ASSUME IInv, StepSucceeds PROVE IInv'
<1>1. /\ cur \in Step /\ cur \in standing /\ executed' = executed \cup {cur} /\ cur' = cur + 1
      /\ pc' = "step" /\ Forward /\ TypeOK /\ from <= cur /\ ended = "none"
      /\ UNCHANGED <<plan, from, tries, outcome, toUndo, allCompensated, standing, result>>
  BY DEF IInv, StepSucceeds, AtWork
<1>2. TypeOK'
  BY <1>1, StepsAssumption DEF StepSucceeds, TypeOK, Phases, Step, result
<1>3. Forward'
  BY <1>1 DEF Forward, TypeOK, Step
<1>. QED
  BY <1>1, <1>2, <1>3
     DEF StepSucceeds, IInv, TypeOK, Step, FailureIsUndone, SuccessIsComplete, result

LEMMA StepFailsInv == ASSUME IInv, StepFails PROVE IInv'
<1>1. TypeOK'
  BY DEF IInv, StepFails, TypeOK, Phases, result
<1>2. ASSUME pc' = "undo" PROVE Backward'
  <2>1. /\ Forward /\ toUndo' = executed /\ executed \subseteq Step
        /\ UNCHANGED <<from, executed, standing>>
    BY <1>2 DEF IInv, StepFails, TypeOK
  <2>2. \A s \in executed : s <= Steps
    BY <2>1, StepsAssumption DEF Step
  <2>3. executed = {s \in executed : s <= Steps} /\ Steps \in 0 .. Steps
    BY <2>2, StepsAssumption
  <2>. QED  BY <2>1, <2>3 DEF Forward, Backward
<1>3. pc' = "step" => Forward'
  BY DEF IInv, StepFails, Forward
<1>. QED
  BY <1>1, <1>2, <1>3
     DEF StepFails, IInv, FailureIsUndone, SuccessIsComplete, result

\* One step of the way back.
LEMMA CompensateInv ==
  ASSUME IInv, NEW s \in Step, Compensate(s) \/ CompensateThrows(s)
  PROVE  IInv'
<1>0. pc = "undo" /\ Backward /\ TypeOK
  BY DEF IInv, Compensate, CompensateThrows
<1>1. /\ s \in toUndo /\ toUndo' = toUndo \ {s}
      /\ \A t \in toUndo : t <= s
      /\ standing' \subseteq standing /\ standing \ {s} \subseteq standing'
      /\ \/ allCompensated' = allCompensated /\ s \notin standing'
         \/ allCompensated' = FALSE
      /\ UNCHANGED <<plan, pc, progress, executed, result>>
  BY DEF Compensate, CompensateThrows
<1>2. TypeOK'
  BY <1>0, <1>1 DEF TypeOK, progress, result
<1>3. \E k \in 0 .. Steps : toUndo' = {t \in executed : t <= k}
  <2>1. PICK k \in 0 .. Steps : toUndo = {t \in executed : t <= k}
    BY <1>0 DEF Backward
  <2>2. toUndo' = {t \in executed : t <= s - 1}
    <3>1. executed \subseteq Int /\ s \in Int /\ k \in Int
      BY <1>0, StepsAssumption DEF TypeOK, Step
    <3>2. \A t \in executed : t \in toUndo <=> t <= k
      BY <2>1
    <3>3. s <= k /\ \A t \in executed : t <= k => t <= s
      BY <1>1, <2>1
    <3>4. \A t \in executed : (t <= k /\ t # s) <=> t <= s - 1
      BY <3>1, <3>3
    <3>. QED  BY <1>1, <2>1, <3>2, <3>4
  <2>3. s - 1 \in 0 .. Steps
    BY StepsAssumption DEF Step
  <2>. QED  BY <2>2, <2>3
<1>4. Backward'
  BY <1>0, <1>1, <1>3 DEF Backward, progress
<1>. QED
  BY <1>0, <1>1, <1>2, <1>4
     DEF IInv, FailureIsUndone, SuccessIsComplete, progress, result

LEMMA NextInv == IInv /\ [Next]_vars => IInv'
<1>. SUFFICES ASSUME IInv, [Next]_vars PROVE IInv'
  OBVIOUS
<1>1. ASSUME NEW s \in 1 .. Steps + 1, RunAsync(s) PROVE IInv'
  <2>1. TypeOK' /\ runs' > 0
    BY <1>1, BoundsAssumption DEF IInv, RunAsync, TypeOK, Phases, Endings, Outcomes, Step
  <2>2. Forward'
    BY <1>1, <2>1 DEF RunAsync, Forward, TypeOK, Step
  <2>. QED
    BY <1>1, <2>1, <2>2 DEF IInv, RunAsync, TypeOK, FailureIsUndone, SuccessIsComplete
<1>2. CASE PassOver
  <2>1. /\ cur \in Step /\ plan[cur].retry = 0 /\ cur' = cur + 1 /\ Forward /\ TypeOK
        /\ UNCHANGED <<plan, pc, from, attempt, tries, outcome, undoing, standing, result>>
        /\ pc = "step"
    BY <1>2, StepsAssumption DEF IInv, PassOver, TypeOK, Step
  <2>2. TypeOK'
    BY <2>1, StepsAssumption DEF TypeOK, Step, undoing, result
  <2>3. Forward'
    BY <2>1, RetriesAssumption DEF Forward, TypeOK, Step, SagaStep, undoing
  <2>. QED
    BY <2>1, <2>2, <2>3 DEF IInv, FailureIsUndone, SuccessIsComplete, TypeOK, Step, undoing, result
<1>3. CASE Finish
  <2>1. TypeOK' /\ FailureIsUndone'
    BY <1>3
       DEF IInv, Finish, End, TypeOK, Phases, Endings, FailureIsUndone, progress, undoing
  <2>2. SuccessIsComplete'
    BY <1>3, StepsAssumption
       DEF IInv, Finish, End, Forward, SuccessIsComplete, TypeOK, Step, progress, undoing
  <2>. QED
    BY <1>3, <2>1, <2>2 DEF IInv, Finish, End
<1>4. ASSUME NEW o \in Outcomes, Call(o) PROVE IInv'
  BY <1>4, CallInv
<1>5. CASE OnFinally
  BY <1>5, FinallyInv
<1>6. CASE StepSucceeds
  BY <1>6, StepSucceedsInv
<1>7. CASE StepFails
  BY <1>7, StepFailsInv
<1>8. CASE Rethrow \/ Crash
  BY <1>8
     DEF IInv, Rethrow, Crash, End, TypeOK, Phases, Endings, FailureIsUndone, SuccessIsComplete,
         progress, undoing
<1>9. ASSUME NEW s \in Step, Compensate(s) \/ CompensateThrows(s) PROVE IInv'
  BY <1>9, CompensateInv
<1>10. CASE Fail
  <2>1. allCompensated => \A s \in executed : s \notin standing
    BY <1>10 DEF IInv, Fail, Backward
  <2>. QED
    BY <1>10, <2>1
       DEF IInv, Fail, End, TypeOK, Phases, Endings, FailureIsUndone, SuccessIsComplete, progress,
           undoing
<1>11. CASE UNCHANGED vars
  BY <1>11
     DEF IInv, vars, progress, undoing, result, TypeOK, Forward, AtWork, Backward,
         FailureIsUndone, SuccessIsComplete
<1>. QED
  BY <1>1, <1>2, <1>3, <1>4, <1>5, <1>6, <1>7, <1>8, <1>9, <1>10, <1>11 DEF Next, Proceed

-----------------------------------------------------------------------------
LEMMA Invariance == Spec => []IInv
BY InitInv, NextInv, PTL DEF Spec

\* Every variable keeps its type, for any number of steps and of runs.
THEOREM TypeCorrect == Spec => []TypeOK
<1>1. IInv => TypeOK
  BY DEF IInv
<1>. QED  BY <1>1, Invariance, PTL

\* SagaExecutionException.isCompensated tells the truth about the steps that
\* the run has executed.
THEOREM Undone == Spec => []FailureIsUndone
<1>1. IInv => FailureIsUndone
  BY DEF IInv
<1>. QED  BY <1>1, Invariance, PTL

\* A run that ends without an exception has left out no step.
THEOREM Complete == Spec => []SuccessIsComplete
<1>1. IInv => SuccessIsComplete
  BY DEF IInv
<1>. QED  BY <1>1, Invariance, PTL

\* The way back leaves no hole in what stands.
THEOREM Retraced == Spec => []UndoRetracesSteps
<1>1. ASSUME IInv, pc = "undo", allCompensated
      PROVE  \E k \in 0 .. Steps : executed \cap standing = {s \in executed : s <= k}
  <2>1. Backward /\ executed \cap standing = toUndo
    BY <1>1 DEF IInv, Backward
  <2>. QED  BY <2>1 DEF Backward
<1>2. IInv => UndoRetracesSteps
  BY <1>1 DEF UndoRetracesSteps
<1>. QED  BY <1>2, Invariance, PTL

\* No step of a run changes the effect of what lies before its label.
THEOREM EarlierKept == Spec => ResumeKeepsEarlier
<1>1. IInv /\ [Next]_vars
        => [pc # "idle" => \A s \in 1 .. from - 1 : s \in standing <=> s \in standing']_vars
  <2>. SUFFICES ASSUME IInv, Next, pc # "idle", NEW s \in 1 .. from - 1
                PROVE  s \in standing <=> s \in standing'
    OBVIOUS
  <2>1. s < from /\ from <= cur /\ s # cur
    BY DEF IInv, TypeOK, Step
  <2>2. ASSUME NEW o \in Outcomes, Call(o) PROVE s \in standing <=> s \in standing'
    <3>1. cur \in Step /\ Effect(o)
      BY <2>2, StepsAssumption
         DEF Call, CallPlain, CallTryCatch, CallRetry, CallFallback, OnFallback, OnRescue,
             Running, IInv, TypeOK, Step
    <3>. QED  BY <3>1, <2>1, EffectAdds DEF IInv, TypeOK
  <2>3. ASSUME NEW t \in Step, Compensate(t) \/ CompensateThrows(t)
        PROVE  s \in standing <=> s \in standing'
    <3>1. from <= t
      BY <2>3 DEF IInv, Backward, Compensate, CompensateThrows
    <3>2. s # t
      BY <2>1, <3>1 DEF IInv, TypeOK, Step
    <3>. QED  BY <2>3, <3>2 DEF Compensate, CompensateThrows
  <2>. QED
    BY <2>2, <2>3
       DEF Next, Proceed, RunAsync, PassOver, Finish, OnFinally, StepSucceeds, StepFails, Rethrow,
           Fail, Crash
<1>. QED  BY <1>1, Invariance, PTL DEF Spec, ResumeKeepsEarlier

-----------------------------------------------------------------------------
(***************************************************************************)
(* Why a run ends.  What a run has still to do is five numbers, in the      *)
(* order of their weight, and every step of the run lowers the first one    *)
(* that it changes.                                                         *)
(***************************************************************************)
OnTheWay == pc \notin {"idle", "undo"}

Stage == CASE pc = "idle" -> 0 [] pc = "undo" -> 1 [] OTHER -> 2

\* Steps to come, or compensations.
StepsLeft ==
  CASE pc = "idle" -> 0 [] pc = "undo" -> Cardinality(toUndo) [] OTHER -> Steps + 1 - cur

AttemptsLeft == IF OnTheWay /\ cur \in Step THEN plan[cur].retry - attempt ELSE 0

\* How far the action of the step is.
CallLeft ==
  CASE pc = "step" -> 4 [] pc = "fallback" -> 3 [] pc = "rescue" -> 2 [] pc = "finally" -> 1
    [] OTHER -> 0

TriesLeft == MaxRetry - tries

Remaining ==
  [i \in 1 .. 5 |->
     CASE i = 1 -> Stage [] i = 2 -> StepsLeft [] i = 3 -> AttemptsLeft [] i = 4 -> CallLeft
       [] i = 5 -> TriesLeft]

\* The lexicographic order of five natural numbers.
Below == LexProductOrdering(OpToRel(<, Nat), Nat, 5)

\* Attempts and tries are counted up to their limits, and not beyond.
Counted ==
  /\ tries < MaxRetry
  /\ OnTheWay /\ cur \in Step => attempt <= plan[cur].retry
  /\ OnTheWay /\ pc # "step" => attempt < plan[cur].retry
  /\ attempt > 0 /\ pc = "step" => cur \in Step /\ attempt < plan[cur].retry

LEMMA InitCounted == Init => Counted
BY BoundsAssumption DEF Init, Counted, OnTheWay

LEMMA NextCounted == IInv /\ Counted /\ [Next]_vars => Counted'
<1>. SUFFICES ASSUME IInv, Counted, [Next]_vars PROVE Counted'
  OBVIOUS
<1>0. /\ \A s \in Step : plan[s].retry \in Nat
      /\ attempt \in Nat /\ tries \in Nat /\ MaxRetry \in Nat \ {0} /\ cur \in 1 .. Steps + 1
  BY RetriesAssumption, BoundsAssumption DEF IInv, TypeOK, SagaStep
<1>1. ASSUME NEW s \in 1 .. Steps + 1, RunAsync(s) PROVE Counted'
  BY <1>0, <1>1 DEF RunAsync, Counted, OnTheWay
<1>2. CASE PassOver
  <2>1. attempt = 0
    BY <1>0, <1>2, StepsAssumption DEF PassOver, Counted, OnTheWay, Step
  <2>. QED
    BY <1>0, <1>2, <2>1 DEF PassOver, Counted, OnTheWay
<1>3. CASE Finish \/ Rethrow \/ Crash \/ Fail
  BY <1>3 DEF Finish, Rethrow, Crash, Fail, End, Counted, OnTheWay, progress
<1>4. ASSUME NEW o \in Outcomes, Call(o) PROVE Counted'
  <2>1. /\ OnTheWay /\ OnTheWay' /\ cur \in Step /\ attempt < plan[cur].retry
        /\ UNCHANGED <<plan, cur, attempt>>
    BY <1>0, <1>4, StepsAssumption
       DEF Call, CallPlain, CallTryCatch, CallRetry, CallFallback, OnFallback, OnRescue, Running,
           Return, IInv, Counted, OnTheWay, Step, Outcomes
  <2>2. tries' < MaxRetry
    BY <1>0, <1>4
       DEF Call, CallPlain, CallTryCatch, CallRetry, CallFallback, OnFallback, OnRescue, Return,
           Counted
  <2>. QED
    BY <1>0, <2>1, <2>2 DEF Counted
<1>5. CASE OnFinally
  BY <1>0, <1>5 DEF OnFinally, Return, IInv, Counted, OnTheWay
<1>6. CASE StepSucceeds
  BY <1>0, <1>6 DEF StepSucceeds, Counted, OnTheWay
<1>7. CASE StepFails
  BY <1>0, <1>7 DEF StepFails, IInv, Counted, OnTheWay
<1>8. ASSUME NEW s \in Step, Compensate(s) \/ CompensateThrows(s) PROVE Counted'
  BY <1>8 DEF Compensate, CompensateThrows, Counted, OnTheWay, progress
<1>9. CASE UNCHANGED vars
  BY <1>9 DEF vars, progress, Counted, OnTheWay
<1>. QED
  BY <1>1, <1>2, <1>3, <1>4, <1>5, <1>6, <1>7, <1>8, <1>9 DEF Next, Proceed

LEMMA UndoFinite == ASSUME IInv PROVE IsFiniteSet(toUndo)
<1>1. IsFiniteSet(Step) /\ toUndo \subseteq Step
  BY StepsAssumption, FS_Interval DEF IInv, TypeOK, Step
<1>. QED
  BY <1>1, FS_Subset

\* The five numbers are natural.
LEMMA RemainingType == ASSUME IInv, Counted PROVE Remaining \in [1 .. 5 -> Nat]
<1>0. /\ \A s \in Step : plan[s].retry \in Nat
      /\ attempt \in Nat /\ tries \in Nat /\ MaxRetry \in Nat \ {0} /\ cur \in 1 .. Steps + 1
  BY RetriesAssumption, BoundsAssumption DEF IInv, TypeOK, SagaStep
<1>1. StepsLeft \in Nat
  <2>1. Cardinality(toUndo) \in Nat
    BY UndoFinite, FS_CardinalityType
  <2>. QED
    BY <1>0, <2>1, StepsAssumption DEF StepsLeft
<1>2. AttemptsLeft \in Nat
  BY <1>0 DEF AttemptsLeft, Counted
<1>3. TriesLeft \in Nat
  BY <1>0 DEF TriesLeft, Counted
<1>4. Stage \in Nat /\ CallLeft \in Nat
  BY DEF Stage, CallLeft
<1>. QED
  BY <1>1, <1>2, <1>3, <1>4 DEF Remaining

\* Of two such quintuples, the one with the lower first difference is below.
LEMMA BelowAt ==
  ASSUME NEW f \in [1 .. 5 -> Nat], NEW g \in [1 .. 5 -> Nat], NEW j \in 1 .. 5,
         \A i \in 1 .. j - 1 : f[i] = g[i], f[j] < g[j]
  PROVE  <<f, g>> \in Below
<1>1. <<f[j], g[j]>> \in OpToRel(<, Nat)
  BY DEF OpToRel
<1>. QED
  BY <1>1 DEF Below, LexProductOrdering

LEMMA Lowered ==
  ASSUME Remaining \in [1 .. 5 -> Nat], Remaining' \in [1 .. 5 -> Nat],
         \/ Stage' < Stage
         \/ Stage' = Stage /\ StepsLeft' < StepsLeft
         \/ Stage' = Stage /\ StepsLeft' = StepsLeft /\ AttemptsLeft' < AttemptsLeft
         \/ /\ Stage' = Stage /\ StepsLeft' = StepsLeft /\ AttemptsLeft' = AttemptsLeft
            /\ \/ CallLeft' < CallLeft
               \/ CallLeft' = CallLeft /\ TriesLeft' < TriesLeft
  PROVE  <<Remaining', Remaining>> \in Below
<1>1. /\ Remaining[1] = Stage /\ Remaining[2] = StepsLeft /\ Remaining[3] = AttemptsLeft
      /\ Remaining[4] = CallLeft /\ Remaining[5] = TriesLeft
      /\ Remaining'[1] = Stage' /\ Remaining'[2] = StepsLeft' /\ Remaining'[3] = AttemptsLeft'
      /\ Remaining'[4] = CallLeft' /\ Remaining'[5] = TriesLeft'
  BY DEF Remaining
<1>2. PICK j \in 1 .. 5 :
        Remaining'[j] < Remaining[j] /\ \A i \in 1 .. j - 1 : Remaining'[i] = Remaining[i]
  BY <1>1
<1>. QED
  BY <1>2, BelowAt

\* How each step of a run lowers them.
LEMMA Descends ==
  ASSUME IInv, Counted, IInv', Counted', Proceed,
         Remaining \in [1 .. 5 -> Nat], Remaining' \in [1 .. 5 -> Nat]
  PROVE  <<Remaining', Remaining>> \in Below
<1>0. /\ \A s \in Step : plan[s].retry \in Nat
      /\ attempt \in Nat /\ tries \in Nat /\ MaxRetry \in Nat \ {0} /\ cur \in 1 .. Steps + 1
      /\ Steps \in Nat
  BY RetriesAssumption, BoundsAssumption, StepsAssumption DEF IInv, TypeOK, SagaStep
<1>1. CASE PassOver
  BY <1>0, <1>1, Lowered DEF PassOver, Stage, StepsLeft
<1>2. CASE Finish \/ Rethrow \/ Fail
  BY <1>2, Lowered DEF Finish, Rethrow, Fail, End, Stage
<1>3. ASSUME NEW o \in Outcomes, Call(o) PROVE <<Remaining', Remaining>> \in Below
  <2>1. /\ OnTheWay /\ OnTheWay' /\ UNCHANGED <<plan, cur, attempt>>
    BY <1>3
       DEF Call, CallPlain, CallTryCatch, CallRetry, CallFallback, OnFallback, OnRescue, Running,
           Return, OnTheWay, Outcomes
  <2>2. Stage' = Stage /\ StepsLeft' = StepsLeft /\ AttemptsLeft' = AttemptsLeft
    BY <2>1 DEF OnTheWay, Stage, StepsLeft, AttemptsLeft
  <2>3. CallLeft' < CallLeft \/ (pc' = pc /\ tries' = tries + 1)
    BY <1>3
       DEF Call, CallPlain, CallTryCatch, CallRetry, CallFallback, OnFallback, OnRescue, Running,
           Return, Outcomes, CallLeft
  <2>. QED
    BY <1>0, <2>2, <2>3, Lowered DEF CallLeft, TriesLeft
<1>4. CASE OnFinally
  BY <1>4, Lowered DEF OnFinally, Return, OnTheWay, Stage, StepsLeft, AttemptsLeft, CallLeft
<1>5. CASE StepSucceeds
  BY <1>0, <1>5, Lowered DEF StepSucceeds, Stage, StepsLeft
<1>6. CASE StepFails
  <2>1. CASE pc' = "undo"
    BY <1>6, <2>1, Lowered DEF StepFails, Stage
  <2>2. CASE pc' = "step"
    <3>1. Stage' = Stage /\ StepsLeft' = StepsLeft
      BY <1>6, <2>2 DEF StepFails, Stage, StepsLeft
    <3>2. AttemptsLeft' < AttemptsLeft
      BY <1>0, <1>6, <2>2 DEF StepFails, OnTheWay, AttemptsLeft, IInv
    <3>. QED
      BY <3>1, <3>2, Lowered
  <2>. QED
    BY <1>6, <2>1, <2>2 DEF StepFails
<1>7. ASSUME NEW s \in Step, Compensate(s) \/ CompensateThrows(s)
      PROVE  <<Remaining', Remaining>> \in Below
  <2>1. /\ pc = "undo" /\ pc' = "undo" /\ s \in toUndo /\ toUndo' = toUndo \ {s}
    BY <1>7 DEF Compensate, CompensateThrows
  <2>2. Cardinality(toUndo') = Cardinality(toUndo) - 1 /\ Cardinality(toUndo) \in Nat
    BY <2>1, UndoFinite, FS_RemoveElement, FS_CardinalityType
  <2>. QED
    BY <2>1, <2>2, Lowered DEF Stage, StepsLeft
<1>. QED
  BY <1>1, <1>2, <1>3, <1>4, <1>5, <1>6, <1>7 DEF Proceed

\* Every step of a run, whatever the operations come to, lowers what remains.
THEOREM RunsDescend == Spec => [][Proceed => <<Remaining', Remaining>> \in Below]_vars
<1> DEFINE Measured == IInv /\ Counted /\ Remaining \in [1 .. 5 -> Nat]
<1>1. IInv /\ Counted => Measured
  BY RemainingType
<1>2. Measured /\ Measured' /\ [Next]_vars => [Proceed => <<Remaining', Remaining>> \in Below]_vars
  BY Descends
<1>3. Spec => []Counted
  BY InitCounted, NextCounted, Invariance, PTL DEF Spec
<1>. HIDE DEF Measured
<1>. QED
  BY <1>1, <1>2, <1>3, Invariance, PTL DEF Spec

\* And what remains cannot be lowered for ever: no run goes on without end.
LEMMA BelowIsWellFounded == IsWellFoundedOn(Below, [1 .. 5 -> Nat])
BY NatLessThanWellFounded, WFLexProductOrdering DEF Below
=============================================================================
