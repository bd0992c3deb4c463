-------------------------------- MODULE Saga --------------------------------
(***************************************************************************)
(* A saga of SagaOrchestratorBuilder: its steps run in the order of their   *)
(* registration, a step that keeps returning an error makes the saga undo   *)
(* what it has done, and a run that did not succeed may be run again from   *)
(* the label of a step.  The action of a step calls its operation directly  *)
(* or through a wrapper that deals with errors and exceptions:              *)
(* tryCatchResultAsync, tryCatchSagaResultAsync or RetryWrapper.            *)
(*                                                                          *)
(* An operation returns Ok and has taken effect, returns an error and has   *)
(* not, or throws, and nobody knows.                                        *)
(***************************************************************************)
EXTENDS Integers, FiniteSets

CONSTANTS
  Steps,     \* the number of steps
  Retries,   \* values of `retry` that a step may be registered with
  MaxRetry,  \* maxRetry of RetryWrapper
  MaxRuns    \* bound on the calls of runAsync

ASSUME StepsAssumption == Steps \in Nat
ASSUME RetriesAssumption == Retries \subseteq Nat
ASSUME BoundsAssumption == MaxRetry \in Nat \ {0} /\ MaxRuns \in Nat

VARIABLES
  plan,       \* plan[s]: how step s is registered
  pc,         \* where the run is
  from,       \* the step that the run starts with
  cur,        \* the step it is at
  attempt,    \* failed attempts at that step
  tries,      \* failed calls inside RetryWrapper
  outcome,    \* what the action of the step comes to
  executed,   \* executedSteps
  toUndo,     \* executed steps that are still to be compensated
  allCompensated,
  standing,   \* steps whose effect is in place
  isSuccess,  \* sagaCtx.isSuccess
  ended,      \* how the last run ended
  runs        \* calls of runAsync so far

progress == <<from, cur, attempt, tries, outcome>>
undoing == <<executed, toUndo, allCompensated>>
result == <<isSuccess, ended, runs>>
vars == <<plan, pc, progress, undoing, standing, result>>

-----------------------------------------------------------------------------
Step == 1 .. Steps

Kinds == {"plain", "tryCatch", "fallback", "retry"}

SagaStep == [retry : Retries, action : Kinds]

Outcomes == {"ok", "err", "throw"}

\* step: the action is about to be called      finally: onFinally is
\* fallback: onFallback is, after an error     rescue: it is, in the catch block
\* judge: the action has come to an outcome    undo: the saga compensates
Phases == {"idle", "step", "fallback", "rescue", "finally", "judge", "undo"}

Endings == {"none", "succeeded", "failed", "thrown", "crashed"}

Init ==
  /\ plan \in [Step -> SagaStep]
  /\ pc = "idle"
  /\ from = 1 /\ cur = 1 /\ attempt = 0 /\ tries = 0 /\ outcome = "ok"
  /\ executed = {} /\ toUndo = {} /\ allCompensated = TRUE
  /\ standing = {}
  /\ isSuccess = FALSE /\ ended = "none" /\ runs = 0

\* What an operation that comes to o does to the effects in place.
Effect(o) ==
  CASE o = "ok"    -> standing' = standing \cup {cur}
    [] o = "err"   -> UNCHANGED standing
    [] o = "throw" -> standing' \in {standing, standing \cup {cur}}

Running == pc = "step" /\ cur <= Steps /\ attempt < plan[cur].retry

\* The action returns or throws.
Return(o) ==
  /\ pc' = "judge"
  /\ outcome' = o
  /\ tries' = 0

End(how) ==
  /\ pc' = "idle"
  /\ ended' = how

-----------------------------------------------------------------------------
(***************************************************************************)
(* Seeded bugs: the checks replace an operator below by one of these, and  *)
(* the property named in the comment must then fail.                       *)
(***************************************************************************)
\* TypeOK: the next step is looked for after the last one was found missing.
FinishLate ==
  /\ pc = "step" /\ cur = Steps + 1
  /\ cur' = cur + 1
  /\ isSuccess' = TRUE
  /\ End("succeeded")
  /\ UNCHANGED <<plan, from, attempt, tries, outcome, undoing, standing, runs>>

\* FailureIsUndone: a compensation that throws is logged, and forgotten.
CompensateThrowsForgotten(s) ==
  /\ pc = "undo"
  /\ s \in toUndo /\ \A t \in toUndo : t <= s
  /\ toUndo' = toUndo \ {s}
  /\ standing' \in {standing, standing \ {s}}
  /\ UNCHANGED <<plan, pc, progress, executed, allCompensated, result>>

\* SuccessIsComplete: the last error is not told from a success.
StepGivenUp ==
  /\ pc = "judge" /\ outcome = "err"
  /\ IF attempt + 1 >= plan[cur].retry
     THEN cur' = cur + 1 /\ attempt' = 0
     ELSE cur' = cur /\ attempt' = attempt + 1
  /\ pc' = "step"
  /\ UNCHANGED <<plan, from, tries, outcome, undoing, standing, result>>

\* UndoRetracesSteps: executedSteps are not reversed.
CompensateForwards(s) ==
  /\ pc = "undo"
  /\ s \in toUndo /\ \A t \in toUndo : s <= t
  /\ toUndo' = toUndo \ {s}
  /\ standing' = standing \ {s}
  /\ UNCHANGED <<plan, pc, progress, executed, allCompensated, result>>

\* EveryRunEnds: the attempts are not counted.
StepFailsUncounted ==
  /\ pc = "judge" /\ outcome = "err"
  /\ IF attempt >= plan[cur].retry
     THEN pc' = "undo" /\ toUndo' = executed
     ELSE pc' = "step" /\ UNCHANGED toUndo
  /\ UNCHANGED <<plan, progress, executed, allCompensated, standing, result>>

\* ResumeKeepsEarlier: executedSteps is a field of the builder.
RunOnExecuted(s) ==
  /\ pc = "idle" /\ runs < MaxRuns
  /\ runs' = runs + 1
  /\ pc' = "step" /\ from' = s /\ cur' = s
  /\ attempt' = 0 /\ tries' = 0 /\ outcome' = "ok"
  /\ toUndo' = {} /\ allCompensated' = TRUE
  /\ ended' = "none"
  /\ UNCHANGED <<plan, executed, standing, isSuccess>>

-----------------------------------------------------------------------------
(***************************************************************************)
(* The run.                                                                 *)
(***************************************************************************)
\* runAsync, without a label or with the label of step s.  A label that no step
\* has, s = Steps + 1 here, skips every step.
RunAsync(s) ==
  /\ pc = "idle" /\ runs < MaxRuns
  /\ runs' = runs + 1
  /\ pc' = "step" /\ from' = s /\ cur' = s
  /\ attempt' = 0 /\ tries' = 0 /\ outcome' = "ok"
  /\ executed' = {} /\ toUndo' = {} /\ allCompensated' = TRUE
  /\ ended' = "none"
  /\ UNCHANGED <<plan, standing, isSuccess>>

\* A step with retry 0 is passed over: its loop makes no attempt.
PassOver ==
  /\ pc = "step" /\ cur <= Steps
  /\ plan[cur].retry = 0
  /\ cur' = cur + 1
  /\ UNCHANGED <<plan, pc, from, attempt, tries, outcome, undoing, standing, result>>

Finish ==
  /\ pc = "step" /\ cur = Steps + 1
  /\ isSuccess' = TRUE
  /\ End("succeeded")
  /\ UNCHANGED <<plan, progress, undoing, standing, runs>>

(***************************************************************************)
(* The action of a step.                                                    *)
(***************************************************************************)
CallPlain(o) ==
  /\ Running /\ plan[cur].action = "plain"
  /\ Effect(o)
  /\ Return(o)
  /\ UNCHANGED <<plan, from, cur, attempt, undoing, result>>

\* tryCatchResultAsync makes an error of an exception.
CallTryCatch(o) ==
  /\ Running /\ plan[cur].action = "tryCatch"
  /\ Effect(o)
  /\ Return(IF o = "throw" THEN "err" ELSE o)
  /\ UNCHANGED <<plan, from, cur, attempt, undoing, result>>

\* RetryWrapper calls again after an error, and gives up at an exception.
CallRetry(o) ==
  /\ Running /\ plan[cur].action = "retry"
  /\ Effect(o)
  /\ IF o = "err" /\ tries + 1 < MaxRetry
     THEN tries' = tries + 1 /\ UNCHANGED <<pc, outcome>>
     ELSE Return(IF o = "throw" THEN "err" ELSE o)
  /\ UNCHANGED <<plan, from, cur, attempt, undoing, result>>

\* tryCatchSagaResultAsync with a fallback and a finally.
CallFallback(o) ==
  /\ Running /\ plan[cur].action = "fallback"
  /\ Effect(o)
  /\ pc' = CASE o = "ok" -> "finally" [] o = "err" -> "fallback" [] o = "throw" -> "rescue"
  /\ outcome' = o
  /\ UNCHANGED <<plan, from, cur, attempt, tries, undoing, result>>

\* onFallback takes the place of the operation.  If it throws it is called once
\* more: the call after an error is made inside the try block.
OnFallback(o) ==
  /\ pc = "fallback"
  /\ Effect(o)
  /\ pc' = IF o = "throw" THEN "rescue" ELSE "finally"
  /\ outcome' = o
  /\ UNCHANGED <<plan, from, cur, attempt, tries, undoing, result>>

OnRescue(o) ==
  /\ pc = "rescue"
  /\ Effect(o)
  /\ pc' = "finally"
  /\ outcome' = o
  /\ UNCHANGED <<plan, from, cur, attempt, tries, undoing, result>>

\* An exception in onFinally replaces the outcome, a success too.
OnFinally ==
  /\ pc = "finally"
  /\ \E o \in {outcome, "throw"} : Return(o)
  /\ UNCHANGED <<plan, from, cur, attempt, undoing, standing, result>>

(***************************************************************************)
(* What the saga makes of the outcome.                                      *)
(***************************************************************************)
StepSucceeds ==
  /\ pc = "judge" /\ outcome = "ok"
  /\ executed' = executed \cup {cur}
  /\ cur' = cur + 1
  /\ attempt' = 0
  /\ pc' = "step"
  /\ UNCHANGED <<plan, from, tries, outcome, toUndo, allCompensated, standing, result>>

\* onError has returned: another attempt, or the saga turns round.
StepFails ==
  /\ pc = "judge" /\ outcome = "err"
  /\ attempt' = attempt + 1
  /\ IF attempt + 1 >= plan[cur].retry
     THEN pc' = "undo" /\ toUndo' = executed
     ELSE pc' = "step" /\ UNCHANGED toUndo
  /\ UNCHANGED <<plan, from, cur, tries, outcome, executed, allCompensated, standing, result>>

\* The action has thrown, or onError throws: the catch block throws on, and
\* nothing is compensated.
Rethrow ==
  /\ pc = "judge" /\ outcome \in {"err", "throw"}
  /\ End("thrown")
  /\ UNCHANGED <<plan, progress, undoing, standing, isSuccess, runs>>

\* The last step not compensated yet is compensated, or its compensation throws.
Compensate(s) ==
  /\ pc = "undo"
  /\ s \in toUndo /\ \A t \in toUndo : t <= s
  /\ toUndo' = toUndo \ {s}
  /\ standing' = standing \ {s}
  /\ UNCHANGED <<plan, pc, progress, executed, allCompensated, result>>

CompensateThrows(s) ==
  /\ pc = "undo"
  /\ s \in toUndo /\ \A t \in toUndo : t <= s
  /\ toUndo' = toUndo \ {s}
  /\ standing' \in {standing, standing \ {s}}
  /\ allCompensated' = FALSE
  /\ UNCHANGED <<plan, pc, progress, executed, result>>

\* The SagaExecutionException, with allCompensated as its isCompensated.
Fail ==
  /\ pc = "undo" /\ toUndo = {}
  /\ End("failed")
  /\ UNCHANGED <<plan, progress, undoing, standing, isSuccess, runs>>

\* The process ends; a saga that is run again after that is a new object.
Crash ==
  /\ pc # "idle"
  /\ isSuccess' = FALSE
  /\ End("crashed")
  /\ UNCHANGED <<plan, progress, undoing, standing, runs>>

-----------------------------------------------------------------------------
Call(o) ==
  \/ CallPlain(o) \/ CallTryCatch(o) \/ CallRetry(o) \/ CallFallback(o)
  \/ OnFallback(o) \/ OnRescue(o)

\* What the event loop carries on with once runAsync is called.
Proceed ==
  \/ PassOver \/ Finish
  \/ \E o \in Outcomes : Call(o)
  \/ OnFinally \/ StepSucceeds \/ StepFails \/ Rethrow
  \/ \E s \in Step : Compensate(s) \/ CompensateThrows(s)
  \/ Fail

Next == (\E s \in 1 .. Steps + 1 : RunAsync(s)) \/ Proceed \/ Crash

Spec == Init /\ [][Next]_vars

FairSpec == Spec /\ WF_vars(Proceed)
-----------------------------------------------------------------------------
(***************************************************************************)
(* Properties.                                                              *)
(***************************************************************************)
\* Every variable has its type.
TypeOK ==
  /\ plan \in [Step -> SagaStep]
  /\ pc \in Phases
  /\ from \in 1 .. Steps + 1
  /\ cur \in 1 .. Steps + 1
  /\ attempt \in Nat
  /\ tries \in Nat
  /\ outcome \in Outcomes
  /\ executed \subseteq Step
  /\ toUndo \subseteq Step
  /\ allCompensated \in BOOLEAN
  /\ standing \subseteq Step
  /\ isSuccess \in BOOLEAN
  /\ ended \in Endings
  /\ runs \in 0 .. MaxRuns

\* A SagaExecutionException that says isCompensated tells the truth: of all the
\* steps that this run has executed, none is still in effect.
FailureIsUndone ==
  ended = "failed" /\ allCompensated => executed \cap standing = {}

\* A run that ends without an exception has done every step from its label on,
\* however often steps failed and fell back; steps with retry 0 excepted.
SuccessIsComplete ==
  ended = "succeeded" =>
    \A s \in Step : s >= from /\ plan[s].retry > 0 => s \in standing

\* While the saga turns round, and no compensation has thrown, the effects of
\* its executed steps are what they were at some moment of the way there: the
\* first so many of them.  The way back never leaves a hole.
UndoRetracesSteps ==
  pc = "undo" /\ allCompensated =>
    \E k \in 0 .. Steps : executed \cap standing = {s \in executed : s <= k}

\* A run that resumes at a label leaves alone what earlier runs did before that
\* label: it neither repeats nor compensates it.  So a step that an earlier run
\* left behind by an exception stays in effect when the later run fails, though
\* that run reports itself as compensated.
ResumeKeepsEarlier ==
  [][pc # "idle" => \A s \in 1 .. from - 1 : s \in standing <=> s \in standing']_vars

\* Every run ends: attempts, retries and fallbacks are bounded, and so are the
\* compensations.
EveryRunEnds == pc # "idle" ~> pc = "idle"
=============================================================================
