--------------------------- MODULE ApiServerProofs ---------------------------
(***************************************************************************)
(* ApiServer for any number of connections, signals and faults.             *)
(***************************************************************************)
EXTENDS ApiServer, TLAPS

\* The pool ends for a handler that waits for it.
SomeoneTears ==
  up /\ db = "ending" => \E s \in Signals : handler[s] = "tearing"

\* What is past its COMMIT is committed.
PastCommit ==
  \A r \in Requests : request[r] = "committed" => r \in committed

\* What has not sent its COMMIT is not committed.
BeforeCommit ==
  \A r \in Requests : request[r] \in {"accepted", "working", "committing"} => r \notin committed

\* A COMMIT that was cut off is never answered as a success.
CutFails ==
  \A r \in cut : request[r] \in {"failed", "dropped"}

\* Nothing is open in a process that is down.
DownIsSettled ==
  ~up => \A r \in Requests : request[r] \in Settled

\* The inductive invariant.
IInv ==
  /\ Typed
  /\ AnswersAreTrue
  /\ WorkIsConnected
  /\ CleanExit
  /\ SomeoneTears
  /\ PastCommit
  /\ BeforeCommit
  /\ CutFails
  /\ DownIsSettled

-----------------------------------------------------------------------------
LEMMA InitInv == Init => IInv
<1>. SUFFICES ASSUME Init PROVE IInv
  OBVIOUS
<1>1. signals \in 0 .. MaxSignals /\ faults \in 0 .. MaxFaults
  BY BoundsAssumption DEF Init
<1>2. Typed
  BY <1>1 DEF Init, Typed, Exits, DbStates, HandlerStates, Open, Settled
<1>. QED
  BY <1>2
     DEF Init, IInv, AnswersAreTrue, WorkIsConnected, CleanExit, SomeoneTears, PastCommit,
         BeforeCommit, CutFails, DownIsSettled, Settled

\* The process is up, or comes up.
LEMMA RestartInv == ASSUME IInv, Restart PROVE IInv'
<1>1. Typed'
  BY DEF Restart, RunServer, bounds, IInv, Typed, Exits, DbStates, HandlerStates, Settled
<1>. QED
  BY <1>1
     DEF Restart, RunServer, IInv, AnswersAreTrue, WorkIsConnected, CleanExit, SomeoneTears,
         PastCommit, BeforeCommit, CutFails, DownIsSettled

LEMMA InitializeInv == ASSUME IInv, InitializeDatabase \/ InitializeFails PROVE IInv'
<1>1. up /\ db = "initializing" /\ db' \in {"ready", "off"} /\ doomed' \in BOOLEAN
      /\ UNCHANGED <<up, exit, handler, request, committed, cut, signals>>
  BY DEF InitializeDatabase, InitializeFails, process, serving, bounds, IInv, Typed
<1>2. faults' \in 0 .. MaxFaults
  BY BoundsAssumption DEF InitializeDatabase, InitializeFails, Fault, bounds, IInv, Typed
<1>3. Typed'
  BY <1>1, <1>2 DEF IInv, Typed, DbStates
<1>. QED
  BY <1>1, <1>3
     DEF IInv, Typed, AnswersAreTrue, WorkIsConnected, CleanExit, SomeoneTears, PastCommit,
         BeforeCommit, CutFails, DownIsSettled

-----------------------------------------------------------------------------
(***************************************************************************)
(* The ends of the process.                                                 *)
(***************************************************************************)
LEMMA CutOffIs ==
  ASSUME Typed, NEW states, NEW to \in Settled, CutOff(states, to)
  PROVE  /\ request' \in [Requests -> Open \cup Settled]
         /\ committed' \subseteq Requests /\ committed \subseteq committed'
         /\ cut' \subseteq Requests
         /\ \A r \in Requests : r \in cut' <=> r \in cut \/ request[r] = "committing"
         /\ \A r \in Requests :
              /\ request'[r] = IF request[r] \in states THEN to ELSE request[r]
              /\ r \in committed' \ committed => request[r] = "committing"
BY DEF CutOff, Typed, Settled

\* An exit settles every request, and leaves what was answered as it was.
LEMMA ExitInv ==
  ASSUME IInv, NEW how \in Exits \ {"none"}, Exit(how),
         db' \in DbStates, handler' \in [Signals -> HandlerStates],
         signals' \in 0 .. MaxSignals, faults' \in 0 .. MaxFaults,
         db' = db \/ db' = "destroyed",
         CleanExit'
  PROVE  IInv'
<1>1. /\ up' = FALSE /\ doomed' = FALSE /\ exit' = how
      /\ request' \in [Requests -> Open \cup Settled]
      /\ committed' \subseteq Requests
      /\ cut' \subseteq Requests
      /\ \A r \in Requests : r \in cut' <=> r \in cut \/ request[r] = "committing"
      /\ \A r \in Requests :
           /\ request'[r] = IF request[r] \in Open THEN "dropped" ELSE request[r]
           /\ r \in committed' \ committed => request[r] = "committing"
           /\ r \in committed => r \in committed'
  BY CutOffIs DEF Exit, IInv, Settled
<1>2. Typed'
  <2>1. up' \in BOOLEAN /\ doomed' \in BOOLEAN /\ (up' => exit' = "none") /\ (doomed' => up')
    BY <1>1
  <2>. QED
    BY <1>1, <2>1 DEF Typed
<1>3. DownIsSettled' /\ WorkIsConnected' /\ PastCommit' /\ BeforeCommit' /\ CutFails'
  BY <1>1 DEF IInv, Typed, CutFails, DownIsSettled, WorkIsConnected, PastCommit, BeforeCommit, Open, Settled
<1>4. AnswersAreTrue'
  BY <1>1 DEF IInv, Typed, AnswersAreTrue, Open
<1>. QED
  BY <1>1, <1>2, <1>3, <1>4 DEF IInv, SomeoneTears

LEMMA ForceExitInv == ASSUME IInv, ForceExit PROVE IInv'
<1>1. CleanExit'
  BY DEF ForceExit, Exit, CleanExit
<1>. QED
  BY <1>1, ExitInv DEF ForceExit, IInv, Typed, Exits, bounds

LEMMA KillInv == ASSUME IInv, Kill PROVE IInv'
<1>1. CleanExit'
  BY DEF Kill, Exit, CleanExit
<1>2. faults' \in 0 .. MaxFaults
  BY BoundsAssumption DEF Kill, Fault, IInv, Typed
<1>. QED
  BY <1>1, <1>2, ExitInv DEF Kill, IInv, Typed, Exits

LEMMA SignalAgainInv == ASSUME IInv, NEW s \in Signals, SignalAgain(s) PROVE IInv'
<1>1. CleanExit'
  BY DEF SignalAgain, Exit, CleanExit
<1>2. signals' \in 0 .. MaxSignals
  BY BoundsAssumption DEF SignalAgain, IInv, Typed
<1>. QED
  BY <1>1, <1>2, ExitInv DEF SignalAgain, IInv, Typed, Exits

LEMMA DestroyedInv == ASSUME IInv, Destroyed PROVE IInv'
<1>1. CleanExit'
  BY DEF Destroyed, CleanExit
<1>. QED
  BY <1>1, ExitInv DEF Destroyed, IInv, Typed, Exits, DbStates, bounds

-----------------------------------------------------------------------------
(***************************************************************************)
(* Requests.                                                                *)
(***************************************************************************)
LEMMA RequestInv ==
  ASSUME IInv, NEW r \in Requests, Accept(r) \/ Serve(r) \/ CommitBreaks(r)
  PROVE  IInv'
<1>1. /\ up /\ UNCHANGED <<up, exit, db, handler, doomed, signals>>
  BY DEF Accept, Serve, Begin, Commit, Committed, CommitBreaks, Answer, Fail, process, bounds,
         IInv, DownIsSettled, Settled
<1>2. /\ request' \in [Requests -> Open \cup Settled]
      /\ committed' \subseteq Requests /\ cut' \subseteq Requests
  BY DEF Accept, Serve, Begin, Commit, Committed, CommitBreaks, Answer, Fail, To, IInv, Typed,
         Open, Settled
<1>3. faults' \in 0 .. MaxFaults
  BY BoundsAssumption
     DEF Accept, Serve, Begin, Commit, Committed, CommitBreaks, Answer, Fail, Fault, bounds,
         IInv, Typed
<1>4. Typed'
  BY <1>1, <1>2, <1>3 DEF IInv, Typed
<1>5. WorkIsConnected'
  BY <1>1 DEF Accept, Serve, Begin, Commit, Committed, CommitBreaks, Answer, Fail, To, IInv,
              Typed, WorkIsConnected
<1>6. AnswersAreTrue' /\ PastCommit' /\ BeforeCommit' /\ CutFails'
  BY <1>1 DEF Accept, Serve, Begin, Commit, Committed, CommitBreaks, Answer, Fail, To, IInv,
              Typed, AnswersAreTrue, PastCommit, BeforeCommit, CutFails, Settled
<1>. QED
  BY <1>1, <1>4, <1>5, <1>6 DEF IInv, CleanExit, Signalled, SomeoneTears, DownIsSettled

-----------------------------------------------------------------------------
(***************************************************************************)
(* Shutdown.                                                                *)
(***************************************************************************)
LEMMA SignalInv == ASSUME IInv, NEW s \in Signals, Signal(s) PROVE IInv'
<1>1. /\ up /\ doomed' /\ handler[s] = "armed" /\ handler' = [handler EXCEPT ![s] = "closing"]
      /\ UNCHANGED <<up, exit, db, request, committed, cut, faults>>
  BY DEF Signal, process, serving
<1>2. signals' \in 0 .. MaxSignals
  BY BoundsAssumption DEF Signal, IInv, Typed
<1>3. Typed'
  BY <1>1, <1>2 DEF IInv, Typed, HandlerStates
<1>4. SomeoneTears' /\ CleanExit'
  BY <1>1 DEF IInv, Typed, SomeoneTears, CleanExit
<1>. QED
  BY <1>1, <1>3, <1>4
     DEF IInv, AnswersAreTrue, WorkIsConnected, PastCommit, BeforeCommit, CutFails, DownIsSettled

\* With a pool the teardown begins, and cuts off the open transactions.
LEMMA TeardownInv ==
  ASSUME IInv, NEW s \in Signals, Closed(s), DestroyDatabase, UNCHANGED <<process, doomed>>
  PROVE  IInv'
<1>1. /\ up /\ up' /\ db' = "ending" /\ exit' = exit /\ handler'[s] = "tearing"
      /\ handler' \in [Signals -> HandlerStates]
      /\ UNCHANGED <<doomed, signals, faults>>
  BY DEF Closed, DestroyDatabase, process, bounds, IInv, Typed, HandlerStates
<1>2. /\ request' \in [Requests -> Open \cup Settled]
      /\ committed' \subseteq Requests
      /\ cut' \subseteq Requests
      /\ \A r \in Requests : r \in cut' <=> r \in cut \/ request[r] = "committing"
      /\ \A r \in Requests :
           /\ request'[r] =
                IF request[r] \in {"working", "committing"} THEN "failed" ELSE request[r]
           /\ r \in committed' \ committed => request[r] = "committing"
           /\ r \in committed => r \in committed'
  BY CutOffIs DEF DestroyDatabase, IInv, Settled
<1>3. Typed'
  BY <1>1, <1>2 DEF IInv, Typed, DbStates
<1>4. AnswersAreTrue' /\ WorkIsConnected' /\ PastCommit' /\ BeforeCommit' /\ CutFails'
  BY <1>1, <1>2
     DEF IInv, Typed, AnswersAreTrue, WorkIsConnected, PastCommit, BeforeCommit, CutFails
<1>5. SomeoneTears' /\ CleanExit' /\ DownIsSettled'
  BY <1>1 DEF IInv, Typed, SomeoneTears, CleanExit, DownIsSettled
<1>. QED
  BY <1>3, <1>4, <1>5 DEF IInv

\* Without one the process exits; if the pool is ending, another handler waits
\* for it, so there were two signals.
LEMMA TeardownFailsInv ==
  ASSUME IInv, NEW s \in Signals, Closed(s), db # "ready", Exit("clean"), UNCHANGED db
  PROVE  IInv'
<1>1. /\ up /\ exit' = "clean" /\ handler[s] = "closing"
      /\ handler' = [handler EXCEPT ![s] = "tearing"]
      /\ handler' \in [Signals -> HandlerStates]
      /\ UNCHANGED <<signals, faults>>
  BY DEF Closed, Exit, bounds, IInv, Typed, HandlerStates
<1>2. ASSUME db = "ending" PROVE \E t \in Signalled' : t # s
  BY <1>1, <1>2 DEF IInv, Typed, SomeoneTears, Signalled
<1>3. s \in Signalled'
  BY <1>1 DEF Signalled, IInv, Typed
<1>4. CleanExit'
  BY <1>2, <1>3 DEF CleanExit
<1>. QED
  BY <1>1, <1>4, ExitInv DEF IInv, Typed, Exits

LEMMA ClosedInv == ASSUME IInv, NEW s \in Signals, Closed(s) PROVE IInv'
BY TeardownInv, TeardownFailsInv DEF Closed

-----------------------------------------------------------------------------
LEMMA StepInv == IInv /\ [Next]_vars => IInv'
<1>. SUFFICES ASSUME IInv, [Next]_vars PROVE IInv'
  OBVIOUS
<1>1. CASE Process
  BY <1>1, RestartInv, InitializeInv, ForceExitInv, KillInv DEF Process
<1>2. CASE \E r \in Requests : Accept(r) \/ Serve(r) \/ CommitBreaks(r)
  BY <1>2, RequestInv
<1>3. CASE Shutdown
  BY <1>3, SignalInv, SignalAgainInv, ClosedInv, DestroyedInv DEF Shutdown
<1>4. CASE UNCHANGED vars
  BY <1>4
     DEF vars, process, serving, bounds, IInv, Typed, AnswersAreTrue, WorkIsConnected, CleanExit,
         Signalled, SomeoneTears, PastCommit, BeforeCommit, CutFails, DownIsSettled
<1>. QED
  BY <1>1, <1>2, <1>3, <1>4 DEF Next

LEMMA Invariance == Spec => []IInv
BY InitInv, StepInv, PTL DEF Spec

-----------------------------------------------------------------------------
\* Every variable has its type, in every reachable state, and no request whose
\* COMMIT was cut off is answered as a success.
THEOREM TypeCorrect == Spec => []TypeOK
<1>1. IInv => TypeOK
  BY DEF IInv, CutFails, TypeOK
<1>. QED
  BY <1>1, Invariance, PTL

\* A success answered is committed, and a failure answered changed nothing
\* unless its COMMIT was sent and cut off, by a broken connection or the teardown.
THEOREM AnswersTrue == Spec => []AnswersAreTrue
<1>1. IInv => AnswersAreTrue
  BY DEF IInv
<1>. QED
  BY <1>1, Invariance, PTL

\* No transaction is open without a pool: neither before the data source is
\* initialized nor once its teardown has begun.
THEOREM WorkConnected == Spec => []WorkIsConnected
<1>1. IInv => WorkIsConnected
  BY DEF IInv
<1>. QED
  BY <1>1, Invariance, PTL

\* After one signal the exit code 0 tells that the pool is closed.
THEOREM CleanExits == Spec => []CleanExit
<1>1. IInv => CleanExit
  BY DEF IInv
<1>. QED
  BY <1>1, Invariance, PTL

-----------------------------------------------------------------------------
(***************************************************************************)
(* The safety part of ServesAgain: a process that will not serve any more   *)
(* has a timer that ends it, and one that serves ends for a reason.         *)
(***************************************************************************)
\* A process without a timer is initializing or serves, and has met no signal.
NoneStranded == up /\ ~doomed => db \in {"initializing", "ready"} /\ Signalled = {}

\* Only a fault or a signal turns a process towards its end, and nothing turns
\* it back: once the timer runs, the process does not go on without it.
EndsAreCaused ==
  /\ up /\ ~doomed /\ UNCHANGED bounds => up' /\ ~doomed'
  /\ doomed /\ up' => doomed'

LEMMA StrandedStep == ASSUME IInv, NoneStranded, [Next]_vars PROVE NoneStranded' /\ EndsAreCaused
<1>1. CASE Restart
  BY <1>1 DEF Restart, RunServer, NoneStranded, EndsAreCaused, Signalled, IInv, Typed
<1>2. CASE InitializeDatabase
  BY <1>2 DEF InitializeDatabase, process, bounds, NoneStranded, EndsAreCaused, Signalled
<1>3. CASE InitializeFails
  BY <1>3 DEF InitializeFails, Fault, process, bounds, NoneStranded, EndsAreCaused, IInv, Typed
<1>4. CASE ForceExit
  BY <1>4 DEF ForceExit, Exit, NoneStranded, EndsAreCaused
<1>5. CASE Kill
  BY <1>5 DEF Kill, Exit, Fault, bounds, NoneStranded, EndsAreCaused, IInv, Typed
<1>6. ASSUME NEW r \in Requests, Accept(r) \/ Serve(r) \/ CommitBreaks(r)
      PROVE  NoneStranded' /\ EndsAreCaused
  BY <1>6
     DEF Accept, Serve, Begin, Commit, Committed, CommitBreaks, Answer, Fail, process, bounds,
         NoneStranded, EndsAreCaused, Signalled
<1>7. ASSUME NEW s \in Signals, Signal(s) PROVE NoneStranded' /\ EndsAreCaused
  BY <1>7 DEF Signal, process, bounds, NoneStranded, EndsAreCaused, IInv, Typed
<1>8. ASSUME NEW s \in Signals, SignalAgain(s) PROVE NoneStranded' /\ EndsAreCaused
  BY <1>8 DEF SignalAgain, Exit, bounds, NoneStranded, EndsAreCaused, IInv, Typed
<1>9. ASSUME NEW s \in Signals, Closed(s) PROVE NoneStranded' /\ EndsAreCaused
  <2>1. up /\ doomed
    BY <1>9 DEF Closed, NoneStranded, Signalled
  <2>. QED
    BY <1>9, <2>1 DEF Closed, Exit, process, NoneStranded, EndsAreCaused
<1>10. CASE Destroyed
  <2>1. up /\ doomed
    BY <1>10 DEF Destroyed, NoneStranded
  <2>. QED
    BY <1>10, <2>1 DEF Destroyed, Exit, NoneStranded, EndsAreCaused
<1>11. CASE UNCHANGED vars
  BY <1>11 DEF vars, process, bounds, NoneStranded, EndsAreCaused, Signalled
<1>. QED
  BY <1>1, <1>2, <1>3, <1>4, <1>5, <1>6, <1>7, <1>8, <1>9, <1>10, <1>11
     DEF Next, Process, Shutdown

LEMMA StrandedInit == Init => NoneStranded
BY DEF Init, NoneStranded

LEMMA StrandedInvariance == Spec => []NoneStranded
BY StrandedInit, StrandedStep, Invariance, PTL DEF Spec

\* However an initialization fails and whatever a teardown waits for, a process
\* that is up and does not serve is still initializing or has a timer that ends
\* it, after which it is started again.
THEOREM NeverStranded == Spec => []NoneStranded
BY StrandedInvariance

\* A process that serves goes on until a fault or a signal; and a shutdown that
\* has begun is never called off.
THEOREM EndsCaused == Spec => [][EndsAreCaused]_vars
<1>1. IInv /\ NoneStranded /\ [Next]_vars => [EndsAreCaused]_vars
  BY StrandedStep
<1>. QED
  BY <1>1, Invariance, StrandedInvariance, PTL DEF Spec
=============================================================================
