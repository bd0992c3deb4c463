------------------------------ MODULE ApiServer ------------------------------
(***************************************************************************)
(* One process of the HTTP application: it opens its port, initializes the  *)
(* data source, serves requests in transactions, and on a signal runs the   *)
(* shutdown handler.  The process manager starts it again when it has ended.*)
(*                                                                          *)
(* The shutdown handler listens on the port once more and closes the server *)
(* this made.  That server never listens, since the port is in use, so its  *)
(* close ends at once, and the server of the requests stays open.  The      *)
(* error of the second listen is uncaught: the logger ends the process with *)
(* code 1, in at most three seconds, and the handler's timer does in five.  *)
(***************************************************************************)
EXTENDS Integers

CONSTANTS
  Requests,    \* connections, each with one request at a time
  Signals,     \* the signals with a shutdown handler
  MaxSignals,  \* bound on the signals sent
  MaxFaults    \* bound on initializations and COMMITs that fail, and on kills

ASSUME BoundsAssumption == MaxSignals \in Nat /\ MaxFaults \in Nat

VARIABLES
  up,         \* is the process up?
  exit,       \* how it ended, while it is down
  db,         \* its data source
  handler,    \* handler[s]: the shutdown handler of signal s
  doomed,     \* will a timer end the process with code 1?
  request,    \* request[r]: the request on connection r
  committed,  \* requests whose transaction is committed
  cut,        \* requests whose COMMIT ended with its connection: a history
  signals,    \* signals sent
  faults

process == <<up, exit>>
serving == <<request, committed, cut>>
bounds == <<signals, faults>>
vars == <<process, db, handler, doomed, serving, bounds>>

-----------------------------------------------------------------------------
Exits == {"none", "clean", "error", "killed"}

DbStates == {"off", "initializing", "ready", "ending", "destroyed"}

HandlerStates == {"armed", "closing", "tearing"}

\* accepted: no query yet   working: in a transaction   committing: COMMIT sent
Open == {"accepted", "working", "committing", "committed"}

Settled == {"idle", "answered", "failed", "dropped"}

Init ==
  /\ up = FALSE
  /\ exit = "none"
  /\ db = "off"
  /\ handler = [s \in Signals |-> "armed"]
  /\ doomed = FALSE
  /\ request = [r \in Requests |-> "idle"]
  /\ committed = {}
  /\ cut = {}
  /\ signals = 0
  /\ faults = 0

Fault == faults < MaxFaults /\ faults' = faults + 1

Signalled == {s \in Signals : handler[s] # "armed"}

To(r, state) == request' = [request EXCEPT ![r] = state]

\* A COMMIT on its way takes effect or not; every other open transaction is
\* rolled back with its connection.
CutOff(states, to) ==
  LET sent == {r \in Requests : request[r] = "committing"} IN
  /\ \E done \in SUBSET sent : committed' = committed \cup done
  /\ cut' = cut \cup sent
  /\ request' = [r \in Requests |-> IF request[r] \in states THEN to ELSE request[r]]

-----------------------------------------------------------------------------
(***************************************************************************)
(* Seeded bugs: the checks replace an operator below by one of these, and  *)
(* the property named in the comment must then fail.                       *)
(***************************************************************************)
\* TypeOK: the error of a COMMIT is swallowed, and the success goes out.
CommitErrorSwallowed(r) ==
  /\ request[r] = "committing"
  /\ Fault
  /\ To(r, "answered")
  /\ \/ committed' = committed \cup {r}
     \/ UNCHANGED committed
  /\ cut' = cut \cup {r}
  /\ UNCHANGED <<process, db, handler, doomed, signals>>

\* AnswersAreTrue: an error after the COMMIT is answered like one before it.
FailAnywhere(r) ==
  /\ request[r] \in {"accepted", "working", "committed"}
  /\ To(r, "failed")
  /\ UNCHANGED <<process, db, handler, doomed, committed, cut, bounds>>

\* WorkIsConnected: a query is made without looking whether there is a pool.
BeginUnconnected(r) ==
  /\ request[r] = "accepted"
  /\ To(r, "working")
  /\ UNCHANGED <<process, db, handler, doomed, committed, cut, bounds>>

\* CleanExit: the teardown is started and not awaited.
ClosedUnawaited(s) ==
  /\ up /\ handler[s] = "closing"
  /\ handler' = [handler EXCEPT ![s] = "tearing"]
  /\ db' = IF db = "ready" THEN "ending" ELSE db
  /\ up' = FALSE
  /\ exit' = "clean"
  /\ doomed' = FALSE
  /\ CutOff(Open, "dropped")
  /\ UNCHANGED bounds

\* RequestsSettle: a controller that does not answer.
AnswerForgotten(r) ==
  /\ request[r] = "committed"
  /\ UNCHANGED vars

\* ServesAgain: the failed initialization is logged and otherwise ignored.
InitializeFailsLogged ==
  /\ up /\ db = "initializing"
  /\ Fault
  /\ db' = "off"
  /\ UNCHANGED <<process, handler, doomed, serving, signals>>

-----------------------------------------------------------------------------
(***************************************************************************)
(* The process.                                                             *)
(***************************************************************************)
Exit(how) ==
  /\ up' = FALSE
  /\ exit' = how
  /\ doomed' = FALSE
  /\ CutOff(Open, "dropped")

\* runServer: the port is opened, and the data source initialized in the
\* callback of listen, when requests may already come in.
RunServer ==
  /\ up' = TRUE
  /\ exit' = "none"
  /\ db' = "initializing"
  /\ handler' = [s \in Signals |-> "armed"]
  /\ doomed' = FALSE
  /\ request' = [r \in Requests |-> "idle"]
  /\ committed' = {}
  /\ cut' = {}
  /\ UNCHANGED bounds

\* The process manager starts the process, and restarts it however it ended.
Restart == ~up /\ RunServer

InitializeDatabase ==
  /\ up /\ db = "initializing"
  /\ db' = "ready"
  /\ UNCHANGED <<process, handler, doomed, serving, bounds>>

\* Nothing catches the error of the callback: the logger ends the process.
InitializeFails ==
  /\ up /\ db = "initializing"
  /\ Fault
  /\ db' = "off"
  /\ doomed' = TRUE
  /\ UNCHANGED <<process, handler, serving, signals>>

\* The timer of the logger or of the shutdown handler.
ForceExit ==
  /\ up /\ doomed
  /\ Exit("error")
  /\ UNCHANGED <<db, handler, bounds>>

\* The process is killed, by the process manager or for its memory.
Kill ==
  /\ up
  /\ Fault
  /\ Exit("killed")
  /\ UNCHANGED <<db, handler, signals>>

(***************************************************************************)
(* Requests.                                                                *)
(***************************************************************************)
\* The port is open as long as the process is up, shutdown or not.
Accept(r) ==
  /\ up
  /\ request[r] \in Settled
  /\ To(r, "accepted")
  /\ committed' = committed \ {r}
  /\ cut' = cut \ {r}
  /\ UNCHANGED <<process, db, handler, doomed, bounds>>

Begin(r) ==
  /\ request[r] = "accepted"
  /\ db = "ready"
  /\ To(r, "working")
  /\ UNCHANGED <<process, db, handler, doomed, committed, cut, bounds>>

Commit(r) ==
  /\ request[r] = "working"
  /\ To(r, "committing")
  /\ UNCHANGED <<process, db, handler, doomed, committed, cut, bounds>>

Committed(r) ==
  /\ request[r] = "committing"
  /\ To(r, "committed")
  /\ committed' = committed \cup {r}
  /\ UNCHANGED <<process, db, handler, doomed, cut, bounds>>

\* COMMIT is answered with an error, or its connection breaks before or after it
\* took effect: runDataResponseAsync makes an error response of it all the same.
CommitBreaks(r) ==
  /\ request[r] = "committing"
  /\ Fault
  /\ To(r, "failed")
  /\ \/ committed' = committed \cup {r}
     \/ UNCHANGED committed
  /\ cut' = cut \cup {r}
  /\ UNCHANGED <<process, db, handler, doomed, signals>>

Answer(r) ==
  /\ request[r] = "committed"
  /\ To(r, "answered")
  /\ UNCHANGED <<process, db, handler, doomed, committed, cut, bounds>>

\* An error before COMMIT, or no pool to take a connection from: the error
\* middleware answers.
Fail(r) ==
  /\ request[r] \in {"accepted", "working"}
  /\ To(r, "failed")
  /\ UNCHANGED <<process, db, handler, doomed, committed, cut, bounds>>

(***************************************************************************)
(* Shutdown.                                                                *)
(***************************************************************************)
\* The handler: a second server that never listens, its close, and a timer.
Signal(s) ==
  /\ up /\ signals < MaxSignals
  /\ handler[s] = "armed"
  /\ signals' = signals + 1
  /\ handler' = [handler EXCEPT ![s] = "closing"]
  /\ doomed' = TRUE
  /\ UNCHANGED <<process, db, serving, faults>>

\* process.once: the second signal of a kind meets no handler.
SignalAgain(s) ==
  /\ up /\ signals < MaxSignals
  /\ handler[s] # "armed"
  /\ signals' = signals + 1
  /\ Exit("killed")
  /\ UNCHANGED <<db, handler, faults>>

\* destroyDatabase releases the connections in use, whose transactions are cut
\* off, and ends the pool.
DestroyDatabase ==
  /\ db = "ready"
  /\ db' = "ending"
  /\ CutOff({"working", "committing"}, "failed")

\* The callback of close runs the teardown, which fails on a data source that
\* is not initialized or whose pool is ending: the process exits all the same.
Closed(s) ==
  /\ up /\ handler[s] = "closing"
  /\ handler' = [handler EXCEPT ![s] = "tearing"]
  /\ \/ DestroyDatabase /\ UNCHANGED <<process, doomed>>
     \/ db # "ready" /\ Exit("clean") /\ UNCHANGED db
  /\ UNCHANGED bounds

\* The pool has ended, and the handler that waits for it exits.
Destroyed ==
  /\ up /\ db = "ending"
  /\ db' = "destroyed"
  /\ Exit("clean")
  /\ UNCHANGED <<handler, bounds>>

-----------------------------------------------------------------------------
Process == Restart \/ InitializeDatabase \/ InitializeFails \/ ForceExit \/ Kill

Serve(r) == Begin(r) \/ Commit(r) \/ Committed(r) \/ Answer(r) \/ Fail(r)

Shutdown ==
  \/ \E s \in Signals : Signal(s) \/ SignalAgain(s) \/ Closed(s)
  \/ Destroyed

Next ==
  \/ Process
  \/ \E r \in Requests : Accept(r) \/ Serve(r) \/ CommitBreaks(r)
  \/ Shutdown

Spec == Init /\ [][Next]_vars

\* The process manager restarts, initialization ends, timers run out, callbacks
\* run and the database answers.  The end of a pool may take for ever.
Fairness ==
  /\ WF_vars(Restart)
  /\ WF_vars(InitializeDatabase \/ InitializeFails)
  /\ WF_vars(ForceExit)
  /\ \A r \in Requests : WF_vars(Serve(r))

FairSpec == Spec /\ Fairness
-----------------------------------------------------------------------------
(***************************************************************************)
(* Properties.                                                              *)
(***************************************************************************)
Typed ==
  /\ up \in BOOLEAN
  /\ exit \in Exits /\ (up => exit = "none")
  /\ db \in DbStates
  /\ handler \in [Signals -> HandlerStates]
  /\ doomed \in BOOLEAN /\ (doomed => up)
  /\ request \in [Requests -> Open \cup Settled]
  /\ committed \subseteq Requests
  /\ cut \subseteq Requests
  /\ signals \in 0 .. MaxSignals
  /\ faults \in 0 .. MaxFaults

\* Every variable has its type, and a request whose COMMIT was cut off has an
\* error for its result, or none because its process is gone.
TypeOK ==
  /\ Typed
  /\ \A r \in cut : request[r] \in {"failed", "dropped"}

\* A success that is answered is committed; and a failure that is answered
\* changed nothing, unless its COMMIT had been sent and met with an error: a
\* connection that broke under it, or the teardown that released it.
AnswersAreTrue ==
  \A r \in Requests :
    /\ request[r] = "answered" => r \in committed
    /\ request[r] = "failed" /\ r \in committed => r \in cut

\* Requests that come before the data source is there, or while it is torn
\* down, do not work: every open transaction has a connection of an open pool.
WorkIsConnected ==
  \A r \in Requests : request[r] \in {"working", "committing"} => up /\ db = "ready"

\* After one signal, code 0 tells that the pool was closed or never there.
\* With both signals the second teardown fails and ends the process while the
\* first is at work.
CleanExit ==
  exit = "clean" /\ (\A s, t \in Signalled : s = t) => db \notin {"ready", "ending"}

\* Every request is answered, or dropped with the process.
RequestsSettle ==
  \A r \in Requests : request[r] \in Open ~> request[r] \in Settled

\* Whatever fails when it starts, and even if a teardown hangs, the process
\* comes to serve requests again.
ServesAgain ==
  []<>(up /\ db = "ready")

\* "HTTP server closed." is logged before the teardown: then no request is
\* in progress.  VIOLATED: the server that is closed is not the one that serves.
DrainedBeforeTeardown ==
  \A s \in Signals :
    handler[s] = "tearing" /\ up => \A r \in Requests : request[r] \in Settled
=============================================================================
