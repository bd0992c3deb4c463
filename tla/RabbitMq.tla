------------------------------ MODULE RabbitMq ------------------------------
(***************************************************************************)
(* The three RabbitMQ patterns: request and reply, send and receive,        *)
(* publish and subscribe.  One process sends; the worker process has a      *)
(* consumer for each pattern, with a connection of its own, and the broker  *)
(* is between them.                                                         *)
(*                                                                          *)
(* Work queues and reply queue are durable, and declared before the first   *)
(* message; a message that its consumer has not acknowledged goes back to   *)
(* its queue when the consumer's connection ends.  The subscriber's queue   *)
(* is exclusive and ends with its connection.  The connection manager makes *)
(* a lost connection again, with a new channel; handlers that were at work  *)
(* go on.  A channel counts its deliveries, and an acknowledgement names no *)
(* more than that number, the delivery tag: handlers of jobs and events     *)
(* send theirs through the wrapper, to the channel of the day, those of     *)
(* requests to the channel their request came from.                         *)
(*                                                                          *)
(* Every sendAsync of a request adds a consumer of its own to the reply     *)
(* queue and never cancels it; the broker gives a reply to any of them.     *)
(* What the connection manager of a sender has not yet handed to the broker *)
(* counts as sent.                                                          *)
(***************************************************************************)
EXTENDS Integers, FiniteSets

CONSTANTS
  Calls,     \* requests, with their correlation ids
  Jobs,      \* messages sent to a work queue
  Events,    \* messages published to the exchange
  NoAnswer,  \* the answer of a call that has none
  Workloads, \* bound on messages sent: those of one of these sets
  MaxFaults  \* bound on crashes and lost connections

Messages == Calls \cup Jobs \cup Events

ASSUME KindsAssumption ==
  /\ Calls \cap Jobs = {} /\ Calls \cap Events = {} /\ Jobs \cap Events = {}
  /\ NoAnswer \notin Calls
ASSUME FaultsAssumption == MaxFaults \in Nat

Consumers == {"replier", "receiver", "subscriber"}

ConsumerOf(m) ==
  CASE m \in Calls -> "replier" [] m \in Jobs -> "receiver" [] OTHER -> "subscriber"

VARIABLES
  call,       \* call[c]: the promise of sendAsync
  answer,     \* answer[c]: the request whose reply resolved it
  listening,  \* calls whose consumers are on the reply queue
  replies,    \* replies[c]: replies to c in the queue, and held unacknowledged
  msg,        \* msg[m]: where a message is, to the broker
  worked,     \* worked[m]: how often its handlers have done their work
  handlers,   \* the handlers at work in the worker process
  worker,     \* is the worker process up?
  link,       \* link[k]: has consumer k a connection, with its channel?
  tags,       \* tags[k]: deliveries on that channel
  faults

caller == <<call, answer, listening, replies>>
links == <<worker, link>>
vars == <<caller, msg, worked, handlers, links, tags, faults>>

-----------------------------------------------------------------------------
\* unacked: delivered on the channel its consumer has
\* lost: gone with the queue of the subscriber, or never in it
Places == {"unsent", "ready", "unacked", "acked", "lost"}

\* taken: the handler is called, worked: it has done its work, replied: and has
\* sent its reply.  tag is that of the delivery, and outlived how many connections
\* of the consumer have ended since.
Handlers ==
  [of : Messages, pc : {"taken", "worked", "replied"}, tag : Nat, outlived : Nat]

Init ==
  /\ call = [c \in Calls |-> "idle"]
  /\ answer = [c \in Calls |-> NoAnswer]
  /\ listening = {}
  /\ replies = [c \in Calls |-> [ready |-> 0, held |-> 0]]
  /\ msg = [m \in Messages |-> "unsent"]
  /\ worked = [m \in Messages |-> 0]
  /\ handlers = {}
  /\ worker = FALSE
  /\ link = [k \in Consumers |-> FALSE]
  /\ tags = [k \in Consumers |-> 0]
  /\ faults = 0

Fault == faults < MaxFaults /\ faults' = faults + 1

MayBeSent(m) ==
  /\ msg[m] = "unsent"
  /\ \E w \in Workloads : {m} \cup {n \in Messages : msg[n] # "unsent"} \subseteq w

Move(m, to) == msg' = [msg EXCEPT ![m] = to]

\* The connection of the reply consumers ends: what they hold goes back.
Requeued == [c \in Calls |-> [ready |-> replies[c].ready + replies[c].held, held |-> 0]]

\* Is the channel of the delivery still there?
Current(h) == h.outlived = 0

\* The unacknowledged deliveries with the tag of h, on the channel of the day: that
\* of h itself, if its channel is still there, or one of another message.
Tagged(h) ==
  {d \in handlers :
     /\ ConsumerOf(d.of) = ConsumerOf(h.of) /\ d.tag = h.tag
     /\ Current(d) /\ msg[d.of] = "unacked"}

\* Where the broker has a message when the connections of the consumers in gone end.
Returned(gone) ==
  [m \in Messages |->
     CASE ConsumerOf(m) \in gone /\ m \in Events /\ msg[m] \in {"ready", "unacked"} -> "lost"
       [] ConsumerOf(m) \in gone /\ m \notin Events /\ msg[m] = "unacked" -> "ready"
       [] OTHER -> msg[m]]

\* The connection of consumer k ends; its handlers, among hands, go on.
Disconnect(k, hands) ==
  /\ msg' = Returned({k})
  /\ link' = [link EXCEPT ![k] = FALSE]
  /\ tags' = [tags EXCEPT ![k] = 0]
  /\ handlers' = {[h EXCEPT !.outlived = IF ConsumerOf(h.of) = k THEN @ + 1 ELSE @] : h \in hands}
  /\ UNCHANGED worker

\* The worker process ends, with its handlers and connections.
EndProcess ==
  /\ msg' = Returned(Consumers)
  /\ link' = [k \in Consumers |-> FALSE]
  /\ tags' = [k \in Consumers |-> 0]
  /\ handlers' = {}
  /\ worker' = FALSE

GoOn(h, pc) == handlers' = (handlers \ {h}) \cup {[h EXCEPT !.pc = pc]}

-----------------------------------------------------------------------------
(***************************************************************************)
(* Seeded bugs: the checks replace an operator below by one of these, and  *)
(* the property named in the comment must then fail.                       *)
(***************************************************************************)
\* TypeOK: a failing onMessage is caught and logged, and nothing acknowledged.
OnMessageSwallows(h) ==
  /\ h.pc = "taken"
  /\ handlers' = handlers \ {h}
  /\ UNCHANGED <<caller, msg, worked, links, tags, faults>>

\* CallsAreRemote: the correlation id is not compared.
HoldReplyResolves(k, c) ==
  /\ k \in listening \ {c}
  /\ replies[c].ready > 0
  /\ replies' = [replies EXCEPT ![c].ready = @ - 1]
  /\ call' = [call EXCEPT ![k] = "resolved"]
  /\ answer' = [answer EXCEPT ![k] = c]
  /\ UNCHANGED <<listening, msg, worked, handlers, links, tags, faults>>

\* NoCallLost: a reply with another correlation id is acknowledged.
HoldReplyAcks(k, c) ==
  /\ k \in listening \ {c}
  /\ replies[c].ready > 0
  /\ replies' = [replies EXCEPT ![c].ready = @ - 1]
  /\ UNCHANGED <<call, answer, listening, msg, worked, handlers, links, tags, faults>>

\* WorkedAsSent: onMessage is not awaited.
AckFirst(h) ==
  /\ h.pc \in {"taken", "worked"} /\ h.of \notin Calls
  /\ IF Current(h) /\ msg[h.of] = "unacked"
       THEN Move(h.of, "acked") /\ UNCHANGED handlers
       ELSE h.pc = "worked" /\ handlers' = handlers \ {h} /\ UNCHANGED msg
  /\ UNCHANGED <<caller, worked, links, tags, faults>>

\* AnsweredOrHeld: onMessage does not call reply.
ReplyForgotten(h) ==
  /\ h.pc = "worked" /\ h.of \in Calls
  /\ GoOn(h, "replied")
  /\ UNCHANGED <<caller, msg, worked, links, tags, faults>>

\* QueuesRunEmpty: the handlers of jobs and events do not acknowledge.
AckForgotten(h) ==
  /\ h.pc = "worked" /\ h.of \notin Calls
  /\ handlers' = handlers \ {h}
  /\ UNCHANGED <<caller, msg, worked, links, tags, faults>>

-----------------------------------------------------------------------------
(***************************************************************************)
(* Request and reply: the caller.                                           *)
(***************************************************************************)
\* sendAsync adds its consumer and sends the request, and waits for neither.
SendAsync(c) ==
  /\ call[c] = "idle" /\ MayBeSent(c)
  /\ call' = [call EXCEPT ![c] = "waiting"]
  /\ listening' = listening \cup {c}
  /\ Move(c, "ready")
  /\ UNCHANGED <<answer, replies, worked, handlers, links, tags, faults>>

\* The consumer of c gets a reply to c: the promise is resolved, unless it
\* already is, and the reply acknowledged.  No reply here is empty.
Resolve(c) ==
  /\ c \in listening
  /\ replies[c].ready > 0
  /\ replies' = [replies EXCEPT ![c].ready = @ - 1]
  /\ call' = [call EXCEPT ![c] = "resolved"]
  /\ answer' = [answer EXCEPT ![c] = c]
  /\ UNCHANGED <<listening, msg, worked, handlers, links, tags, faults>>

\* The consumer of k gets a reply to c: it passes over it and does not
\* acknowledge it, so no other consumer will see it on this connection.
HoldReply(k, c) ==
  /\ k \in listening \ {c}
  /\ replies[c].ready > 0
  /\ replies' = [replies EXCEPT ![c] = [ready |-> @.ready - 1, held |-> @.held + 1]]
  /\ UNCHANGED <<call, answer, listening, msg, worked, handlers, links, tags, faults>>

(***************************************************************************)
(* Send and receive, publish and subscribe: the sender.                     *)
(***************************************************************************)
SendJob(j) ==
  /\ MayBeSent(j)
  /\ Move(j, "ready")
  /\ UNCHANGED <<caller, worked, handlers, links, tags, faults>>

\* Without a subscriber the exchange has no queue to route the event to.
PublishAsync(e) ==
  /\ MayBeSent(e)
  /\ Move(e, IF link["subscriber"] THEN "ready" ELSE "lost")
  /\ UNCHANGED <<caller, worked, handlers, links, tags, faults>>

(***************************************************************************)
(* The worker.                                                              *)
(***************************************************************************)
\* runWorkers starts the consumers of all patterns.
RunWorkers ==
  /\ ~worker
  /\ worker' = TRUE
  /\ link' = [k \in Consumers |-> TRUE]
  /\ UNCHANGED <<caller, msg, worked, handlers, tags, faults>>

\* The connection manager connects again, and sets up a channel and its consumer.
Reconnect(k) ==
  /\ worker /\ ~link[k]
  /\ link' = [link EXCEPT ![k] = TRUE]
  /\ UNCHANGED <<caller, msg, worked, handlers, worker, tags, faults>>

\* The broker delivers a message.  The subscriber's channel has prefetch 1, the
\* others have no limit: their messages are handled side by side.
Consume(m) ==
  LET k == ConsumerOf(m) IN
  /\ link[k]
  /\ msg[m] = "ready"
  /\ m \in Events => \A e \in Events : msg[e] # "unacked"
  /\ Move(m, "unacked")
  /\ tags' = [tags EXCEPT ![k] = @ + 1]
  /\ handlers' = handlers \cup
       {[of |-> m, pc |-> "taken", tag |-> tags[k] + 1, outlived |-> 0]}
  /\ UNCHANGED <<caller, worked, links, faults>>

\* onMessage, or the callback of the subscriber.
OnMessage(h) ==
  /\ h.pc = "taken"
  /\ GoOn(h, "worked")
  /\ worked' = [worked EXCEPT ![h.of] = @ + 1]
  /\ UNCHANGED <<caller, msg, links, tags, faults>>

\* The reply callback, with the correlation id of the request.
Reply(h) ==
  /\ h.pc = "worked" /\ h.of \in Calls
  /\ Current(h)
  /\ GoOn(h, "replied")
  /\ replies' = [replies EXCEPT ![h.of].ready = @ + 1]
  /\ UNCHANGED <<call, answer, listening, msg, worked, links, tags, faults>>

\* A request is acknowledged on the channel it came from, after the reply.
AckRequest(h) ==
  /\ h.pc = "replied"
  /\ Current(h)
  /\ handlers' = handlers \ {h}
  /\ Move(h.of, "acked")
  /\ UNCHANGED <<caller, worked, links, tags, faults>>

\* On a channel that is closed both throw, which nothing catches: Node ends.
HandlerThrows(h) ==
  /\ h.pc \in {"worked", "replied"} /\ h.of \in Calls
  /\ ~Current(h)
  /\ EndProcess
  /\ UNCHANGED <<caller, worked, faults>>

\* A job or an event is acknowledged by its tag on the channel of the day.  There
\* may be none, and nothing is sent; over a tag that is not outstanding the broker
\* closes the channel, and the connection ends with it: nothing here listens to
\* the channel's error.
Ack(h) ==
  LET k == ConsumerOf(h.of) IN
  /\ h.pc = "worked" /\ h.of \notin Calls
  /\ \/ /\ ~link[k]
        /\ handlers' = handlers \ {h}
        /\ UNCHANGED <<msg, links, tags>>
     \/ /\ \E d \in Tagged(h) : Move(d.of, "acked")
        /\ handlers' = handlers \ {h}
        /\ UNCHANGED <<links, tags>>
     \/ /\ link[k] /\ Tagged(h) = {}
        /\ Disconnect(k, handlers \ {h})
  /\ UNCHANGED <<caller, worked, faults>>

(***************************************************************************)
(* Faults.                                                                  *)
(***************************************************************************)
\* The connection of a consumer is lost.
LoseLink(k) ==
  /\ link[k]
  /\ Fault
  /\ Disconnect(k, handlers)
  /\ UNCHANGED <<caller, worked>>

\* The worker process ends, or a handler throws, which nothing catches.
WorkerEnds ==
  /\ worker
  /\ Fault
  /\ EndProcess
  /\ UNCHANGED <<caller, worked>>

\* The connection of the reply consumers is lost, and made again.
SenderReconnects ==
  /\ listening # {}
  /\ Fault
  /\ replies' = Requeued
  /\ UNCHANGED <<call, answer, listening, msg, worked, handlers, links, tags>>

\* The sending process ends, with its promises and its consumers.
SenderEnds ==
  /\ listening # {}
  /\ Fault
  /\ call' = [c \in Calls |-> IF call[c] = "waiting" THEN "gone" ELSE call[c]]
  /\ listening' = {}
  /\ replies' = Requeued
  /\ UNCHANGED <<answer, msg, worked, handlers, links, tags>>

-----------------------------------------------------------------------------
\* What the broker gives to some consumer of the reply queue.
DeliverReply(c) == Resolve(c) \/ \E k \in Calls : HoldReply(k, c)

Proceed(h) == OnMessage(h) \/ Reply(h) \/ AckRequest(h) \/ HandlerThrows(h) \/ Ack(h)

Handle(m) == Consume(m) \/ \E h \in handlers : h.of = m /\ Proceed(h)

Next ==
  \/ \E c \in Calls : SendAsync(c) \/ DeliverReply(c)
  \/ \E j \in Jobs : SendJob(j)
  \/ \E e \in Events : PublishAsync(e)
  \/ \E m \in Messages : Handle(m)
  \/ \E k \in Consumers : Reconnect(k) \/ LoseLink(k)
  \/ RunWorkers \/ WorkerEnds \/ SenderReconnects \/ SenderEnds

Spec == Init /\ [][Next]_vars

\* pm2 restarts the worker, the connection manager its connections; the broker
\* delivers what it has, and handlers end.
Fairness ==
  /\ WF_vars(RunWorkers)
  /\ \A k \in Consumers : WF_vars(Reconnect(k))
  /\ \A c \in Calls : WF_vars(DeliverReply(c))
  /\ \A m \in Messages : WF_vars(Handle(m))

FairSpec == Spec /\ Fairness
-----------------------------------------------------------------------------
(***************************************************************************)
(* Properties.                                                              *)
(***************************************************************************)
Typed ==
  /\ call \in [Calls -> {"idle", "waiting", "resolved", "gone"}]
  /\ answer \in [Calls -> Calls \cup {NoAnswer}]
  /\ listening \subseteq Calls
  /\ replies \in [Calls -> [ready : Nat, held : Nat]]
  /\ msg \in [Messages -> Places]
  /\ worked \in [Messages -> Nat]
  /\ handlers \subseteq Handlers
  /\ worker \in BOOLEAN
  /\ link \in [Consumers -> BOOLEAN]
  /\ tags \in [Consumers -> Nat]
  /\ faults \in 0 .. MaxFaults

\* Every variable has its type, and what the broker waits to be acknowledged is in
\* the hands of a handler: nothing is left unacknowledged for good.
TypeOK ==
  /\ Typed
  /\ \A m \in Messages : msg[m] = "unacked" => \E h \in handlers : h.of = m /\ Current(h)

\* A caller gets the reply to its own request, and only after the work was
\* done, however replies wander between the consumers of other calls.
AnswerIsOwn ==
  \A c \in Calls : call[c] = "resolved" => answer[c] = c /\ worked[c] > 0

\* RemoteCall, with the work that was done for requests.
Remote == INSTANCE RemoteCall WITH performed <- [c \in Calls |-> worked[c]]

\* A caller is answered once, by the reply to its own request and after its work
\* was done; a reply that comes after its process has ended answers nobody, and
\* no request is worked on that was not made.
CallsAreRemote == Remote!Spec

\* While a caller waits, its request or a reply to it is somewhere: requests
\* outlive the worker and its connection, and replies the connection of the
\* caller.  And only the consumer of another call holds a reply up: a caller that
\* has the reply queue to itself never loses sight of its own.
NoCallLost ==
  \A c \in Calls :
    /\ call[c] = "waiting" =>
         msg[c] \in {"ready", "unacked"} \/ replies[c].ready + replies[c].held > 0
    /\ replies[c].held > 0 => listening \ {c} # {}

\* Its work is yet to be done, by a handler that has it in hand.
Underway(m) == \E h \in handlers : h.of = m /\ h.pc = "taken"

\* A request that has left its queue was worked on.  A job was, or a handler still
\* has it in hand: after a reconnection the acknowledgement of an older delivery
\* may take a job off the queue before its work is done, so that it is lost if the
\* process then ends, which takes two failures.  Without a failure nothing is
\* worked on twice.
WorkedAsSent ==
  /\ \A c \in Calls : msg[c] = "acked" => worked[c] > 0
  /\ \A j \in Jobs : msg[j] = "acked" => worked[j] > 0 \/ Underway(j) \/ faults > 1
  /\ \A m \in Messages : worked[m] > 1 => faults > 0

\* Calls are answered, unless their process ends or their replies are held by
\* the consumers of other calls: again and again nobody waits for another
\* reason.  There is no timeout: a call whose reply is held waits on.
AnsweredOrHeld ==
  []<>(\A c \in Calls : call[c] = "waiting" => replies[c].held > 0)

\* The queues run empty, all of them at once, and so do the hands of the worker:
\* what it had in hand when it ended or lost a connection is taken up again,
\* acknowledgements on the wrong channel come to an end, and events, taken one at
\* a time, do not hold each other up for good.
QueuesRunEmpty ==
  []<>(handlers = {} /\ \A m \in Messages : msg[m] \in {"unsent", "acked", "lost"})
=============================================================================
