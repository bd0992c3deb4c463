--------------------------- MODULE RabbitMqProofs ---------------------------
(***************************************************************************)
(* RabbitMq for any number of calls, jobs, events and faults.               *)
(*                                                                          *)
(* The inductive invariant has three layers: what handlers know and the     *)
(* broker with them (Hands), what callers may rely on (Callers), and what   *)
(* must have failed before an acknowledgement can hit another message than  *)
(* its own (Blamed).                                                        *)
(***************************************************************************)
EXTENDS RabbitMq, TLAPS

K(h) == ConsumerOf(h.of)

\* A handler has a message that was sent, and a channel that is there, or is past
\* its delivery's channel.
Hand(h) ==
  /\ msg[h.of] # "unsent"
  /\ h.pc # "taken" => worked[h.of] > 0
  /\ h.pc = "replied" => h.of \in Calls
  /\ Current(h) => link[K(h)] /\ h.tag <= tags[K(h)] /\ msg[h.of] \in {"unacked", "acked"}

\* A message is delivered once on a channel, and a tag given once.
Distinct ==
  \A g, h \in handlers :
    Current(g) /\ Current(h) /\ (g.of = h.of \/ (K(g) = K(h) /\ g.tag = h.tag)) => g = h

InHand == \A m \in Messages : msg[m] = "unacked" => \E h \in handlers : h.of = m /\ Current(h)

Hands ==
  /\ Typed
  /\ \A h \in handlers : Hand(h)
  /\ Distinct
  /\ InHand

-----------------------------------------------------------------------------
(***************************************************************************)
(* What steps do to messages and handlers.                                  *)
(***************************************************************************)
\* Messages have one consumer each.
LEMMA Kinds ==
  /\ \A m \in Messages : ConsumerOf(m) \in Consumers
  /\ \A c \in Calls : c \in Messages /\ c \notin Jobs /\ c \notin Events /\ ConsumerOf(c) = "replier"
  /\ \A j \in Jobs :
       j \in Messages /\ j \notin Calls /\ j \notin Events /\ ConsumerOf(j) = "receiver"
  /\ \A e \in Events :
       e \in Messages /\ e \notin Calls /\ e \notin Jobs /\ ConsumerOf(e) = "subscriber"
BY KindsAssumption DEF Messages, Consumers, ConsumerOf

LEMMA Moved ==
  ASSUME msg \in [Messages -> Places], NEW m \in Messages, NEW to \in Places, Move(m, to)
  PROVE  /\ msg' \in [Messages -> Places]
         /\ msg'[m] = to
         /\ \A n \in Messages : n # m => msg'[n] = msg[n]
BY DEF Move

LEMMA ReturnedTo ==
  ASSUME msg \in [Messages -> Places], NEW gone, msg' = Returned(gone)
  PROVE  /\ msg' \in [Messages -> Places]
         /\ \A m \in Messages :
              /\ ConsumerOf(m) \notin gone => msg'[m] = msg[m]
              /\ ConsumerOf(m) \in gone => msg'[m] # "unacked"
              /\ msg[m] \in {"unsent", "acked"} <=> msg'[m] \in {"unsent", "acked"}
              /\ msg[m] = "unsent" <=> msg'[m] = "unsent"
         /\ \A c \in Calls : msg[c] \in {"ready", "unacked"} => msg'[c] \in {"ready", "unacked"}
<1>1. ASSUME NEW m \in Messages
      PROVE  \/ msg'[m] = msg[m] /\ ~(ConsumerOf(m) \in gone /\ msg[m] = "unacked")
             \/ msg[m] \in {"ready", "unacked"} /\ m \in Events /\ msg'[m] = "lost"
             \/ msg[m] = "unacked" /\ m \notin Events /\ ConsumerOf(m) \in gone /\ msg'[m] = "ready"
  BY DEF Returned
<1>2. ASSUME NEW m \in Messages, ConsumerOf(m) \notin gone PROVE msg'[m] = msg[m]
  BY <1>2 DEF Returned
<1>3. msg' \in [Messages -> Places]
  <2>1. \A m \in Messages : msg'[m] \in Places
    BY <1>1 DEF Places
  <2>2. msg' = [m \in Messages |-> msg'[m]]
    BY DEF Returned
  <2>. QED
    BY <2>1, <2>2
<1>. QED
  BY <1>1, <1>2, <1>3, Kinds

\* Handlers that outlive a connection.
LEMMA Aged ==
  ASSUME NEW k \in Consumers, NEW hands, hands \subseteq Handlers, Disconnect(k, hands)
  PROVE  /\ handlers' \subseteq Handlers
         /\ \A g \in handlers' :
              \E h \in hands :
                /\ g.of = h.of /\ g.pc = h.pc /\ g.tag = h.tag
                /\ K(h) = k => g.outlived > 0
                /\ K(h) # k => g = h
         /\ \A h \in hands : K(h) # k => h \in handlers'
         /\ \A h \in hands : \E g \in handlers' : g.of = h.of /\ g.pc = h.pc
<1> DEFINE age(h) == [h EXCEPT !.outlived = IF ConsumerOf(h.of) = k THEN @ + 1 ELSE @]
<1>1. handlers' = {age(h) : h \in hands}
  BY DEF Disconnect
<1>2. ASSUME NEW h \in hands
      PROVE  /\ age(h) \in Handlers
             /\ age(h).of = h.of /\ age(h).pc = h.pc /\ age(h).tag = h.tag
             /\ K(h) = k => age(h).outlived > 0
             /\ K(h) # k => age(h) = h
  <2>1. h \in Handlers
    OBVIOUS
  <2>. QED
    BY <2>1 DEF Handlers, K
<1>. HIDE DEF age
<1>3. ASSUME NEW h \in hands PROVE age(h) \in handlers'
  BY <1>1
<1>. QED
  BY <1>1, <1>2, <1>3

-----------------------------------------------------------------------------
(***************************************************************************)
(* Hands.                                                                   *)
(***************************************************************************)
LEMMA InitHands == Init => Hands
<1>. SUFFICES ASSUME Init PROVE Hands
  OBVIOUS
<1>1. /\ call \in [Calls -> {"idle", "waiting", "resolved", "gone"}]
      /\ answer \in [Calls -> Calls \cup {NoAnswer}] /\ listening \subseteq Calls
      /\ replies \in [Calls -> [ready : Nat, held : Nat]]
      /\ msg \in [Messages -> Places] /\ worked \in [Messages -> Nat]
  BY DEF Init, Places
<1>2. /\ handlers \subseteq Handlers /\ worker \in BOOLEAN
      /\ link \in [Consumers -> BOOLEAN] /\ tags \in [Consumers -> Nat]
      /\ faults \in 0 .. MaxFaults
  <2>1. link \in [Consumers -> BOOLEAN] /\ tags \in [Consumers -> Nat]
    BY DEF Init
  <2>2. handlers \subseteq Handlers /\ worker \in BOOLEAN
    BY DEF Init
  <2>3. faults \in 0 .. MaxFaults
    BY FaultsAssumption DEF Init
  <2>. QED
    BY <2>1, <2>2, <2>3
<1>3. handlers = {} /\ \A m \in Messages : msg[m] # "unacked"
  BY DEF Init
<1>4. Typed
  BY <1>1, <1>2 DEF Typed
<1>. QED
  BY <1>3, <1>4 DEF Hands, Distinct, InHand

\* A message is sent, or routed nowhere.
LEMMA SentHands ==
  ASSUME Hands, NEW m \in Messages, NEW to \in {"ready", "lost"},
         msg[m] = "unsent", Move(m, to),
         UNCHANGED <<worked, handlers, links, tags, faults>>
  PROVE  /\ \A h \in handlers' : Hand(h)'
         /\ Distinct' /\ InHand'
         /\ msg' \in [Messages -> Places]
<1>1. /\ msg' \in [Messages -> Places] /\ msg'[m] = to
      /\ \A n \in Messages : n # m => msg'[n] = msg[n]
  BY Moved DEF Hands, Typed, Places
<1>2. \A h \in handlers : h.of \in Messages /\ h.of # m
  BY DEF Hands, Hand, Typed, Handlers
<1>3. ASSUME NEW h \in handlers' PROVE Hand(h)'
  BY <1>1, <1>2 DEF Hands, Hand, links, Current, K
<1>4. Distinct' /\ InHand'
  BY <1>1, <1>2 DEF Hands, Distinct, InHand, Current, K
<1>. QED
  BY <1>1, <1>3, <1>4

\* Nothing of messages and handlers changes.
LEMMA AsideHands ==
  ASSUME Hands, UNCHANGED <<msg, worked, handlers, tags>>,
         \A k \in Consumers : link[k] => link'[k]
  PROVE  /\ \A h \in handlers' : Hand(h)'
         /\ Distinct' /\ InHand'
<1>1. ASSUME NEW h \in handlers' PROVE Hand(h)'
  <2>1. h \in handlers /\ h.of \in Messages
    BY DEF Hands, Typed, Handlers
  <2>. QED
    BY <2>1, Kinds DEF Hands, Hand, Current, K
<1>2. Distinct' /\ InHand'
  BY DEF Hands, Distinct, InHand, Current, K
<1>. QED
  BY <1>1, <1>2

\* A connection ends, and hands are what is left of its handlers and the others.
LEMMA DisconnectHands ==
  ASSUME Hands, NEW k \in Consumers, NEW hands, hands \subseteq handlers,
         \A h \in handlers \ hands : K(h) = k,
         Disconnect(k, hands), UNCHANGED worked
  PROVE  /\ \A h \in handlers' : Hand(h)'
         /\ Distinct' /\ InHand'
         /\ msg' \in [Messages -> Places] /\ handlers' \subseteq Handlers
         /\ link' \in [Consumers -> BOOLEAN] /\ tags' \in [Consumers -> Nat]
         /\ worker' = worker
<1>0. hands \subseteq Handlers /\ msg \in [Messages -> Places]
  BY DEF Hands, Typed
<1>1. /\ msg' \in [Messages -> Places]
      /\ \A m \in Messages :
           /\ ConsumerOf(m) # k => msg'[m] = msg[m]
           /\ ConsumerOf(m) = k => msg'[m] # "unacked"
           /\ msg[m] = "unsent" <=> msg'[m] = "unsent"
  <2>1. msg' = Returned({k})
    BY DEF Disconnect
  <2>. QED
    BY <1>0, <2>1, ReturnedTo
<1>2. /\ link' \in [Consumers -> BOOLEAN] /\ tags' \in [Consumers -> Nat]
      /\ \A l \in Consumers : l # k => link'[l] = link[l] /\ tags'[l] = tags[l]
      /\ worker' = worker
  BY DEF Disconnect, Hands, Typed
<1>3. /\ handlers' \subseteq Handlers
      /\ \A g \in handlers' :
           \E h \in hands :
             /\ g.of = h.of /\ g.pc = h.pc /\ g.tag = h.tag
             /\ K(h) = k => g.outlived > 0
             /\ K(h) # k => g = h
      /\ \A h \in hands : K(h) # k => h \in handlers'
  BY <1>0, Aged
\* Those that are still current have another consumer.
<1>4. \A g \in handlers' : Current(g) => K(g) # k /\ g \in handlers
  BY <1>3 DEF Current, K
<1>5. ASSUME NEW g \in handlers' PROVE Hand(g)'
  <2>1. PICK h \in hands : g.of = h.of /\ g.pc = h.pc /\ g.tag = h.tag
    BY <1>3
  <2>2. Hand(h) /\ h.of \in Messages /\ K(g) \in Consumers
    BY <2>1, <1>0, Kinds DEF Hands, Handlers, K
  <2>3. msg'[g.of] # "unsent"
    BY <1>1, <2>1, <2>2 DEF Hand
  <2>4. Current(g) =>
          link'[K(g)] /\ g.tag <= tags'[K(g)] /\ msg'[g.of] \in {"unacked", "acked"}
    <3>. SUFFICES ASSUME Current(g)
                  PROVE  link'[K(g)] /\ g.tag <= tags'[K(g)] /\ msg'[g.of] \in {"unacked", "acked"}
      OBVIOUS
    <3>1. K(g) # k /\ Hand(g)
      BY <1>4 DEF Hands
    <3>. QED
      BY <1>1, <1>2, <2>1, <2>2, <3>1 DEF Hand, K
  <2>. QED
    BY <2>1, <2>2, <2>3, <2>4 DEF Hand, Current, K
<1>6. Distinct'
  BY <1>4 DEF Hands, Distinct, Current, K
<1>7. InHand'
  <2>. SUFFICES ASSUME NEW m \in Messages, msg'[m] = "unacked"
                PROVE  \E h \in handlers' : h.of = m /\ Current(h)
    BY DEF InHand, Current
  <2>1. ConsumerOf(m) # k /\ msg[m] = "unacked"
    BY <1>1
  <2>2. PICK h \in handlers : h.of = m /\ Current(h)
    BY <2>1 DEF Hands, InHand
  <2>3. K(h) # k /\ h \in hands
    BY <2>1, <2>2 DEF K
  <2>. QED
    BY <1>3, <2>2, <2>3
<1>. QED
  BY <1>1, <1>2, <1>3, <1>5, <1>6, <1>7

\* The worker process ends.
LEMMA EndHands ==
  ASSUME Hands, EndProcess
  PROVE  /\ \A h \in handlers' : Hand(h)'
         /\ Distinct' /\ InHand'
         /\ msg' \in [Messages -> Places] /\ handlers' \subseteq Handlers
         /\ link' \in [Consumers -> BOOLEAN] /\ tags' \in [Consumers -> Nat]
         /\ worker' \in BOOLEAN
<1>1. /\ msg' \in [Messages -> Places]
      /\ \A m \in Messages : msg'[m] # "unacked"
  <2>1. msg' = Returned(Consumers) /\ msg \in [Messages -> Places]
    BY DEF EndProcess, Hands, Typed
  <2>. QED
    BY <2>1, ReturnedTo, Kinds
<1>2. handlers' = {} /\ worker' = FALSE
  BY DEF EndProcess
<1>3. link' \in [Consumers -> BOOLEAN] /\ tags' \in [Consumers -> Nat]
  BY DEF EndProcess
<1>. QED
  BY <1>1, <1>2, <1>3 DEF Distinct, InHand

\* One handler goes on.
LEMMA GoOnHands ==
  ASSUME Hands, NEW h \in handlers, NEW pc \in {"worked", "replied"}, GoOn(h, pc),
         UNCHANGED <<msg, links, tags>>,
         \A m \in Messages : worked'[m] >= worked[m], worked' \in [Messages -> Nat],
         worked'[h.of] > 0, pc = "replied" => h.of \in Calls
  PROVE  /\ \A g \in handlers' : Hand(g)'
         /\ Distinct' /\ InHand'
         /\ handlers' \subseteq Handlers
<1> DEFINE n == [h EXCEPT !.pc = pc]
<1>1. /\ h \in Handlers /\ handlers \subseteq Handlers /\ n \in Handlers
      /\ n.of = h.of /\ n.pc = pc /\ n.tag = h.tag /\ n.outlived = h.outlived
  <2>1. h \in Handlers /\ handlers \subseteq Handlers
    BY DEF Hands, Typed
  <2>. QED
    BY <2>1 DEF Handlers
<1>2. handlers' = (handlers \ {h}) \cup {n}
  BY DEF GoOn
<1>. HIDE DEF n
<1>3. ASSUME NEW g \in handlers' PROVE Hand(g)'
  <2>1. CASE g = n
    <3>1. Hand(h)
      BY DEF Hands
    <3>. QED
      BY <1>1, <2>1, <3>1 DEF Hand, Current, K, links
  <2>2. CASE g \in handlers
    <3>1. Hand(g) /\ g.of \in Messages
      BY <2>2, <1>1 DEF Hands, Handlers
    <3>2. worked'[g.of] >= worked[g.of] /\ worked'[g.of] \in Nat /\ worked[g.of] \in Nat
      BY <3>1 DEF Hands, Typed
    <3>. QED
      BY <3>1, <3>2 DEF Hand, Current, K, links
  <2>. QED
    BY <1>2, <2>1, <2>2
<1>4. Distinct'
  <2>. SUFFICES ASSUME NEW f \in handlers', NEW g \in handlers', Current(f), Current(g),
                       f.of = g.of \/ (K(f) = K(g) /\ f.tag = g.tag)
                PROVE  f = g
    BY DEF Distinct, Current, K
  <2> DEFINE Old(x) == IF x = n THEN h ELSE x
  <2>1. Old(f) \in handlers /\ Old(g) \in handlers /\ Current(Old(f)) /\ Current(Old(g))
    BY <1>1, <1>2 DEF Current
  <2>2. Old(f).of = Old(g).of \/ (K(Old(f)) = K(Old(g)) /\ Old(f).tag = Old(g).tag)
    BY <1>1 DEF K
  <2>3. Old(f) = Old(g)
    BY <2>1, <2>2 DEF Hands, Distinct
  <2>. QED
    BY <2>3, <1>2
<1>5. InHand'
  <2>. SUFFICES ASSUME NEW m \in Messages, msg[m] = "unacked"
                PROVE  \E g \in handlers' : g.of = m /\ Current(g)
    BY DEF InHand, Current
  <2>1. PICK g \in handlers : g.of = m /\ Current(g)
    BY DEF Hands, InHand
  <2>2. CASE g = h
    BY <1>1, <1>2, <2>1, <2>2 DEF Current
  <2>3. CASE g # h
    BY <1>2, <2>1, <2>3
  <2>. QED
    BY <2>2, <2>3
<1>. QED
  BY <1>1, <1>2, <1>3, <1>4, <1>5

\* A handler ends, and where its message was unacknowledged it no longer is.
LEMMA LeaveHands ==
  ASSUME Hands, NEW h \in handlers, handlers' = handlers \ {h},
         UNCHANGED <<worked, links, tags>>, msg' \in [Messages -> Places],
         \A m \in Messages : msg'[m] = msg[m] \/ (msg[m] # "unsent" /\ msg'[m] = "acked"),
         Current(h) => msg'[h.of] # "unacked"
  PROVE  /\ \A g \in handlers' : Hand(g)'
         /\ Distinct' /\ InHand'
         /\ handlers' \subseteq Handlers
<1>0. handlers \subseteq Handlers
  BY DEF Hands, Typed
<1>1. ASSUME NEW g \in handlers' PROVE Hand(g)'
  <2>1. Hand(g) /\ g.of \in Messages
    BY <1>0 DEF Hands, Handlers
  <2>. QED
    BY <2>1 DEF Hand, Current, K, links
<1>2. Distinct'
  BY DEF Hands, Distinct, Current, K
<1>3. InHand'
  <2>. SUFFICES ASSUME NEW m \in Messages, msg'[m] = "unacked"
                PROVE  \E g \in handlers' : g.of = m /\ Current(g)
    BY DEF InHand, Current
  <2>1. msg[m] = "unacked"
    OBVIOUS
  <2>2. PICK g \in handlers : g.of = m /\ Current(g)
    BY <2>1 DEF Hands, InHand
  <2>. QED
    BY <2>2
<1>. QED
  BY <1>0, <1>1, <1>2, <1>3

-----------------------------------------------------------------------------
(***************************************************************************)
(* Callers.                                                                 *)
(***************************************************************************)
Replied(c) == replies[c].ready + replies[c].held > 0

\* A reply is to a request that was worked on, and held by another's consumer; it
\* is there when the handler has sent it and the caller still waits.
Callers ==
  /\ \A c \in Calls :
       /\ Replied(c) => worked[c] > 0
       /\ replies[c].held > 0 => listening \ {c} # {}
       /\ call[c] = "waiting" => msg[c] \in {"ready", "unacked"} \/ Replied(c)
       /\ msg[c] = "acked" => worked[c] > 0
  /\ \A h \in handlers : h.pc = "replied" /\ call[h.of] = "waiting" => Replied(h.of)
  /\ AnswerIsOwn

\* A step of the messages leaves the callers their requests, or their replies.
LEMMA MessagesCallers ==
  ASSUME Hands, Callers, UNCHANGED caller,
         \A m \in Messages : worked'[m] \in Nat /\ worked'[m] >= worked[m],
         \A c \in Calls : msg[c] \in {"ready", "unacked"} =>
           msg'[c] \in {"ready", "unacked"} \/ (call[c] = "waiting" => Replied(c)),
         \A c \in Calls : msg'[c] = "acked" => msg[c] = "acked" \/ worked[c] > 0,
         \A g \in handlers' : g.pc = "replied" => \E h \in handlers : h.pc = "replied" /\ h.of = g.of
  PROVE  Callers'
<1>1. \A c \in Calls : worked[c] \in Nat /\ worked'[c] \in Nat /\ worked'[c] >= worked[c]
  BY Kinds DEF Hands, Typed
<1>2. ASSUME NEW c \in Calls
      PROVE  /\ Replied(c)' => worked'[c] > 0
             /\ replies'[c].held > 0 => listening' \ {c} # {}
             /\ call'[c] = "waiting" => msg'[c] \in {"ready", "unacked"} \/ Replied(c)'
             /\ msg'[c] = "acked" => worked'[c] > 0
  BY <1>1 DEF Callers, Replied, caller
<1>3. AnswerIsOwn'
  BY <1>1 DEF Callers, AnswerIsOwn, caller
<1>4. \A g \in handlers' : g.pc = "replied" /\ call'[g.of] = "waiting" => Replied(g.of)'
  BY DEF Callers, Replied, caller
<1>. QED
  BY <1>2, <1>3, <1>4 DEF Callers

-----------------------------------------------------------------------------
(***************************************************************************)
(* What must have failed.                                                   *)
(***************************************************************************)
\* Handler h will acknowledge on another channel than its delivery's, or what is
\* already acknowledged.
Stray(h) == ~Current(h) \/ (h.of \notin Calls /\ msg[h.of] = "acked")

\* Some handler of k is astray, or a job acknowledged before its work was done.
Astray(k) ==
  \/ \E h \in handlers : K(h) = k /\ Stray(h)
  \/ \E j \in Jobs : ConsumerOf(j) = k /\ msg[j] = "acked" /\ worked[j] = 0

\* Every consumer that is astray has had a failure of its own; without any, each
\* message is worked on once, in its turn.
Blamed ==
  /\ \A k \in Consumers : Astray(k) => faults > 0
  /\ \A k, l \in Consumers : k # l /\ Astray(k) /\ Astray(l) => faults > 1
  /\ \A j \in Jobs : msg[j] = "acked" => worked[j] > 0 \/ Underway(j) \/ faults > 1
  /\ faults = 0 =>
       /\ \A m \in Messages : worked[m] <= 1
       /\ \A m \in Messages : msg[m] \in {"unsent", "ready", "lost"} => worked[m] = 0
       /\ \A h \in handlers : h.pc = "taken" => worked[h.of] = 0

IInv == Hands /\ Callers /\ Blamed

-----------------------------------------------------------------------------
LEMMA InitInv == Init => IInv
<1>. SUFFICES ASSUME Init PROVE IInv
  OBVIOUS
<1>1. Hands
  BY InitHands
<1>2. handlers = {} /\ \A m \in Messages : msg[m] = "unsent" /\ worked[m] = 0
  BY DEF Init
<1>3. \A c \in Calls : call[c] = "idle" /\ replies[c].ready = 0 /\ replies[c].held = 0
  BY DEF Init
<1>4. Callers
  BY <1>2, <1>3, Kinds DEF Callers, Replied, AnswerIsOwn
<1>5. Blamed
  BY <1>2, Kinds DEF Blamed, Astray
<1>. QED
  BY <1>1, <1>4, <1>5 DEF IInv

\* Faults are counted.
LEMMA Counted ==
  ASSUME Typed
  PROVE  /\ faults \in Nat
         /\ Fault => faults' \in 0 .. MaxFaults /\ faults' = faults + 1
BY FaultsAssumption DEF Typed, Fault

\* What is not typed by the lemmas on hands.
Rest ==
  /\ call \in [Calls -> {"idle", "waiting", "resolved", "gone"}]
  /\ answer \in [Calls -> Calls \cup {NoAnswer}]
  /\ listening \subseteq Calls
  /\ replies \in [Calls -> [ready : Nat, held : Nat]]

\* A step that no handler, and no message in hand, takes part in, blames nobody.
LEMMA AsideBlamed ==
  ASSUME Hands, Blamed, UNCHANGED <<worked, handlers, faults>>,
         \A m \in Messages : msg'[m] = "acked" => msg[m] = "acked",
         \A m \in Messages : msg'[m] \in {"unsent", "ready", "lost"} =>
           msg[m] \in {"unsent", "ready", "lost"}
  PROVE  Blamed'
<1>1. \A h \in handlers : h.of \in Messages
  BY DEF Hands, Typed, Handlers
<1>2. \A k \in Consumers : Astray(k)' => Astray(k)
  BY <1>1, Kinds DEF Astray, Stray, Current, K
<1>3. /\ \A k \in Consumers : Astray(k)' => faults' > 0
      /\ \A k, l \in Consumers : k # l /\ Astray(k)' /\ Astray(l)' => faults' > 1
  BY <1>2 DEF Blamed
<1>4. \A j \in Jobs : msg'[j] = "acked" => worked'[j] > 0 \/ Underway(j)' \/ faults' > 1
  BY Kinds DEF Blamed, Underway
<1>5. faults' = 0 =>
        /\ \A m \in Messages : worked'[m] <= 1
        /\ \A m \in Messages : msg'[m] \in {"unsent", "ready", "lost"} => worked'[m] = 0
        /\ \A h \in handlers' : h.pc = "taken" => worked'[h.of] = 0
  BY DEF Blamed
<1>. QED
  BY <1>3, <1>4, <1>5 DEF Blamed

\* More faults excuse more, as long as nothing else changes but the replies.
LEMMA FaultBlamed ==
  ASSUME Hands, Blamed, UNCHANGED <<msg, worked, handlers>>, faults' = faults + 1
  PROVE  Blamed'
<1>1. faults \in Nat /\ faults' \in Nat /\ faults' > faults
  BY Counted DEF Hands
<1>2. \A k \in Consumers : Astray(k)' => Astray(k)
  BY DEF Astray, Stray, Current, K
<1>3. \A j \in Jobs : Underway(j) <=> Underway(j)'
  BY DEF Underway
<1>. QED
  BY <1>1, <1>2, <1>3 DEF Blamed

LEMMA SendAsyncInv == ASSUME IInv, NEW c \in Calls, SendAsync(c) PROVE IInv'
<1>0. Hands /\ Callers /\ Blamed /\ Typed /\ c \in Messages
  BY Kinds DEF IInv, Hands
<1>1. /\ msg[c] = "unsent" /\ Move(c, "ready") /\ call[c] = "idle"
      /\ call' = [call EXCEPT ![c] = "waiting"] /\ listening' = listening \cup {c}
      /\ UNCHANGED <<answer, replies, worked, handlers, links, tags, faults>>
  BY DEF SendAsync, MayBeSent
<1>2. /\ \A h \in handlers' : Hand(h)'
      /\ Distinct' /\ InHand'
      /\ msg' \in [Messages -> Places]
  BY <1>0, <1>1, SentHands
<1>3. msg'[c] = "ready" /\ \A n \in Messages : n # c => msg'[n] = msg[n]
  BY <1>0, <1>1, Moved DEF Typed, Places
<1>4. Hands'
  <2>1. Rest'
    BY <1>0, <1>1 DEF Rest, Typed
  <2>. QED
    BY <1>0, <1>1, <1>2, <2>1 DEF Hands, Typed, Rest, links
<1>5. Callers'
  <2>1. \A h \in handlers : h.of # c /\ h.of \in Messages
    BY <1>0, <1>1 DEF Hands, Hand, Typed, Handlers
  <2>2. \A d \in Calls : d # c => call'[d] = call[d]
    BY <1>0, <1>1 DEF Typed
  <2>3. \A h \in handlers : h.pc = "replied" => h.of \in Calls
    BY <1>0 DEF Hands, Hand
  <2>4. call'[c] = "waiting"
    BY <1>0, <1>1 DEF Typed
  <2>5. \A d \in Calls : Replied(d)' <=> Replied(d)
    BY <1>1 DEF Replied
  <2>6. AnswerIsOwn'
    BY <1>0, <1>1, <2>2, <2>4 DEF Callers, AnswerIsOwn
  <2>7. ASSUME NEW d \in Calls
        PROVE  /\ Replied(d)' => worked'[d] > 0
               /\ replies'[d].held > 0 => listening' \ {d} # {}
               /\ call'[d] = "waiting" => msg'[d] \in {"ready", "unacked"} \/ Replied(d)'
               /\ msg'[d] = "acked" => worked'[d] > 0
    BY <1>0, <1>1, <1>3, <2>2, <2>5, Kinds DEF Callers
  <2>8. \A h \in handlers' : h.pc = "replied" /\ call'[h.of] = "waiting" => Replied(h.of)'
    BY <1>0, <1>1, <2>1, <2>2, <2>3, <2>5 DEF Callers
  <2>. QED
    BY <2>6, <2>7, <2>8 DEF Callers
<1>6. Blamed'
  BY <1>0, <1>1, <1>3, AsideBlamed
<1>. QED
  BY <1>4, <1>5, <1>6 DEF IInv

\* What the reply queue does, with the messages and the worker as they are.
LEMMA RepliesAside ==
  ASSUME IInv, UNCHANGED <<msg, worked, handlers, links, tags, faults>>, Rest'
  PROVE  Hands' /\ Blamed'
<1>0. Hands /\ Blamed
  BY DEF IInv
<1>1. (\A h \in handlers' : Hand(h)') /\ Distinct' /\ InHand'
  <2>1. \A k \in Consumers : link[k] => link'[k]
    BY DEF links
  <2>. QED
    BY <1>0, <2>1, AsideHands
<1>2. Typed'
  BY <1>0 DEF Hands, Typed, Rest, links
<1>. QED
  BY <1>0, <1>1, <1>2, AsideBlamed DEF Hands

LEMMA ResolveInv == ASSUME IInv, NEW c \in Calls, Resolve(c) PROVE IInv'
<1>0. Hands /\ Callers /\ Typed
  BY DEF IInv, Hands
<1>1. Rest'
  BY <1>0 DEF Resolve, Typed, Rest
<1>2. Hands' /\ Blamed'
  BY <1>1, RepliesAside DEF Resolve
<1>3. /\ call'[c] = "resolved" /\ answer'[c] = c /\ replies[c].ready > 0
      /\ replies'[c].held = replies[c].held
      /\ \A d \in Calls : d # c =>
           call'[d] = call[d] /\ answer'[d] = answer[d] /\ replies'[d] = replies[d]
      /\ UNCHANGED <<listening, msg, worked, handlers>>
  BY <1>0 DEF Resolve, Typed
<1>4. Replied(c) /\ \A d \in Calls : d # c => (Replied(d)' <=> Replied(d))
  BY <1>0, <1>3 DEF Replied, Typed
<1>5. \A h \in handlers : h.pc = "replied" => h.of \in Calls
  BY <1>0 DEF Hands, Hand
<1>6. AnswerIsOwn'
  BY <1>0, <1>3, <1>4 DEF Callers, AnswerIsOwn
<1>7. ASSUME NEW d \in Calls
      PROVE  /\ Replied(d)' => worked'[d] > 0
             /\ replies'[d].held > 0 => listening' \ {d} # {}
             /\ call'[d] = "waiting" => msg'[d] \in {"ready", "unacked"} \/ Replied(d)'
             /\ msg'[d] = "acked" => worked'[d] > 0
  BY <1>0, <1>3, <1>4 DEF Callers
<1>8. \A h \in handlers' : h.pc = "replied" /\ call'[h.of] = "waiting" => Replied(h.of)'
  BY <1>0, <1>3, <1>4, <1>5 DEF Callers
<1>. QED
  BY <1>2, <1>6, <1>7, <1>8 DEF IInv, Callers

LEMMA HoldReplyInv == ASSUME IInv, NEW k \in Calls, NEW c \in Calls, HoldReply(k, c) PROVE IInv'
<1>0. Hands /\ Callers /\ Typed
  BY DEF IInv, Hands
<1>1. Rest'
  BY <1>0 DEF HoldReply, Typed, Rest
<1>2. Hands' /\ Blamed'
  BY <1>1, RepliesAside DEF HoldReply
<1>3. /\ k \in listening \ {c}
      /\ replies'[c].ready + replies'[c].held = replies[c].ready + replies[c].held
      /\ \A d \in Calls : d # c => replies'[d] = replies[d]
      /\ UNCHANGED <<call, answer, listening, msg, worked, handlers>>
  BY <1>0 DEF HoldReply, Typed
<1>4. \A d \in Calls : Replied(d)' <=> Replied(d)
  BY <1>3 DEF Replied
<1>5. \A h \in handlers : h.pc = "replied" => h.of \in Calls
  BY <1>0 DEF Hands, Hand
<1>6. AnswerIsOwn'
  BY <1>0, <1>3 DEF Callers, AnswerIsOwn
<1>7. ASSUME NEW d \in Calls
      PROVE  /\ Replied(d)' => worked'[d] > 0
             /\ replies'[d].held > 0 => listening' \ {d} # {}
             /\ call'[d] = "waiting" => msg'[d] \in {"ready", "unacked"} \/ Replied(d)'
             /\ msg'[d] = "acked" => worked'[d] > 0
  BY <1>0, <1>3, <1>4 DEF Callers
<1>8. \A h \in handlers' : h.pc = "replied" /\ call'[h.of] = "waiting" => Replied(h.of)'
  BY <1>0, <1>3, <1>4, <1>5 DEF Callers
<1>. QED
  BY <1>2, <1>6, <1>7, <1>8 DEF IInv, Callers

\* Jobs and events that are sent.
LEMMA WorkSentInv ==
  ASSUME IInv, NEW m \in Jobs \cup Events, NEW to \in {"ready", "lost"},
         msg[m] = "unsent", Move(m, to),
         UNCHANGED <<caller, worked, handlers, links, tags, faults>>
  PROVE  IInv'
<1>0. Hands /\ Callers /\ Blamed /\ Typed /\ m \in Messages /\ m \notin Calls
  BY Kinds DEF IInv, Hands
<1>1. /\ \A h \in handlers' : Hand(h)'
      /\ Distinct' /\ InHand'
      /\ msg' \in [Messages -> Places]
  BY <1>0, SentHands
<1>2. msg'[m] = to /\ \A n \in Messages : n # m => msg'[n] = msg[n]
  BY <1>0, Moved DEF Typed, Places
<1>3. Hands'
  BY <1>0, <1>1 DEF Hands, Typed, links, caller
<1>4. \A c \in Calls : msg'[c] = msg[c]
  BY <1>0, <1>2, Kinds
<1>5. \A n \in Messages : worked'[n] \in Nat /\ worked'[n] >= worked[n]
  BY <1>0 DEF Typed
<1>6. Callers'
  BY <1>0, <1>4, <1>5, MessagesCallers
<1>7. Blamed'
  BY <1>0, <1>2, AsideBlamed
<1>. QED
  BY <1>3, <1>6, <1>7 DEF IInv

LEMMA SendJobInv == ASSUME IInv, NEW j \in Jobs, SendJob(j) PROVE IInv'
BY WorkSentInv DEF SendJob, MayBeSent

LEMMA PublishAsyncInv == ASSUME IInv, NEW e \in Events, PublishAsync(e) PROVE IInv'
BY WorkSentInv DEF PublishAsync, MayBeSent

\* Connections are made.
LEMMA ConnectInv ==
  ASSUME IInv, RunWorkers \/ \E k \in Consumers : Reconnect(k)
  PROVE  IInv'
<1>0. Hands /\ Callers /\ Blamed /\ Typed
  BY DEF IInv, Hands
<1>1. UNCHANGED <<caller, msg, worked, handlers, tags, faults>>
  BY DEF RunWorkers, Reconnect
<1>2. /\ \A k \in Consumers : link[k] => link'[k]
      /\ link' \in [Consumers -> BOOLEAN] /\ worker' \in BOOLEAN
  <2>1. CASE RunWorkers
    BY <2>1 DEF RunWorkers
  <2>2. CASE \E k \in Consumers : Reconnect(k)
    BY <2>2, <1>0 DEF Reconnect, Typed
  <2>. QED
    BY <2>1, <2>2
<1>3. (\A h \in handlers' : Hand(h)') /\ Distinct' /\ InHand'
  BY <1>0, <1>1, <1>2, AsideHands
<1>4. Hands'
  BY <1>0, <1>1, <1>2, <1>3 DEF Hands, Typed, caller
<1>5. \A n \in Messages : worked'[n] \in Nat /\ worked'[n] >= worked[n]
  BY <1>0, <1>1 DEF Typed
<1>6. Callers'
  BY <1>0, <1>1, <1>5, MessagesCallers
<1>7. Blamed'
  BY <1>0, <1>1, AsideBlamed
<1>. QED
  BY <1>4, <1>6, <1>7 DEF IInv

-----------------------------------------------------------------------------
(***************************************************************************)
(* The worker.                                                              *)
(***************************************************************************)
LEMMA ConsumeHands ==
  ASSUME Hands, NEW m \in Messages, Consume(m)
  PROVE  /\ Hands'
         /\ handlers' = handlers \cup
              {[of |-> m, pc |-> "taken", tag |-> tags[ConsumerOf(m)] + 1, outlived |-> 0]}
         /\ msg[m] = "ready" /\ msg'[m] = "unacked"
         /\ \A n \in Messages : n # m => msg'[n] = msg[n]
         /\ UNCHANGED <<caller, worked, links, faults>>
<1> DEFINE k == ConsumerOf(m)
           n == [of |-> m, pc |-> "taken", tag |-> tags[k] + 1, outlived |-> 0]
<1>0. Typed /\ k \in Consumers
  BY Kinds DEF Hands
<1>1. /\ link[k] /\ msg[m] = "ready" /\ Move(m, "unacked")
      /\ tags' = [tags EXCEPT ![k] = @ + 1]
      /\ handlers' = handlers \cup {n}
      /\ UNCHANGED <<caller, worked, links, faults>>
  BY DEF Consume
<1>2. /\ msg' \in [Messages -> Places] /\ msg'[m] = "unacked"
      /\ \A l \in Messages : l # m => msg'[l] = msg[l]
  BY <1>0, <1>1, Moved DEF Typed, Places
<1>3. /\ tags \in [Consumers -> Nat] /\ tags' \in [Consumers -> Nat]
      /\ tags'[k] = tags[k] + 1 /\ \A l \in Consumers : l # k => tags'[l] = tags[l]
  BY <1>0, <1>1 DEF Typed
<1>4. /\ n \in Handlers /\ n.of = m /\ n.pc = "taken" /\ n.outlived = 0
      /\ n.tag = tags[k] + 1 /\ K(n) = k
  BY <1>0, <1>3 DEF Handlers, K
<1>. HIDE DEF n
<1>5. handlers \subseteq Handlers /\ handlers' \subseteq Handlers
  BY <1>0, <1>1, <1>4 DEF Typed
<1>6. ASSUME NEW h \in handlers
      PROVE  /\ Hand(h) /\ h.of \in Messages /\ K(h) \in Consumers
             /\ h.tag \in Nat
             /\ Current(h) => h.of # m
             /\ Current(h) /\ K(h) = k => h.tag <= tags[k]
  BY <1>1, <1>5, Kinds DEF Hands, Hand, Handlers, K
<1>. HIDE DEF k
<1>7. ASSUME NEW h \in handlers' PROVE Hand(h)'
  <2>1. CASE h = n
    BY <1>1, <1>2, <1>3, <1>4, <2>1 DEF Hand, Current, K, links
  <2>2. CASE h \in handlers
    <3>1. /\ Hand(h) /\ h.of \in Messages /\ K(h) \in Consumers /\ h.tag \in Nat
          /\ Current(h) => h.of # m
      BY <2>2, <1>6
    <3>2. msg'[h.of] # "unsent" /\ (Current(h) => msg'[h.of] = msg[h.of])
      BY <3>1, <1>2 DEF Hand
    <3>3. Current(h) => h.tag <= tags'[K(h)]
      BY <3>1, <1>3 DEF Hand
    <3>. QED
      BY <3>1, <3>2, <3>3, <1>1 DEF Hand, Current, K, links
  <2>. QED
    BY <1>1, <2>1, <2>2
<1>8. Distinct'
  <2>. SUFFICES ASSUME NEW f \in handlers', NEW g \in handlers', Current(f), Current(g),
                       f.of = g.of \/ (K(f) = K(g) /\ f.tag = g.tag)
                PROVE  f = g
    BY DEF Distinct, Current, K
  <2>1. CASE f \in handlers /\ g \in handlers
    BY <2>1 DEF Hands, Distinct
  <2>2. CASE f = n /\ g \in handlers
    BY <2>2, <1>3, <1>4, <1>6, <1>0
  <2>3. CASE g = n /\ f \in handlers
    BY <2>3, <1>3, <1>4, <1>6, <1>0
  <2>. QED
    BY <1>1, <2>1, <2>2, <2>3
<1>9. InHand'
  BY <1>1, <1>2, <1>4 DEF Hands, InHand, Current
<1>10. Typed'
  BY <1>0, <1>1, <1>2, <1>3, <1>5 DEF Typed, caller, links
<1>. QED
  BY <1>1, <1>2, <1>7, <1>8, <1>9, <1>10 DEF Hands, n, k

LEMMA ConsumeInv == ASSUME IInv, NEW m \in Messages, Consume(m) PROVE IInv'
<1> DEFINE n == [of |-> m, pc |-> "taken", tag |-> tags[ConsumerOf(m)] + 1, outlived |-> 0]
<1>0. Hands /\ Callers /\ Blamed /\ Typed
  BY DEF IInv, Hands
<1>1. /\ Hands' /\ handlers' = handlers \cup {n}
      /\ msg[m] = "ready" /\ msg'[m] = "unacked"
      /\ \A l \in Messages : l # m => msg'[l] = msg[l]
      /\ UNCHANGED <<caller, worked, links, faults>>
  BY <1>0, ConsumeHands
<1>2. n.of = m /\ n.pc = "taken" /\ n.outlived = 0
  OBVIOUS
<1>. HIDE DEF n
<1>3. Callers'
  <2>1. \A l \in Messages : worked'[l] \in Nat /\ worked'[l] >= worked[l]
    BY <1>0, <1>1 DEF Typed
  <2>2. \A c \in Calls : msg[c] \in {"ready", "unacked"} => msg'[c] \in {"ready", "unacked"}
    BY <1>1, Kinds
  <2>3. \A c \in Calls : msg'[c] = "acked" => msg[c] = "acked"
    BY <1>1, Kinds
  <2>4. \A g \in handlers' : g.pc = "replied" => \E h \in handlers : h.pc = "replied" /\ h.of = g.of
    BY <1>1, <1>2
  <2>. QED
    BY <1>0, <1>1, <2>1, <2>2, <2>3, <2>4, MessagesCallers
<1>4. Blamed'
  <2>0. \A h \in handlers : h.of \in Messages
    BY <1>0 DEF Typed, Handlers
  <2>1. ASSUME NEW g \in handlers', Stray(g)' PROVE g \in handlers
    BY <1>1, <1>2, <2>1 DEF Stray, Current
  <2>2. \A h \in handlers : Stray(h)' => Stray(h)
    BY <1>1, <2>0 DEF Stray, Current
  <2>3. \A j \in Jobs : msg'[j] = "acked" => msg[j] = "acked" /\ worked'[j] = worked[j]
    BY <1>1, Kinds
  <2>4. \A k \in Consumers : Astray(k)' => Astray(k)
    BY <1>1, <2>1, <2>2, <2>3 DEF Astray, K
  <2>5. \A j \in Jobs : Underway(j) => Underway(j)'
    BY <1>1 DEF Underway
  <2>6. /\ \A k \in Consumers : Astray(k)' => faults' > 0
        /\ \A k, l \in Consumers : k # l /\ Astray(k)' /\ Astray(l)' => faults' > 1
    BY <1>0, <1>1, <2>4 DEF Blamed
  <2>7. \A j \in Jobs : msg'[j] = "acked" => worked'[j] > 0 \/ Underway(j)' \/ faults' > 1
    BY <1>0, <1>1, <2>3, <2>5 DEF Blamed
  <2>8. faults' = 0 =>
          /\ \A l \in Messages : worked'[l] <= 1
          /\ \A l \in Messages : msg'[l] \in {"unsent", "ready", "lost"} => worked'[l] = 0
          /\ \A h \in handlers' : h.pc = "taken" => worked'[h.of] = 0
    BY <1>0, <1>1, <1>2 DEF Blamed
  <2>. QED
    BY <2>6, <2>7, <2>8 DEF Blamed
<1>. QED
  BY <1>1, <1>3, <1>4 DEF IInv

\* A handler goes on, after its work or its reply.
LEMMA GoOnFacts ==
  ASSUME Typed, NEW h \in handlers, NEW pc, GoOn(h, pc)
  PROVE  /\ h.of \in Messages
         /\ [h EXCEPT !.pc = pc] \in handlers'
         /\ \A g \in handlers' :
              \/ g \in handlers /\ g # h
              \/ g.of = h.of /\ g.pc = pc /\ g.tag = h.tag /\ g.outlived = h.outlived
         /\ \A g \in handlers : g # h => g \in handlers'
<1>1. h \in Handlers
  BY DEF Typed
<1>. QED
  BY <1>1 DEF GoOn, Handlers

LEMMA OnMessageInv == ASSUME IInv, NEW h \in handlers, OnMessage(h) PROVE IInv'
<1>0. Hands /\ Callers /\ Blamed /\ Typed
  BY DEF IInv, Hands
<1>1. /\ h.pc = "taken" /\ GoOn(h, "worked")
      /\ worked' = [worked EXCEPT ![h.of] = @ + 1]
      /\ UNCHANGED <<caller, msg, links, tags, faults>>
  BY DEF OnMessage
<1>2. /\ h.of \in Messages
      /\ \A g \in handlers' :
           \/ g \in handlers /\ g # h
           \/ g.of = h.of /\ g.pc = "worked" /\ g.outlived = h.outlived
      /\ \A g \in handlers : g # h => g \in handlers'
  BY <1>0, <1>1, GoOnFacts
<1>3. /\ worked' \in [Messages -> Nat] /\ worked'[h.of] = worked[h.of] + 1
      /\ \A m \in Messages : m # h.of => worked'[m] = worked[m]
      /\ \A m \in Messages : worked[m] \in Nat /\ worked'[m] \in Nat /\ worked'[m] >= worked[m]
  BY <1>0, <1>1, <1>2 DEF Typed
<1>4. Hands'
  <2>1. /\ \A g \in handlers' : Hand(g)'
        /\ Distinct' /\ InHand' /\ handlers' \subseteq Handlers
    <3>1. worked'[h.of] > 0
      BY <1>2, <1>3
    <3>. QED
      BY <1>0, <1>1, <1>3, <3>1, GoOnHands
  <2>. QED
    BY <1>0, <1>1, <1>3, <2>1 DEF Hands, Typed, caller, links
<1>5. Callers'
  <2>1. \A g \in handlers' : g.pc = "replied" => \E f \in handlers : f.pc = "replied" /\ f.of = g.of
    BY <1>2
  <2>. QED
    BY <1>0, <1>1, <1>3, <2>1, Kinds, MessagesCallers
<1>6. Blamed'
  <2>1. \A g \in handlers' : \E f \in handlers : K(f) = K(g) /\ (Stray(g)' => Stray(f))
    BY <1>1, <1>2 DEF Stray, Current, K
  <2>2. \A j \in Jobs : worked'[j] = 0 => worked[j] = 0
    BY <1>3, Kinds
  <2>3. \A k \in Consumers : Astray(k)' => Astray(k)
    BY <1>1, <2>1, <2>2 DEF Astray, K
  <2>4. \A j \in Jobs : msg'[j] = "acked" => worked'[j] > 0 \/ Underway(j)' \/ faults' > 1
    <3>. SUFFICES ASSUME NEW j \in Jobs, msg'[j] = "acked", worked'[j] = 0, ~(faults' > 1)
                  PROVE  Underway(j)'
      BY <1>3, Kinds
    <3>1. Underway(j) /\ worked[j] = 0
      BY <1>0, <1>1, <2>2 DEF Blamed
    <3>2. PICK f \in handlers : f.of = j /\ f.pc = "taken"
      BY <3>1 DEF Underway
    <3>3. f # h
      BY <1>2, <1>3, <3>1, <3>2
    <3>. QED
      BY <1>2, <3>2, <3>3 DEF Underway
  <2>5. ASSUME faults = 0
        PROVE  /\ \A m \in Messages : worked'[m] <= 1
               /\ \A m \in Messages : msg'[m] \in {"unsent", "ready", "lost"} => worked'[m] = 0
               /\ \A g \in handlers' : g.pc = "taken" => worked'[g.of] = 0
    <3>1. worked[h.of] = 0
      BY <1>0, <1>1, <2>5 DEF Blamed
    <3>2. ASSUME NEW g \in handlers PROVE Current(g)
      <4>1. K(g) \in Consumers /\ ~Astray(K(g))
        BY <1>0, <2>5, Kinds DEF Blamed, K, Typed, Handlers
      <4>. QED
        BY <4>1 DEF Astray, Stray
    <3>3. \A g \in handlers : g.of = h.of => g = h
      BY <1>0, <3>2 DEF Hands, Distinct
    <3>4. msg[h.of] \in {"unacked", "acked"}
      BY <1>0, <3>2 DEF Hands, Hand
    <3>5. \A m \in Messages : worked'[m] <= 1
      BY <1>0, <1>3, <2>5, <3>1 DEF Blamed
    <3>6. \A m \in Messages : msg'[m] \in {"unsent", "ready", "lost"} => worked'[m] = 0
      BY <1>0, <1>1, <1>3, <2>5, <3>4 DEF Blamed
    <3>7. \A g \in handlers' : g.pc = "taken" => worked'[g.of] = 0
      <4>. SUFFICES ASSUME NEW g \in handlers', g.pc = "taken" PROVE worked'[g.of] = 0
        OBVIOUS
      <4>1. g \in handlers /\ g # h
        BY <1>2
      <4>2. g.of # h.of /\ g.of \in Messages
        BY <1>0, <3>3, <4>1 DEF Typed, Handlers
      <4>. QED
        BY <1>0, <1>3, <2>5, <4>1, <4>2 DEF Blamed
    <3>. QED
      BY <3>5, <3>6, <3>7
  <2>6. /\ \A k \in Consumers : Astray(k)' => faults' > 0
        /\ \A k, l \in Consumers : k # l /\ Astray(k)' /\ Astray(l)' => faults' > 1
    BY <1>0, <1>1, <2>3 DEF Blamed
  <2>. QED
    BY <1>1, <2>4, <2>5, <2>6 DEF Blamed
<1>. QED
  BY <1>4, <1>5, <1>6 DEF IInv

LEMMA ReplyInv == ASSUME IInv, NEW h \in handlers, Reply(h) PROVE IInv'
<1>0. Hands /\ Callers /\ Blamed /\ Typed
  BY DEF IInv, Hands
<1>1. /\ h.pc = "worked" /\ h.of \in Calls /\ GoOn(h, "replied")
      /\ replies' = [replies EXCEPT ![h.of].ready = @ + 1]
      /\ UNCHANGED <<call, answer, listening, msg, worked, links, tags, faults>>
  BY DEF Reply
<1>2. /\ h.of \in Messages
      /\ \A g \in handlers' :
           \/ g \in handlers /\ g # h
           \/ g.of = h.of /\ g.pc = "replied" /\ g.outlived = h.outlived
      /\ \A g \in handlers : g # h => g \in handlers'
  BY <1>0, <1>1, GoOnFacts
<1>3. worked[h.of] > 0
  BY <1>0, <1>1 DEF Hands, Hand
<1>4. Hands'
  <2>1. /\ \A g \in handlers' : Hand(g)'
        /\ Distinct' /\ InHand' /\ handlers' \subseteq Handlers
    <3>1. /\ worked' \in [Messages -> Nat] /\ worked'[h.of] > 0
          /\ \A m \in Messages : worked'[m] >= worked[m]
      BY <1>0, <1>1, <1>3 DEF Typed
    <3>. QED
      BY <1>0, <1>1, <3>1, GoOnHands
  <2>2. replies' \in [Calls -> [ready : Nat, held : Nat]]
    BY <1>0, <1>1 DEF Typed
  <2>. QED
    BY <1>0, <1>1, <2>1, <2>2 DEF Hands, Typed, links
<1>5. Callers'
  <2>1. /\ replies'[h.of].ready + replies'[h.of].held > 0
        /\ replies'[h.of].held = replies[h.of].held
        /\ \A c \in Calls : c # h.of => replies'[c] = replies[c]
    BY <1>0, <1>1 DEF Typed
  <2>2. Replied(h.of)' /\ \A c \in Calls : c # h.of => (Replied(c)' <=> Replied(c))
    BY <1>1, <2>1 DEF Replied
  <2>3. AnswerIsOwn'
    BY <1>0, <1>1 DEF Callers, AnswerIsOwn
  <2>4. ASSUME NEW d \in Calls
        PROVE  /\ Replied(d)' => worked'[d] > 0
               /\ replies'[d].held > 0 => listening' \ {d} # {}
               /\ call'[d] = "waiting" => msg'[d] \in {"ready", "unacked"} \/ Replied(d)'
               /\ msg'[d] = "acked" => worked'[d] > 0
    BY <1>0, <1>1, <1>3, <2>1, <2>2 DEF Callers
  <2>5. ASSUME NEW g \in handlers', g.pc = "replied", call'[g.of] = "waiting"
        PROVE  Replied(g.of)'
    <3>1. CASE g \in handlers
      <4>1. g.of \in Calls /\ Replied(g.of)
        BY <1>0, <1>1, <2>5, <3>1 DEF Callers, Hands, Hand
      <4>. QED
        BY <2>2, <4>1
    <3>2. CASE g.of = h.of
      BY <2>2, <3>2
    <3>. QED
      BY <1>2, <3>1, <3>2
  <2>. QED
    BY <2>3, <2>4, <2>5 DEF Callers
<1>6. Blamed'
  <2>1. \A g \in handlers' : \E f \in handlers : K(f) = K(g) /\ (Stray(g)' => Stray(f))
    BY <1>1, <1>2 DEF Stray, Current, K
  <2>2. \A k \in Consumers : Astray(k)' => Astray(k)
    BY <1>1, <2>1 DEF Astray, K
  <2>3. \A j \in Jobs : Underway(j) => Underway(j)'
    BY <1>1, <1>2 DEF Underway
  <2>4. /\ \A k \in Consumers : Astray(k)' => faults' > 0
        /\ \A k, l \in Consumers : k # l /\ Astray(k)' /\ Astray(l)' => faults' > 1
    BY <1>0, <1>1, <2>2 DEF Blamed
  <2>5. \A j \in Jobs : msg'[j] = "acked" => worked'[j] > 0 \/ Underway(j)' \/ faults' > 1
    BY <1>0, <1>1, <2>3 DEF Blamed
  <2>6. faults' = 0 =>
          /\ \A m \in Messages : worked'[m] <= 1
          /\ \A m \in Messages : msg'[m] \in {"unsent", "ready", "lost"} => worked'[m] = 0
          /\ \A g \in handlers' : g.pc = "taken" => worked'[g.of] = 0
    BY <1>0, <1>1, <1>2 DEF Blamed
  <2>. QED
    BY <2>4, <2>5, <2>6 DEF Blamed
<1>. QED
  BY <1>4, <1>5, <1>6 DEF IInv

LEMMA AckRequestInv == ASSUME IInv, NEW h \in handlers, AckRequest(h) PROVE IInv'
<1>0. Hands /\ Callers /\ Blamed /\ Typed /\ Hand(h) /\ handlers \subseteq Handlers
  BY DEF IInv, Hands, Typed
<1>1. /\ h.pc = "replied" /\ Current(h) /\ handlers' = handlers \ {h} /\ Move(h.of, "acked")
      /\ UNCHANGED <<caller, worked, links, tags, faults>>
  BY DEF AckRequest
<1>2. h.of \in Calls /\ h.of \in Messages /\ worked[h.of] > 0
  BY <1>0, <1>1, Kinds DEF Hand
<1>3. /\ msg' \in [Messages -> Places] /\ msg'[h.of] = "acked"
      /\ \A m \in Messages : m # h.of => msg'[m] = msg[m]
  BY <1>0, <1>1, <1>2, Moved DEF Typed, Places
<1>4. Hands'
  <2>1. /\ \A g \in handlers' : Hand(g)'
        /\ Distinct' /\ InHand' /\ handlers' \subseteq Handlers
    <3>1. \A m \in Messages : msg'[m] = msg[m] \/ (msg[m] # "unsent" /\ msg'[m] = "acked")
      BY <1>0, <1>3 DEF Hand
    <3>. QED
      BY <1>0, <1>1, <1>3, <3>1, LeaveHands
  <2>. QED
    BY <1>0, <1>1, <1>3, <2>1 DEF Hands, Typed, caller, links
<1>5. Callers'
  <2>1. \A m \in Messages : worked'[m] \in Nat /\ worked'[m] >= worked[m]
    BY <1>0, <1>1 DEF Typed
  <2>2. \A c \in Calls : msg[c] \in {"ready", "unacked"} =>
          msg'[c] \in {"ready", "unacked"} \/ (call[c] = "waiting" => Replied(c))
    BY <1>0, <1>1, <1>3, Kinds DEF Callers
  <2>3. \A c \in Calls : msg'[c] = "acked" => msg[c] = "acked" \/ worked[c] > 0
    BY <1>2, <1>3, Kinds
  <2>4. \A g \in handlers' : g.pc = "replied" => \E f \in handlers : f.pc = "replied" /\ f.of = g.of
    BY <1>1
  <2>. QED
    BY <1>0, <1>1, <2>1, <2>2, <2>3, <2>4, MessagesCallers
<1>6. Blamed'
  <2>1. \A g \in handlers' : g \in handlers /\ g.of \in Messages /\ (Stray(g)' => Stray(g))
    BY <1>0, <1>1, <1>2, <1>3 DEF Stray, Current, Handlers
  <2>2. \A j \in Jobs : msg'[j] = msg[j] /\ worked'[j] = worked[j]
    BY <1>1, <1>2, <1>3, Kinds
  <2>3. \A k \in Consumers : Astray(k)' => Astray(k)
    BY <2>1, <2>2 DEF Astray, K
  <2>4. \A j \in Jobs : Underway(j) => Underway(j)'
    BY <1>1 DEF Underway
  <2>5. /\ \A k \in Consumers : Astray(k)' => faults' > 0
        /\ \A k, l \in Consumers : k # l /\ Astray(k)' /\ Astray(l)' => faults' > 1
    BY <1>0, <1>1, <2>3 DEF Blamed
  <2>6. \A j \in Jobs : msg'[j] = "acked" => worked'[j] > 0 \/ Underway(j)' \/ faults' > 1
    BY <1>0, <1>1, <2>2, <2>4 DEF Blamed
  <2>7. faults' = 0 =>
          /\ \A m \in Messages : worked'[m] <= 1
          /\ \A m \in Messages : msg'[m] \in {"unsent", "ready", "lost"} => worked'[m] = 0
          /\ \A g \in handlers' : g.pc = "taken" => worked'[g.of] = 0
    BY <1>0, <1>1, <1>3 DEF Blamed
  <2>. QED
    BY <2>5, <2>6, <2>7 DEF Blamed
<1>. QED
  BY <1>4, <1>5, <1>6 DEF IInv

-----------------------------------------------------------------------------
(***************************************************************************)
(* Acknowledgements of jobs and events.                                     *)
(***************************************************************************)
\* Without a channel, or with its tag outstanding.
LEMMA AckOnChannelInv ==
  ASSUME IInv, NEW h \in handlers,
         h.pc = "worked", h.of \notin Calls, handlers' = handlers \ {h},
         UNCHANGED <<caller, worked, links, tags, faults>>,
         \/ ~link[K(h)] /\ UNCHANGED msg
         \/ \E d \in Tagged(h) : Move(d.of, "acked")
  PROVE  IInv'
<1>0. Hands /\ Callers /\ Blamed /\ Typed /\ Hand(h) /\ handlers \subseteq Handlers
  BY DEF IInv, Hands, Typed
<1>1. h.of \in Messages /\ K(h) \in Consumers /\ worked[h.of] > 0
  BY <1>0, Kinds DEF Hand, Handlers, K
\* What is acknowledged is the message of h, or that of a handler that h wrongs.
<1>2. /\ msg' \in [Messages -> Places]
      /\ \/ ~Current(h) /\ UNCHANGED msg
         \/ \E d \in handlers :
              /\ d.of \in Messages /\ d.of \notin Calls /\ K(d) = K(h) /\ Current(d)
              /\ msg[d.of] = "unacked" /\ msg'[d.of] = "acked"
              /\ \A m \in Messages : m # d.of => msg'[m] = msg[m]
              /\ d # h => Stray(h)
  <2>1. CASE ~link[K(h)] /\ UNCHANGED msg
    BY <1>0, <2>1 DEF Hand, Typed
  <2>2. CASE \E d \in Tagged(h) : Move(d.of, "acked")
    <3>1. PICK d \in Tagged(h) : Move(d.of, "acked")
      BY <2>2
    <3>2. /\ d \in handlers /\ d.of \in Messages /\ K(d) = K(h) /\ d.tag = h.tag
          /\ Current(d) /\ msg[d.of] = "unacked"
      BY <1>0, <3>1 DEF Tagged, K, Handlers
    <3>3. d.of \notin Calls
      BY <1>1, <3>2, Kinds DEF K, Messages
    <3>4. /\ msg' \in [Messages -> Places] /\ msg'[d.of] = "acked"
          /\ \A m \in Messages : m # d.of => msg'[m] = msg[m]
      BY <1>0, <3>1, <3>2, Moved DEF Typed, Places
    <3>5. d # h => Stray(h)
      BY <1>0, <3>2 DEF Hands, Distinct, Stray
    <3>. QED
      BY <3>2, <3>3, <3>4, <3>5
  <2>. QED
    BY <2>1, <2>2
<1>3. \A m \in Messages : msg'[m] = msg[m] \/ (msg[m] # "unsent" /\ msg'[m] = "acked" /\ m \notin Calls)
  BY <1>2
<1>4. Hands'
  <2>1. Current(h) => msg'[h.of] # "unacked"
    <3>. SUFFICES ASSUME Current(h) PROVE msg'[h.of] # "unacked"
      OBVIOUS
    <3>1. PICK d \in handlers :
            /\ msg[d.of] = "unacked" /\ msg'[d.of] = "acked"
            /\ \A m \in Messages : m # d.of => msg'[m] = msg[m]
            /\ d # h => Stray(h)
      BY <1>2
    <3>2. CASE d = h
      BY <3>1, <3>2
    <3>3. CASE Stray(h)
      BY <1>1, <3>1, <3>3 DEF Stray
    <3>. QED
      BY <3>1, <3>2, <3>3
  <2>2. /\ \A g \in handlers' : Hand(g)'
        /\ Distinct' /\ InHand' /\ handlers' \subseteq Handlers
    BY <1>0, <1>2, <1>3, <2>1, LeaveHands
  <2>. QED
    BY <1>0, <1>2, <2>2 DEF Hands, Typed, caller, links
<1>5. Callers'
  <2>1. \A m \in Messages : worked'[m] \in Nat /\ worked'[m] >= worked[m]
    BY <1>0 DEF Typed
  <2>2. \A c \in Calls : msg'[c] = msg[c]
    BY <1>3, Kinds
  <2>3. \A g \in handlers' : g.pc = "replied" => \E f \in handlers : f.pc = "replied" /\ f.of = g.of
    OBVIOUS
  <2>. QED
    BY <1>0, <2>1, <2>2, <2>3, MessagesCallers
<1>6. Blamed'
  <2>0. \A m \in Messages : worked[m] \in Nat
    BY <1>0 DEF Typed
\* Whoever is astray now was before, or is wronged by h, which was.
  <2>1. ASSUME NEW k \in Consumers, Astray(k)' PROVE Astray(k)
    <3>1. CASE \E g \in handlers' : K(g) = k /\ Stray(g)'
      <4>1. PICK g \in handlers' : K(g) = k /\ Stray(g)'
        BY <3>1 DEF K
      <4>2. g \in handlers /\ g # h /\ g.of \in Messages
        BY <1>0 DEF Handlers
      <4>3. CASE Stray(g)
        BY <4>1, <4>2, <4>3 DEF Astray
      <4>4. CASE ~Stray(g)
        <5>1. Current(g) /\ msg'[g.of] = "acked" /\ msg[g.of] # "acked"
          BY <4>1, <4>4 DEF Stray, Current
        <5>2. PICK d \in handlers :
                /\ d.of = g.of /\ Current(d) /\ K(d) = K(h)
                /\ d # h => Stray(h)
          BY <1>2, <4>2, <5>1
        <5>3. d = g
          BY <1>0, <4>2, <5>1, <5>2 DEF Hands, Distinct
        <5>. QED
          BY <4>1, <4>2, <5>2, <5>3 DEF Astray
      <4>. QED
        BY <4>3, <4>4
    <3>2. CASE \E j \in Jobs : ConsumerOf(j) = k /\ msg'[j] = "acked" /\ worked'[j] = 0
      <4>1. PICK j \in Jobs : ConsumerOf(j) = k /\ msg'[j] = "acked" /\ worked'[j] = 0
        BY <3>2
      <4>2. CASE msg[j] = "acked"
        BY <4>1, <4>2 DEF Astray
      <4>3. CASE msg[j] # "acked"
        <5>1. PICK d \in handlers : d.of = j /\ K(d) = K(h) /\ (d # h => Stray(h))
          BY <1>2, <4>1, <4>3, Kinds
        <5>2. d # h
          BY <1>1, <4>1, <5>1
        <5>. QED
          BY <4>1, <5>1, <5>2 DEF Astray, K
      <4>. QED
        BY <4>2, <4>3
    <3>. QED
      BY <2>1, <3>1, <3>2 DEF Astray
  <2>2. ASSUME NEW j \in Jobs, msg'[j] = "acked", worked'[j] = 0, ~(faults' > 1)
        PROVE  Underway(j)'
    <3>0. j \in Messages
      BY Kinds
    <3>1. PICK f \in handlers : f.of = j /\ f.pc = "taken"
      <4>1. CASE msg[j] = "acked"
        BY <1>0, <2>0, <2>2, <3>0, <4>1 DEF Blamed, Underway
      <4>2. CASE msg[j] # "acked"
        <5>1. PICK d \in handlers : d.of = j
          BY <1>2, <2>2, <3>0, <4>2
        <5>2. d.pc = "taken"
          BY <1>0, <2>2, <5>1 DEF Hands, Hand
        <5>. QED
          BY <5>1, <5>2
      <4>. QED
        BY <4>1, <4>2
    <3>. QED
      BY <3>1 DEF Underway
  <2>3. /\ \A k \in Consumers : Astray(k)' => faults' > 0
        /\ \A k, l \in Consumers : k # l /\ Astray(k)' /\ Astray(l)' => faults' > 1
    BY <1>0, <2>1 DEF Blamed
  <2>4. \A j \in Jobs : msg'[j] = "acked" => worked'[j] > 0 \/ Underway(j)' \/ faults' > 1
    BY <2>0, <2>2, Kinds
  <2>5. faults' = 0 =>
          /\ \A m \in Messages : worked'[m] <= 1
          /\ \A m \in Messages : msg'[m] \in {"unsent", "ready", "lost"} => worked'[m] = 0
          /\ \A g \in handlers' : g.pc = "taken" => worked'[g.of] = 0
    BY <1>0, <1>3 DEF Blamed
  <2>. QED
    BY <2>3, <2>4, <2>5 DEF Blamed
<1>. QED
  BY <1>4, <1>5, <1>6 DEF IInv

\* A connection ends: only its own consumer can come to be astray.
LEMMA DisconnectInv ==
  ASSUME IInv, NEW k \in Consumers, NEW hands, hands \subseteq handlers,
         \A h \in handlers \ hands : K(h) = k /\ h.pc # "taken",
         Disconnect(k, hands), UNCHANGED <<caller, worked>>,
         faults' \in 0 .. MaxFaults, faults' >= faults, faults' > 0,
         Astray(k) \/ faults' > faults
  PROVE  IInv'
<1>0. Hands /\ Callers /\ Blamed /\ Typed /\ handlers \subseteq Handlers /\ hands \subseteq Handlers
  BY DEF IInv, Hands, Typed
<1>1. /\ \A h \in handlers' : Hand(h)'
      /\ Distinct' /\ InHand'
      /\ msg' \in [Messages -> Places] /\ handlers' \subseteq Handlers
      /\ link' \in [Consumers -> BOOLEAN] /\ tags' \in [Consumers -> Nat]
      /\ worker' = worker
  BY <1>0, DisconnectHands
<1>2. Hands'
  BY <1>0, <1>1 DEF Hands, Typed, caller
<1>3. /\ \A m \in Messages : msg'[m] = "acked" <=> msg[m] = "acked"
      /\ \A c \in Calls : msg[c] \in {"ready", "unacked"} => msg'[c] \in {"ready", "unacked"}
  <2>1. msg' = Returned({k}) /\ msg \in [Messages -> Places]
    BY <1>0 DEF Disconnect, Typed
  <2>. QED
    BY <2>1, ReturnedTo
<1>4. /\ \A g \in handlers' :
           \E h \in hands :
             /\ g.of = h.of /\ g.pc = h.pc
             /\ K(h) # k => g = h
      /\ \A h \in hands : \E g \in handlers' : g.of = h.of /\ g.pc = h.pc
  BY <1>0, Aged
<1>5. faults \in Nat /\ faults' \in Nat
  BY <1>0, FaultsAssumption DEF Typed
<1>6. Callers'
  <2>1. \A m \in Messages : worked'[m] \in Nat /\ worked'[m] >= worked[m]
    BY <1>0 DEF Typed
  <2>2. \A g \in handlers' : g.pc = "replied" => \E h \in handlers : h.pc = "replied" /\ h.of = g.of
    BY <1>4
  <2>3. \A c \in Calls : msg'[c] = "acked" => msg[c] = "acked"
    BY <1>3, Kinds
  <2>. QED
    BY <1>0, <1>3, <2>1, <2>2, <2>3, MessagesCallers
<1>7. Blamed'
  <2>1. ASSUME NEW l \in Consumers, l # k, Astray(l)' PROVE Astray(l)
    <3>1. CASE \E g \in handlers' : K(g) = l /\ Stray(g)'
      <4>1. PICK g \in handlers' : K(g) = l /\ Stray(g)'
        BY <3>1 DEF K
      <4>2. PICK h \in hands : g.of = h.of /\ (K(h) # k => g = h)
        BY <1>4
      <4>3. g \in handlers /\ g.of \in Messages
        BY <1>0, <2>1, <4>1, <4>2 DEF K, Handlers
      <4>4. Stray(g)
        BY <1>3, <4>1, <4>3 DEF Stray, Current
      <4>. QED
        BY <4>1, <4>3, <4>4 DEF Astray
    <3>2. CASE \E j \in Jobs : ConsumerOf(j) = l /\ msg'[j] = "acked" /\ worked'[j] = 0
      BY <1>3, <3>2, Kinds DEF Astray
    <3>. QED
      BY <2>1, <3>1, <3>2 DEF Astray
  <2>2. ASSUME NEW l \in Consumers, NEW n \in Consumers, l # n, Astray(l)', Astray(n)'
        PROVE  faults' > 1
    <3>1. PICK o \in {l, n} : o # k
      BY <2>2
    <3>2. Astray(o) /\ o \in Consumers
      BY <2>1, <2>2, <3>1
    <3>3. CASE Astray(k)
      BY <1>0, <1>5, <3>1, <3>2, <3>3 DEF Blamed
    <3>4. CASE faults' > faults
      BY <1>0, <1>5, <3>2, <3>4 DEF Blamed
    <3>. QED
      BY <3>3, <3>4
  <2>3. ASSUME NEW j \in Jobs, msg'[j] = "acked"
        PROVE  worked'[j] > 0 \/ Underway(j)' \/ faults' > 1
    <3>1. worked[j] > 0 \/ Underway(j) \/ faults > 1
      BY <1>0, <1>3, <2>3, Kinds DEF Blamed
    <3>2. Underway(j) => Underway(j)'
      BY <1>4 DEF Underway
    <3>. QED
      BY <1>5, <3>1, <3>2
  <2>. QED
    BY <1>5, <2>2, <2>3 DEF Blamed
<1>. QED
  BY <1>2, <1>6, <1>7 DEF IInv

LEMMA AckInv == ASSUME IInv, NEW h \in handlers, Ack(h) PROVE IInv'
<1>0. Hands /\ Blamed /\ Typed /\ Hand(h) /\ h \in Handlers
  BY DEF IInv, Hands, Typed
<1>1. /\ h.pc = "worked" /\ h.of \notin Calls /\ UNCHANGED <<caller, worked, faults>>
      /\ h.of \in Messages /\ K(h) \in Consumers
  BY <1>0, Kinds DEF Ack, Handlers, K
<1>2. CASE ~link[K(h)] /\ handlers' = handlers \ {h} /\ UNCHANGED <<msg, links, tags>>
  BY <1>1, <1>2, AckOnChannelInv
<1>3. CASE /\ \E d \in Tagged(h) : Move(d.of, "acked")
           /\ handlers' = handlers \ {h} /\ UNCHANGED <<links, tags>>
  BY <1>1, <1>3, AckOnChannelInv
<1>4. CASE Tagged(h) = {} /\ Disconnect(K(h), handlers \ {h})
  <2>1. Stray(h)
    <3>. SUFFICES ASSUME Current(h) PROVE msg[h.of] = "acked"
      BY <1>1 DEF Stray
    <3>1. msg[h.of] # "unacked"
      BY <1>4 DEF Tagged
    <3>. QED
      BY <1>0, <3>1 DEF Hand
  <2>2. Astray(K(h)) /\ faults > 0
    BY <1>0, <1>1, <2>1 DEF Astray, Blamed
  <2>3. faults' \in 0 .. MaxFaults /\ faults' >= faults /\ faults' > 0
    BY <1>0, <1>1, <2>2, Counted DEF Typed
  <2>4. \A g \in handlers \ (handlers \ {h}) : K(g) = K(h) /\ g.pc # "taken"
    BY <1>1
  <2>. QED
    BY <1>1, <1>4, <2>2, <2>3, <2>4, DisconnectInv
<1>. QED
  BY <1>2, <1>3, <1>4 DEF Ack, K

-----------------------------------------------------------------------------
(***************************************************************************)
(* Faults.                                                                  *)
(***************************************************************************)
LEMMA LoseLinkInv == ASSUME IInv, NEW k \in Consumers, LoseLink(k) PROVE IInv'
<1>0. Typed
  BY DEF IInv, Hands
<1>1. Disconnect(k, handlers) /\ UNCHANGED <<caller, worked>> /\ Fault
  BY DEF LoseLink
<1>2. faults \in Nat /\ faults' \in 0 .. MaxFaults /\ faults' = faults + 1
  BY <1>0, <1>1, Counted
<1>3. faults' >= faults /\ faults' > 0 /\ faults' > faults
  BY <1>2
<1>. QED
  BY <1>1, <1>2, <1>3, DisconnectInv

\* The worker process ends, by a failure or over a closed channel.
LEMMA EndInv == ASSUME IInv, WorkerEnds \/ \E h \in handlers : HandlerThrows(h) PROVE IInv'
<1>0. Hands /\ Callers /\ Blamed /\ Typed /\ handlers \subseteq Handlers
  BY DEF IInv, Hands, Typed
<1>1. EndProcess /\ UNCHANGED <<caller, worked>> /\ handlers' = {}
  BY DEF WorkerEnds, HandlerThrows, EndProcess
<1>2. /\ faults \in Nat /\ faults' \in 0 .. MaxFaults /\ faults' > 0
      /\ \A k \in Consumers : Astray(k) /\ k = "receiver" => faults' > 1
  <2>1. CASE WorkerEnds
    <3>1. Fault
      BY <2>1 DEF WorkerEnds
    <3>. QED
      BY <1>0, <3>1, Counted DEF Blamed
  <2>2. CASE \E h \in handlers : HandlerThrows(h)
    <3>1. PICK h \in handlers : HandlerThrows(h)
      BY <2>2
    <3>2. Astray("replier") /\ "replier" \in Consumers /\ faults' = faults
      BY <3>1, Kinds DEF HandlerThrows, Astray, Stray, K, Consumers
    <3>3. faults \in Nat /\ faults \in 0 .. MaxFaults
      BY <1>0, Counted DEF Typed
    <3>. QED
      BY <1>0, <3>2, <3>3 DEF Blamed
  <2>. QED
    BY <2>1, <2>2
<1>3. Hands'
  <2>1. /\ \A h \in handlers' : Hand(h)'
        /\ Distinct' /\ InHand'
        /\ msg' \in [Messages -> Places] /\ handlers' \subseteq Handlers
        /\ link' \in [Consumers -> BOOLEAN] /\ tags' \in [Consumers -> Nat]
        /\ worker' \in BOOLEAN
    BY <1>0, <1>1, EndHands
  <2>. QED
    BY <1>0, <1>1, <1>2, <2>1 DEF Hands, Typed, caller
<1>4. /\ \A m \in Messages : msg'[m] = "acked" <=> msg[m] = "acked"
      /\ \A c \in Calls : msg[c] \in {"ready", "unacked"} => msg'[c] \in {"ready", "unacked"}
  <2>1. msg' = Returned(Consumers) /\ msg \in [Messages -> Places]
    BY <1>0, <1>1 DEF EndProcess, Typed
  <2>. QED
    BY <2>1, ReturnedTo
<1>5. Callers'
  <2>1. \A m \in Messages : worked'[m] \in Nat /\ worked'[m] >= worked[m]
    BY <1>0, <1>1 DEF Typed
  <2>2. \A c \in Calls : msg'[c] = "acked" => msg[c] = "acked"
    BY <1>4, Kinds
  <2>. QED
    BY <1>0, <1>1, <1>4, <2>1, <2>2, MessagesCallers
<1>6. Blamed'
  <2>0. \A j \in Jobs : j \in Messages /\ worked[j] \in Nat /\ ConsumerOf(j) = "receiver"
    BY <1>0, Kinds DEF Typed
  <2>1. ASSUME NEW j \in Jobs, msg'[j] = "acked", worked'[j] = 0 PROVE faults' > 1
    <3>1. msg[j] = "acked" /\ worked[j] = 0 /\ "receiver" \in Consumers
      BY <1>1, <1>4, <2>0, <2>1 DEF Consumers
    <3>2. Astray("receiver")
      BY <2>0, <3>1 DEF Astray
    <3>. QED
      BY <1>2, <3>1, <3>2
  <2>2. \A k \in Consumers : Astray(k)' => faults' > 1
    BY <1>1, <2>1 DEF Astray
  <2>3. \A j \in Jobs : msg'[j] = "acked" => worked'[j] > 0 \/ faults' > 1
    BY <1>1, <2>0, <2>1
  <2>. QED
    BY <1>2, <2>2, <2>3 DEF Blamed
<1>. QED
  BY <1>3, <1>5, <1>6 DEF IInv

\* Replies go back to the queue, and none is lost.
LEMMA RequeuedKeeps ==
  ASSUME Typed, replies' = Requeued
  PROVE  /\ replies' \in [Calls -> [ready : Nat, held : Nat]]
         /\ \A c \in Calls :
              /\ replies'[c].held = 0
              /\ replies'[c].ready + replies'[c].held = replies[c].ready + replies[c].held
BY DEF Typed, Requeued

\* The connection of the callers ends, and with it perhaps their process.
LEMMA SenderInv == ASSUME IInv, SenderReconnects \/ SenderEnds PROVE IInv'
<1>0. Hands /\ Callers /\ Blamed /\ Typed
  BY DEF IInv, Hands
<1>1. /\ replies' = Requeued /\ UNCHANGED <<answer, msg, worked, handlers, links, tags>> /\ Fault
      /\ listening' \subseteq listening
      /\ call' \in [Calls -> {"idle", "waiting", "resolved", "gone"}]
      /\ \A c \in Calls :
           /\ call'[c] = "waiting" => call[c] = "waiting"
           /\ call'[c] = "resolved" => call[c] = "resolved"
  BY <1>0 DEF SenderReconnects, SenderEnds, Typed
<1>2. /\ replies' \in [Calls -> [ready : Nat, held : Nat]]
      /\ \A c \in Calls : replies'[c].held = 0 /\ (Replied(c)' <=> Replied(c))
  BY <1>0, <1>1, RequeuedKeeps DEF Replied
<1>3. faults' \in 0 .. MaxFaults /\ faults' = faults + 1
  BY <1>0, <1>1, Counted
<1>4. Hands'
  <2>1. (\A h \in handlers' : Hand(h)') /\ Distinct' /\ InHand'
    <3>1. \A k \in Consumers : link[k] => link'[k]
      BY <1>1 DEF links
    <3>. QED
      BY <1>0, <1>1, <3>1, AsideHands
  <2>2. Typed'
    BY <1>0, <1>1, <1>2, <1>3 DEF Typed, links
  <2>. QED
    BY <2>1, <2>2 DEF Hands
<1>5. Callers'
  <2>1. \A h \in handlers : h.pc = "replied" => h.of \in Calls
    BY <1>0 DEF Hands, Hand
  <2>2. AnswerIsOwn'
    BY <1>0, <1>1 DEF Callers, AnswerIsOwn
  <2>3. ASSUME NEW d \in Calls
        PROVE  /\ Replied(d)' => worked'[d] > 0
               /\ replies'[d].held > 0 => listening' \ {d} # {}
               /\ call'[d] = "waiting" => msg'[d] \in {"ready", "unacked"} \/ Replied(d)'
               /\ msg'[d] = "acked" => worked'[d] > 0
    BY <1>0, <1>1, <1>2 DEF Callers
  <2>4. \A h \in handlers' : h.pc = "replied" /\ call'[h.of] = "waiting" => Replied(h.of)'
    BY <1>0, <1>1, <1>2, <2>1 DEF Callers
  <2>. QED
    BY <2>2, <2>3, <2>4 DEF Callers
<1>6. Blamed'
  BY <1>0, <1>1, <1>3, FaultBlamed
<1>. QED
  BY <1>4, <1>5, <1>6 DEF IInv

-----------------------------------------------------------------------------
LEMMA StepInv == IInv /\ [Next]_vars => IInv'
<1>. SUFFICES ASSUME IInv, [Next]_vars PROVE IInv'
  OBVIOUS
<1>1. CASE \E c \in Calls : SendAsync(c) \/ DeliverReply(c)
  BY <1>1, SendAsyncInv, ResolveInv, HoldReplyInv DEF DeliverReply
<1>2. CASE (\E j \in Jobs : SendJob(j)) \/ (\E e \in Events : PublishAsync(e))
  BY <1>2, SendJobInv, PublishAsyncInv
<1>3. CASE \E m \in Messages : Handle(m)
  <2>1. CASE \E m \in Messages : Consume(m)
    BY <2>1, ConsumeInv
  <2>2. CASE \E h \in handlers : Proceed(h)
    BY <2>2, OnMessageInv, ReplyInv, AckRequestInv, EndInv, AckInv DEF Proceed
  <2>. QED
    BY <1>3, <2>1, <2>2 DEF Handle
<1>4. CASE RunWorkers \/ \E k \in Consumers : Reconnect(k)
  BY <1>4, ConnectInv
<1>5. CASE WorkerEnds \/ (\E k \in Consumers : LoseLink(k)) \/ SenderReconnects \/ SenderEnds
  BY <1>5, EndInv, LoseLinkInv, SenderInv
<1>6. CASE UNCHANGED vars
  BY <1>6
     DEF vars, caller, links, IInv, Hands, Typed, Hand, Distinct, InHand, Current, K,
         Callers, Replied, AnswerIsOwn, Blamed, Astray, Stray, Underway
<1>. QED
  BY <1>1, <1>2, <1>3, <1>4, <1>5, <1>6 DEF Next

LEMMA Invariance == Spec => []IInv
BY InitInv, StepInv, PTL DEF Spec

-----------------------------------------------------------------------------
\* Every variable has its type, and what waits to be acknowledged is in the hands
\* of a handler on the channel it came from, in every reachable state.
THEOREM TypeCorrect == Spec => []TypeOK
<1>1. IInv => TypeOK
  BY DEF IInv, Hands, InHand, TypeOK
<1>. QED
  BY <1>1, Invariance, PTL

\* A caller gets only the reply to its own request, and only after the work:
\* for any number of callers on one reply queue.
THEOREM OwnAnswer == Spec => []AnswerIsOwn
<1>1. IInv => AnswerIsOwn
  BY DEF IInv, Callers
<1>. QED
  BY <1>1, Invariance, PTL

\* A waiting caller's request or its reply is never lost, whatever fails, and
\* its reply is held only by the consumer of another call.
THEOREM CallsKept == Spec => []NoCallLost
<1>1. IInv => NoCallLost
  BY DEF IInv, Callers, Replied, NoCallLost
<1>. QED
  BY <1>1, Invariance, PTL

\* The queues have run empty: the safety part of QueuesRunEmpty and AnsweredOrHeld.
QueuesEmpty ==
  /\ \A c \in Calls : msg[c] \in {"unsent", "acked"}
  /\ \A c \in Calls : replies[c].ready = 0

\* When the queues are empty a caller that still waits has its reply held by the
\* consumer of another call, and a caller that is alone does not wait: nothing
\* else keeps an answer back.
OnlyHeldWait ==
  QueuesEmpty =>
    \A c \in Calls :
      call[c] = "waiting" => replies[c].held > 0 /\ \E k \in Calls \ {c} : k \in listening

\* Whatever failed on the way, empty queues leave nobody waiting but those whose
\* replies are in the wrong hands.
THEOREM EmptyQueues == Spec => []OnlyHeldWait
<1>1. IInv => OnlyHeldWait
  <2>. SUFFICES ASSUME IInv, QueuesEmpty, NEW c \in Calls, call[c] = "waiting"
                PROVE  replies[c].held > 0 /\ \E k \in Calls \ {c} : k \in listening
    BY DEF OnlyHeldWait
  <2>1. replies[c].ready + replies[c].held > 0
    BY DEF IInv, Callers, Replied, QueuesEmpty
  <2>2. replies[c].held > 0
    BY <2>1 DEF QueuesEmpty, IInv, Hands, Typed
  <2>. QED
    BY <2>2 DEF IInv, Hands, Typed, Callers
<1>. QED
  BY <1>1, Invariance, PTL

\* What has left its queue was worked on, or is about to be: an acknowledgement on
\* the wrong channel loses a job only after two failures.
THEOREM AtLeastOnce == Spec => []WorkedAsSent
<1>1. IInv => WorkedAsSent
  <2>. SUFFICES ASSUME IInv PROVE WorkedAsSent
    OBVIOUS
  <2>1. faults \in Nat /\ \A m \in Messages : worked[m] \in Nat
    BY Counted DEF IInv, Hands, Typed
  <2>. QED
    BY <2>1 DEF IInv, Callers, Blamed, WorkedAsSent
<1>. QED
  BY <1>1, Invariance, PTL

-----------------------------------------------------------------------------
(***************************************************************************)
(* Request and reply implements RemoteCall.                                 *)
(***************************************************************************)
\* Requests on their way were made, consumers belong to calls of the process
\* that lives, and answers to resolved calls.
Linked(c) ==
  /\ call[c] = "idle" => msg[c] = "unsent"
  /\ c \in listening => call[c] \in {"waiting", "resolved"}
  /\ call[c] # "resolved" => answer[c] = NoAnswer

LEMMA InitLinked == Init => \A c \in Calls : Linked(c)
BY DEF Init, Linked, Messages

\* No step but the sending of it makes a message sent, and none unsent.
LEMMA SentStays ==
  ASSUME IInv, NEW c \in Calls,
         \/ \E j \in Jobs : SendJob(j)
         \/ \E e \in Events : PublishAsync(e)
         \/ \E m \in Messages : Handle(m)
         \/ \E k \in Consumers : Reconnect(k) \/ LoseLink(k)
         \/ RunWorkers \/ WorkerEnds
  PROVE  UNCHANGED <<call, answer, listening>> /\ (msg'[c] = "unsent" <=> msg[c] = "unsent")
<1>0. Hands /\ Typed /\ handlers \subseteq Handlers /\ c \in Messages /\ msg \in [Messages -> Places]
  BY Kinds DEF IInv, Hands, Typed
<1>1. ASSUME NEW m \in Jobs \cup Events, NEW to, Move(m, to) PROVE msg'[c] = msg[c]
  BY <1>0, <1>1, Kinds DEF Move
<1>2. ASSUME NEW m \in Messages, msg[m] # "unsent", NEW to, to # "unsent", Move(m, to)
      PROVE  msg'[c] = "unsent" <=> msg[c] = "unsent"
  BY <1>0, <1>2 DEF Move
<1>3. ASSUME NEW gone, msg' = Returned(gone)
      PROVE  msg'[c] = "unsent" <=> msg[c] = "unsent"
  BY <1>0, <1>3, ReturnedTo
<1>4. CASE (\E j \in Jobs : SendJob(j)) \/ (\E e \in Events : PublishAsync(e))
  BY <1>1, <1>4 DEF SendJob, PublishAsync, caller
<1>5. CASE \E m \in Messages : Consume(m)
  BY <1>2, <1>5 DEF Consume, caller
<1>6. CASE \E h \in handlers : Proceed(h)
  <2>1. PICK h \in handlers : Proceed(h)
    BY <1>6
  <2>2. h.of \in Messages /\ msg[h.of] # "unsent"
    BY <1>0 DEF Hands, Hand, Handlers
  <2>3. CASE OnMessage(h)
    BY <2>3 DEF OnMessage, caller
  <2>4. CASE Reply(h)
    BY <2>4 DEF Reply, caller
  <2>5. CASE AckRequest(h)
    BY <1>2, <2>2, <2>5 DEF AckRequest, caller
  <2>6. CASE HandlerThrows(h)
    BY <1>3, <2>6 DEF HandlerThrows, EndProcess, caller
  <2>7. CASE Ack(h)
    <3>1. CASE UNCHANGED msg
      BY <2>7, <3>1 DEF Ack, caller
    <3>2. CASE \E d \in Tagged(h) : Move(d.of, "acked")
      <4>1. PICK d \in Tagged(h) : Move(d.of, "acked")
        BY <3>2
      <4>2. d.of \in Messages /\ msg[d.of] # "unsent"
        BY <1>0, <4>1 DEF Tagged, Handlers
      <4>. QED
        BY <1>2, <2>7, <4>1, <4>2 DEF Ack, caller
    <3>3. CASE Disconnect(ConsumerOf(h.of), handlers \ {h})
      BY <1>3, <2>7, <3>3 DEF Ack, Disconnect, caller
    <3>. QED
      BY <2>7, <3>1, <3>2, <3>3 DEF Ack, caller
  <2>. QED
    BY <2>1, <2>3, <2>4, <2>5, <2>6, <2>7 DEF Proceed
<1>7. CASE RunWorkers \/ \E k \in Consumers : Reconnect(k)
  BY <1>7 DEF RunWorkers, Reconnect, caller
<1>8. CASE WorkerEnds \/ \E k \in Consumers : LoseLink(k)
  BY <1>3, <1>8 DEF WorkerEnds, EndProcess, LoseLink, Disconnect, caller
<1>. QED
  BY <1>4, <1>5, <1>6, <1>7, <1>8 DEF Handle

LEMMA NextLinked ==
  ASSUME IInv, Next, NEW c \in Calls, Linked(c)
  PROVE  Linked(c)'
<1>0. Typed /\ c \in Messages
  BY Kinds DEF IInv, Hands
<1>1. ASSUME NEW d \in Calls, SendAsync(d) PROVE Linked(c)'
  <2>1. d # c => msg'[c] = msg[c] /\ call'[c] = call[c]
    BY <1>0, <1>1 DEF SendAsync, Move, Typed
  <2>2. d = c => call'[c] = "waiting"
    BY <1>0, <1>1 DEF SendAsync, Typed
  <2>3. answer' = answer /\ listening' = listening \cup {d} /\ call[d] = "idle"
    BY <1>1 DEF SendAsync
  <2>. QED
    BY <2>1, <2>2, <2>3 DEF Linked
<1>2. ASSUME NEW d \in Calls, DeliverReply(d) PROVE Linked(c)'
  BY <1>0, <1>2 DEF DeliverReply, Resolve, HoldReply, Linked, Typed
<1>3. CASE SenderReconnects \/ SenderEnds
  BY <1>3 DEF SenderReconnects, SenderEnds, Linked
<1>4. CASE \/ \E j \in Jobs : SendJob(j)
           \/ \E e \in Events : PublishAsync(e)
           \/ \E m \in Messages : Handle(m)
           \/ \E k \in Consumers : Reconnect(k) \/ LoseLink(k)
           \/ RunWorkers \/ WorkerEnds
  BY <1>4, SentStays DEF Linked
<1>. QED
  BY <1>1, <1>2, <1>3, <1>4 DEF Next

\* What RemoteCall sees of the work.
Performed == [c \in Calls |-> worked[c]]

\* Work on requests is the work of RemoteCall, on jobs and events it is nothing.
LEMMA OnMessageMaps ==
  ASSUME IInv, \A c \in Calls : Linked(c), NEW h \in handlers, OnMessage(h)
  PROVE  [Remote!Next]_<<call, answer, Performed>>
<1>0. Typed /\ h.of \in Messages /\ msg[h.of] # "unsent"
  BY DEF IInv, Hands, Hand, Typed, Handlers
<1>1. worked' = [worked EXCEPT ![h.of] = @ + 1] /\ UNCHANGED <<call, answer>>
  BY DEF OnMessage, caller
<1>2. CASE h.of \in Calls
  <2>1. call[h.of] # "idle"
    BY <1>0, <1>2 DEF Linked
  <2>2. Performed' = [Performed EXCEPT ![h.of] = @ + 1]
    BY <1>0, <1>1, <1>2, Kinds DEF Performed, Typed
  <2>3. Remote!Perform(h.of)
    BY <1>1, <2>1, <2>2 DEF Performed, Remote!Perform
  <2>. QED
    BY <1>2, <2>3 DEF Remote!Next
<1>3. CASE h.of \notin Calls
  BY <1>0, <1>1, <1>3, Kinds DEF Performed, Typed
<1>. QED
  BY <1>2, <1>3

\* Every step is one of RemoteCall, or none.
LEMMA NextMaps ==
  ASSUME IInv, \A c \in Calls : Linked(c), Next
  PROVE  [Remote!Next]_(Remote!vars)
<1>0. Typed
  BY DEF IInv, Hands
<1>a. SUFFICES [Remote!Next]_<<call, answer, Performed>>
  BY DEF Remote!vars, Performed
<1>1. ASSUME NEW c \in Calls, SendAsync(c) PROVE Remote!Invoke(c)
  BY <1>1 DEF SendAsync, Remote!Invoke
<1>2. ASSUME NEW c \in Calls, Resolve(c)
      PROVE  Remote!Return(c) \/ UNCHANGED <<call, answer, Performed>>
  <2>1. call[c] \in {"waiting", "resolved"}
    BY <1>2 DEF Resolve, Linked
  <2>2. worked[c] > 0
    <3>1. replies[c].ready + replies[c].held > 0
      BY <1>0, <1>2 DEF Resolve, Typed
    <3>. QED
      BY <3>1 DEF IInv, Callers, Replied
  <2>3. CASE call[c] = "waiting"
    BY <1>2, <2>2, <2>3 DEF Resolve, Remote!Return
  <2>4. CASE call[c] = "resolved"
    <3>1. answer[c] = c
      BY <2>4 DEF IInv, Callers, AnswerIsOwn
    <3>2. call' = call /\ answer' = answer /\ worked' = worked
      BY <1>0, <1>2, <2>4, <3>1 DEF Resolve, Typed
    <3>. QED
      BY <3>2 DEF Performed
  <2>. QED
    BY <2>1, <2>3, <2>4
<1>3. ASSUME SenderEnds PROVE Remote!Vanish
  BY <1>3 DEF SenderEnds, Remote!Vanish
<1>4. ASSUME \/ \E k, c \in Calls : HoldReply(k, c)
             \/ \E m \in Messages : Consume(m)
             \/ \E h \in handlers : Reply(h) \/ AckRequest(h) \/ HandlerThrows(h) \/ Ack(h)
             \/ \E j \in Jobs : SendJob(j)
             \/ \E e \in Events : PublishAsync(e)
             \/ \E k \in Consumers : Reconnect(k) \/ LoseLink(k)
             \/ RunWorkers \/ WorkerEnds \/ SenderReconnects
      PROVE  UNCHANGED <<call, answer, Performed>>
  BY <1>4
     DEF HoldReply, Consume, Reply, AckRequest, HandlerThrows, Ack, SendJob, PublishAsync,
         Reconnect, LoseLink, RunWorkers, WorkerEnds, SenderReconnects, caller, Performed
<1>. QED
  BY <1>1, <1>2, <1>3, <1>4, OnMessageMaps
     DEF Next, DeliverReply, Handle, Proceed, Remote!Next

\* For any number of callers, whatever is lost, delivered twice or late, each
\* call is one remote call: answered once at most, by its own reply.
THEOREM CallsRemote == Spec => CallsAreRemote
<1> DEFINE AllLinked == \A c \in Calls : Linked(c)
<1>1. Init => AllLinked /\ Remote!Init
  BY InitLinked DEF Init, Remote!Init, Messages
<1>2. IInv /\ AllLinked /\ [Next]_vars => AllLinked' /\ [Remote!Next]_(Remote!vars)
  <2> SUFFICES ASSUME IInv, AllLinked, [Next]_vars
               PROVE  AllLinked' /\ [Remote!Next]_(Remote!vars)
    OBVIOUS
  <2>1. CASE UNCHANGED vars
    BY <2>1 DEF vars, caller, Linked, Remote!vars
  <2>. QED
    BY <2>1, NextLinked, NextMaps
<1>. HIDE DEF AllLinked
<1>. QED
  BY <1>1, <1>2, Invariance, PTL DEF Spec, CallsAreRemote, Remote!Spec
=============================================================================
