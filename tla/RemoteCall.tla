------------------------------ MODULE RemoteCall ------------------------------
(***************************************************************************)
(* What request and reply over RabbitMQ promises a caller: its request is   *)
(* worked on only after it was made, perhaps more than once; its promise is *)
(* resolved once, with the reply to its own request and after the work; and *)
(* a caller whose process has ended is never answered.  It does not promise *)
(* that a waiting caller is answered.                                       *)
(***************************************************************************)
EXTENDS Naturals

CONSTANTS
  Calls,    \* requests, with their correlation ids
  NoAnswer  \* the answer of a call that has none

VARIABLES
  call,       \* call[c]: the promise of the caller
  answer,     \* answer[c]: the request whose reply resolved it
  performed   \* performed[c]: how often the work of c was done

vars == <<call, answer, performed>>

Init ==
  /\ call = [c \in Calls |-> "idle"]
  /\ answer = [c \in Calls |-> NoAnswer]
  /\ performed = [c \in Calls |-> 0]

Invoke(c) ==
  /\ call[c] = "idle"
  /\ call' = [call EXCEPT ![c] = "waiting"]
  /\ UNCHANGED <<answer, performed>>

Perform(c) ==
  /\ call[c] # "idle"
  /\ performed' = [performed EXCEPT ![c] = @ + 1]
  /\ UNCHANGED <<call, answer>>

Return(c) ==
  /\ call[c] = "waiting"
  /\ performed[c] > 0
  /\ call' = [call EXCEPT ![c] = "resolved"]
  /\ answer' = [answer EXCEPT ![c] = c]
  /\ UNCHANGED performed

\* The process of the callers ends, and with it whatever waits.
Vanish ==
  /\ call' = [c \in Calls |-> IF call[c] = "waiting" THEN "gone" ELSE call[c]]
  /\ UNCHANGED <<answer, performed>>

Next == (\E c \in Calls : Invoke(c) \/ Perform(c) \/ Return(c)) \/ Vanish

Spec == Init /\ [][Next]_vars
=============================================================================
