----------------------------- MODULE PriorityQueue -----------------------------
(***************************************************************************)
(* What Os::Queue promises its callers: a bounded bag of messages, from    *)
(* which receive takes one of the highest priority, whole. Each call takes *)
(* effect in one step, however the calls of the main loop and of interrupt *)
(* handlers overlap; what it returns is settled in that step.              *)
(*                                                                         *)
(* IsrSafeQueue implements this specification.                             *)
(***************************************************************************)
EXTENDS Integers

CONSTANTS
  Clients,       \* who calls
  Messages,      \* records with a field priority
  Capacity       \* how many messages the queue holds

VARIABLES
  held,          \* how often each message is in the queue
  count,         \* how many messages are in the queue
  answer,        \* what the call a client returns from has done
  taken          \* the message it has received

vars == <<held, count, answer, taken>>

Empty == [m \in Messages |-> 0]

\* m may be received next.
Highest(m) ==
  /\ held[m] > 0
  /\ \A n \in Messages : held[n] > 0 => n.priority <= m.priority

Init ==
  /\ held = Empty /\ count = 0
  /\ answer = [c \in Clients |-> "none"]
  /\ taken = [c \in Clients |-> {}]

Answer(c, what, messages) ==
  /\ answer[c] = "none"
  /\ answer' = [answer EXCEPT ![c] = what]
  /\ taken' = [taken EXCEPT ![c] = messages]

Send(c, m) ==
  /\ count < Capacity
  /\ held' = [held EXCEPT ![m] = @ + 1] /\ count' = count + 1
  /\ Answer(c, "sent", {})

Full(c) ==
  /\ count = Capacity
  /\ Answer(c, "full", {})
  /\ UNCHANGED <<held, count>>

Receive(c, m) ==
  /\ Highest(m)
  /\ held' = [held EXCEPT ![m] = @ - 1] /\ count' = count - 1
  /\ Answer(c, "received", {m})

Nothing(c) ==
  /\ held = Empty /\ count = 0
  /\ Answer(c, "empty", {})
  /\ UNCHANGED <<held, count>>

Return(c) ==
  /\ answer[c] # "none"
  /\ answer' = [answer EXCEPT ![c] = "none"]
  /\ taken' = [taken EXCEPT ![c] = {}]
  /\ UNCHANGED <<held, count>>

\* The queue is torn down, or created anew, while nobody uses it.
Reset ==
  /\ answer = [c \in Clients |-> "none"]
  /\ held' = Empty /\ count' = 0
  /\ UNCHANGED <<answer, taken>>

Next ==
  \/ \E c \in Clients :
       \/ \E m \in Messages : Send(c, m) \/ Receive(c, m)
       \/ Full(c) \/ Nothing(c) \/ Return(c)
  \/ Reset

Spec == Init /\ [][Next]_vars
================================================================================
