------------------------------ MODULE TaskFifo ------------------------------
(***************************************************************************)
(* What one producer's part of the task queue promises its consumers: the  *)
(* elements leave in the order they came, each is handed to exactly one    *)
(* consumer, and a consumer is sent away with nothing only when the queue  *)
(* was empty at some time during its call, or when another consumer was    *)
(* asking at the same time (Queue.h:1097-1098: "the queue is likely but    *)
(* not guaranteed to be empty").                                           *)
(***************************************************************************)
EXTENDS Integers, Sequences

CONSTANTS
  Consumers,
  Elements,
  None

VARIABLES
  queue,    \* elements enqueued and not yet claimed
  asking,   \* consumers inside a call of dequeue
  claimed,  \* the element a consumer will be given, or None
  answer,   \* what a consumer's last call gave it, or None
  excused   \* consumers that may be given nothing

vars == <<queue, asking, claimed, answer, excused>>

Init ==
  /\ queue = <<>>
  /\ asking = {}
  /\ claimed = [c \in Consumers |-> None]
  /\ answer = [c \in Consumers |-> None]
  /\ excused = {}

Enqueue(e) ==
  /\ queue' = Append(queue, e)
  /\ UNCHANGED <<asking, claimed, answer, excused>>

Ask(c) ==
  /\ c \notin asking
  /\ asking' = asking \cup {c}
  /\ answer' = [answer EXCEPT ![c] = None]
  /\ excused' = IF asking # {} \/ queue = <<>> THEN excused \cup asking' ELSE excused \ {c}
  /\ UNCHANGED <<queue, claimed>>

Claim(c) ==
  /\ c \in asking /\ claimed[c] = None
  /\ queue # <<>>
  /\ claimed' = [claimed EXCEPT ![c] = Head(queue)]
  /\ queue' = Tail(queue)
  /\ excused' = IF Len(queue) = 1 THEN excused \cup asking ELSE excused
  /\ UNCHANGED <<asking, answer>>

Deliver(c) ==
  /\ claimed[c] # None
  /\ answer' = [answer EXCEPT ![c] = claimed[c]]
  /\ claimed' = [claimed EXCEPT ![c] = None]
  /\ asking' = asking \ {c}
  /\ UNCHANGED <<queue, excused>>

Refuse(c) ==
  /\ c \in asking /\ claimed[c] = None
  /\ c \in excused
  /\ asking' = asking \ {c}
  /\ UNCHANGED <<queue, claimed, answer, excused>>

Next ==
  \/ \E e \in Elements : Enqueue(e)
  \/ \E c \in Consumers : Ask(c) \/ Claim(c) \/ Deliver(c) \/ Refuse(c)

Spec == Init /\ [][Next]_vars

=============================================================================
