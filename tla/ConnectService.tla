--------------------------- MODULE ConnectService ---------------------------
(***************************************************************************)
(* What MsgHub::connectTo promises: a request to connect is answered once, *)
(* by onConnect or by onConnectFailed, during the call or later.           *)
(***************************************************************************)
CONSTANT Reqs  \* requests, one per call of connectTo

VARIABLE outcome

Answers == {"ok", "failed"}

Init == outcome = [r \in Reqs |-> "idle"]

(* connectTo(r) is called, and may answer before it returns. *)
Ask(r) ==
  /\ outcome[r] = "idle"
  /\ \E a \in Answers \cup {"waiting"} : outcome' = [outcome EXCEPT ![r] = a]

Answer(r) ==
  /\ outcome[r] = "waiting"
  /\ \E a \in Answers : outcome' = [outcome EXCEPT ![r] = a]

Next == \E r \in Reqs : Ask(r) \/ Answer(r)

Spec == Init /\ [][Next]_outcome /\ \A r \in Reqs : WF_outcome(Answer(r))

=============================================================================
