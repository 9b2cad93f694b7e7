------------------------- MODULE ConnectPollerProofs -------------------------
(***************************************************************************)
(* What holds of outgoing connections, for any number of requests and      *)
(* descriptors, any timeout and any period of the check: Inv, that the     *)
(* check runs while a connect is pending, that no socket leaks, and that   *)
(* every step is one of ConnectService's.                                  *)
(***************************************************************************)
EXTENDS ConnectPoller, WellFoundedInduction, TLAPS

-----------------------------------------------------------------------------
(* The inductive invariant *)

(* Each request that waits is in one entry of one map, and nothing else is. *)
HeldOnce ==
  /\ \A f \in Pending : outcome[connectTime[f].req] = "waiting"
  /\ \A f \in DOMAIN rt : outcome[rt[f].req] = "waiting"
  /\ \A f, g \in Pending : connectTime[f].req = connectTime[g].req => f = g
  /\ \A f, g \in DOMAIN rt : rt[f].req = rt[g].req => f = g
  /\ \A f \in Pending, g \in DOMAIN rt : connectTime[f].req # rt[g].req
  /\ \A r \in Reqs : outcome[r] = "waiting" =>
       \/ \E f \in Pending : connectTime[f].req = r
       \/ \E f \in DOMAIN rt : rt[f].req = r

Counted == \A r \in Reqs : told[r] = IF outcome[r] \in {"ok", "failed"} THEN 1 ELSE 0

(* What belongs to a session that will be. *)
Waiting == {fd \in DOMAIN rt : rt[fd].ret = 1}

(* A descriptor is open in exactly one way; in particular, a socket the
   table had no room for never gets a session.                            *)
SocketsOK ==
  \A fd \in Fds :
    /\ sock[fd] # "closed" <=> fd \in Pending \cup Waiting \cup owned \cup lost
    /\ fd \in Pending => fd \notin Waiting \cup owned \cup lost
    /\ fd \in Waiting => fd \notin owned \cup lost
    /\ fd \in owned => fd \notin lost

(* The results are all processed before the next call of getResult. *)
NoneLeft == pc = "app" => DOMAIN rt = {}

IInv ==
  /\ TypeOK
  /\ HeldOnce
  /\ Counted
  /\ TimerWhilePending
  /\ SocketsOK
  /\ NoneLeft

-----------------------------------------------------------------------------
(* What the actions are made of *)

(* Min is the least element of a non-empty set of numbers. *)
LEMMA MinNat ==
  ASSUME NEW S, S \subseteq Nat, S # {}
  PROVE  Min(S) \in S
  <1>1. PICK x \in S : \A y \in S : ~(<<y, x>> \in OpToRel(<, Nat))
    BY WFMin, NatLessThanWellFounded
  <1>2. \A m, n \in Nat : <<m, n>> \in OpToRel(<, Nat) <=> m < n
    BY Zenon DEF OpToRel
  <1>3. \A y \in S : ~(y < x)
    BY <1>1, <1>2, Zenon
  <1>4. x \in S /\ \A y \in S : x <= y
    BY <1>3
  <1> QED BY <1>4 DEF Min

(* A request that had no answer is told one, and no other is. *)
LEMMA TellIs ==
  ASSUME TypeOK, Counted, NEW r \in Reqs, NEW answer \in {"ok", "failed"},
         outcome[r] \in {"idle", "waiting"}, Tell(r, answer)
  PROVE  /\ outcome' \in [Reqs -> {"idle", "waiting", "ok", "failed"}] /\ told' \in [Reqs -> Nat]
         /\ Counted'
         /\ outcome'[r] = answer /\ \A q \in Reqs \ {r} : outcome'[q] = outcome[q]
  <1>1. /\ outcome \in [Reqs -> {"idle", "waiting", "ok", "failed"}] /\ told \in [Reqs -> Nat]
        /\ outcome' = [outcome EXCEPT ![r] = answer] /\ told' = [told EXCEPT ![r] = @ + 1]
    BY DEF TypeOK, Tell
  <1>2. told[r] = 0
    BY DEF Counted
  <1>3. told' = [told EXCEPT ![r] = 1]
    BY <1>1, <1>2
  <1>4. outcome' \in [Reqs -> {"idle", "waiting", "ok", "failed"}] /\ told' \in [Reqs -> Nat]
    BY <1>1, <1>3
  <1>5. outcome'[r] = answer /\ \A q \in Reqs \ {r} : outcome'[q] = outcome[q]
    BY <1>1
  <1>6. told'[r] = 1 /\ \A q \in Reqs \ {r} : told'[q] = told[q]
    BY <1>1, <1>3
  <1> QED BY <1>4, <1>5, <1>6 DEF Counted

(* So does a request whose socket connected. *)
LEMMA AdoptIs ==
  ASSUME TypeOK, Counted, NEW r \in Reqs, NEW fd \in Fds,
         outcome[r] \in {"idle", "waiting"}, Adopt(fd, r)
  PROVE  /\ outcome' \in [Reqs -> {"idle", "waiting", "ok", "failed"}] /\ told' \in [Reqs -> Nat]
         /\ Counted'
         /\ outcome'[r] \in {"ok", "failed"} /\ \A q \in Reqs \ {r} : outcome'[q] = outcome[q]
         /\ \/ owned' = owned \cup {fd} /\ lost' = lost
            \/ owned' = owned /\ lost' = lost \cup {fd}
  <1>1. CASE owned' = owned \cup {fd} /\ Tell(r, "ok") /\ UNCHANGED lost
    BY <1>1, TellIs
  <1>2. CASE Exhausts /\ Tell(r, "failed") /\ lost' = lost \cup {fd} /\ UNCHANGED owned
    BY <1>2, TellIs
  <1> QED BY <1>1, <1>2 DEF Adopt

-----------------------------------------------------------------------------
(* The steps *)

(* connect() fails at once: the caller is told, nothing is kept. *)
LEMMA ConnectFailsStep ==
  ASSUME IInv, NEW r \in Reqs, ConnectFails(r)
  PROVE  IInv'
  <1>1. /\ outcome[r] = "idle" /\ Tell(r, "failed")
        /\ UNCHANGED <<connectTime, resultMap, armed, due, sock, owned, lost, rt, pc>>
    BY DEF ConnectFails, timer, fates
  <1>2. /\ outcome' \in [Reqs -> {"idle", "waiting", "ok", "failed"}] /\ told' \in [Reqs -> Nat]
        /\ Counted'
        /\ outcome'[r] = "failed" /\ \A q \in Reqs \ {r} : outcome'[q] = outcome[q]
    BY <1>1, TellIs DEF IInv
  <1>3. TypeOK'
    BY <1>1, <1>2 DEF IInv, TypeOK, Pending
  <1>4. HeldOnce'
    BY <1>1, <1>2 DEF IInv, HeldOnce, Pending, TypeOK, Results
  <1>5. TimerWhilePending' /\ SocketsOK' /\ NoneLeft'
    BY <1>1 DEF IInv, TimerWhilePending, SocketsOK, NoneLeft, Pending, Waiting
  <1> QED BY <1>2, <1>3, <1>4, <1>5 DEF IInv

(* connect() succeeds at once: the socket is the session's. *)
LEMMA ConnectsAtOnceStep ==
  ASSUME IInv, NEW r \in Reqs, ConnectsAtOnce(r)
  PROVE  IInv'
  <1>1. PICK fd \in Fds :
          sock[fd] = "closed" /\ sock' = [sock EXCEPT ![fd] = "connected"] /\ Adopt(fd, r)
    BY DEF ConnectsAtOnce
  <1>2. outcome[r] = "idle" /\ UNCHANGED <<connectTime, resultMap, armed, due, rt, pc>>
    BY DEF ConnectsAtOnce, timer
  <1>3. /\ outcome' \in [Reqs -> {"idle", "waiting", "ok", "failed"}] /\ told' \in [Reqs -> Nat]
        /\ Counted'
        /\ outcome'[r] \in {"ok", "failed"} /\ \A q \in Reqs \ {r} : outcome'[q] = outcome[q]
        /\ \/ owned' = owned \cup {fd} /\ lost' = lost
           \/ owned' = owned /\ lost' = lost \cup {fd}
    BY <1>1, <1>2, AdoptIs DEF IInv
  <1>4. TypeOK'
    BY <1>1, <1>2, <1>3 DEF IInv, TypeOK, Pending
  <1>5. HeldOnce'
    BY <1>2, <1>3 DEF IInv, HeldOnce, Pending, TypeOK, Results
  <1>6. SocketsOK'
    BY <1>1, <1>2, <1>3 DEF IInv, SocketsOK, TypeOK, Pending, Waiting
  <1>7. TimerWhilePending' /\ NoneLeft'
    BY <1>2 DEF IInv, TimerWhilePending, NoneLeft, Pending
  <1> QED BY <1>3, <1>4, <1>5, <1>6, <1>7 DEF IInv

(* connect() is in progress: the socket joins those with a deadline. *)
LEMMA ConnectPendingStep ==
  ASSUME IInv, NEW r \in Reqs, ConnectPending(r)
  PROVE  IInv'
  <1>1. PICK fd \in Fds :
          /\ sock[fd] = "closed" /\ sock' = [sock EXCEPT ![fd] = "connecting"]
          /\ connectTime' = [f \in Pending \cup {fd} |->
                               IF f = fd THEN [req |-> r, left |-> Timeout] ELSE connectTime[f]]
    BY DEF ConnectPending
  <1>2. /\ outcome[r] = "idle" /\ outcome' = [outcome EXCEPT ![r] = "waiting"]
        /\ UNCHANGED <<resultMap, owned, lost, rt, pc, told>>
    BY DEF ConnectPending, fates
  <1>3. IF Pending = {} THEN armed' = TRUE /\ due' = Interval ELSE armed' = armed /\ due' = due
    BY DEF ConnectPending, timer
  <1>4. fd \notin Pending \cup Waiting \cup owned \cup lost
    BY <1>1 DEF IInv, SocketsOK
  <1>5. /\ Pending' = Pending \cup {fd}
        /\ connectTime'[fd] = [req |-> r, left |-> Timeout]
        /\ \A f \in Pending : connectTime'[f] = connectTime[f]
    BY <1>1, <1>4 DEF Pending
  <1>6. outcome'[r] = "waiting" /\ \A q \in Reqs \ {r} : outcome'[q] = outcome[q]
    BY <1>2 DEF IInv, TypeOK
  <1>7. TypeOK'
    <2>1. [req |-> r, left |-> Timeout] \in [req : Reqs, left : -1..Timeout]
      BY ConnectAssumption
    <2>2. connectTime' \in [Pending' -> [req : Reqs, left : -1..Timeout]]
      BY <1>1, <1>5, <2>1 DEF IInv, TypeOK
    <2>3. armed' \in BOOLEAN /\ due' \in 0..Interval
      <3>1. CASE Pending = {}
        BY <1>3, <3>1, ConnectAssumption
      <3>2. CASE Pending # {}
        BY <1>3, <3>2 DEF IInv, TypeOK
      <3> QED BY <3>1, <3>2
    <2>4. Pending' \subseteq Fds /\ sock' \in [Fds -> {"closed", "connecting", "connected", "error"}]
          /\ outcome' \in [Reqs -> {"idle", "waiting", "ok", "failed"}]
      BY <1>1, <1>2, <1>5 DEF IInv, TypeOK
    <2> QED BY <1>2, <2>2, <2>3, <2>4 DEF IInv, TypeOK
  <1>8. HeldOnce'
    <2>1. \A f \in Pending : connectTime[f].req \in Reqs \ {r}
      BY <1>2 DEF IInv, TypeOK, HeldOnce
    <2>2. \A f \in DOMAIN rt : rt[f].req \in Reqs \ {r}
      BY <1>2 DEF IInv, TypeOK, HeldOnce, Results
    <2> QED BY <1>2, <1>5, <1>6, <2>1, <2>2 DEF IInv, HeldOnce
  <1>9. Counted'
    BY <1>2, <1>6 DEF IInv, Counted
  <1>10. TimerWhilePending'
    BY <1>3, <1>5 DEF IInv, TimerWhilePending
  <1>11. SocketsOK'
    BY <1>1, <1>2, <1>4, <1>5 DEF IInv, SocketsOK, TypeOK, Waiting
  <1>12. NoneLeft'
    BY <1>2 DEF IInv, NoneLeft
  <1> QED BY <1>7, <1>8, <1>9, <1>10, <1>11, <1>12 DEF IInv

(* A session closes, or the kernel decides: no map changes. *)
LEMMA SocketStep ==
  ASSUME IInv, NEW fd \in Fds, SessionCloses(fd) \/ Established(fd) \/ Refused(fd)
  PROVE  IInv'
  <1>1. UNCHANGED <<connectTime, resultMap, armed, due, lost, rt, pc, outcome, told>>
    BY DEF SessionCloses, Established, Refused, timer, fates, service
  <1>2. \/ fd \in owned /\ owned' = owned \ {fd} /\ sock' = [sock EXCEPT ![fd] = "closed"]
        \/ owned' = owned /\ sock[fd] # "closed" /\ sock' = [sock EXCEPT ![fd] = "connected"]
        \/ owned' = owned /\ sock[fd] # "closed" /\ sock' = [sock EXCEPT ![fd] = "error"]
    BY DEF SessionCloses, Established, Refused, fates
  <1>3. TypeOK'
    BY <1>1, <1>2 DEF IInv, TypeOK, Pending
  <1>4. SocketsOK'
    BY <1>1, <1>2 DEF IInv, SocketsOK, TypeOK, Pending, Waiting
  <1>5. HeldOnce' /\ Counted' /\ TimerWhilePending' /\ NoneLeft'
    BY <1>1 DEF IInv, HeldOnce, Counted, TimerWhilePending, NoneLeft, Pending
  <1> QED BY <1>3, <1>4, <1>5 DEF IInv

(* Time passes: deadlines come nearer, no socket changes hands. *)
LEMMA TickStep ==
  ASSUME IInv, Tick
  PROVE  IInv'
  <1>1. /\ due' = (IF due > 0 THEN due - 1 ELSE 0)
        /\ connectTime' = [fd \in Pending |->
                             [connectTime[fd] EXCEPT !.left = IF @ >= 0 THEN @ - 1 ELSE -1]]
        /\ UNCHANGED <<resultMap, armed, sock, owned, lost, rt, pc, outcome, told>>
    BY DEF Tick, fates, service
  <1>2. Pending' = Pending
    BY <1>1 DEF Pending
  <1>3. ASSUME NEW fd \in Pending
        PROVE  /\ connectTime'[fd].req = connectTime[fd].req
               /\ connectTime'[fd] \in [req : Reqs, left : -1..Timeout]
    <2>1. connectTime[fd] \in [req : Reqs, left : -1..Timeout]
      BY <1>3 DEF IInv, TypeOK
    <2>2. PICK q \in Reqs, l \in -1..Timeout : connectTime[fd] = [req |-> q, left |-> l]
      BY <2>1
    <2>3. connectTime'[fd] = [req |-> q, left |-> IF l >= 0 THEN l - 1 ELSE -1]
      BY <1>1, <1>3, <2>2
    <2>4. (IF l >= 0 THEN l - 1 ELSE -1) \in -1..Timeout
      BY ConnectAssumption
    <2> QED BY <2>2, <2>3, <2>4
  <1>4. connectTime' \in [Pending' -> [req : Reqs, left : -1..Timeout]]
    BY <1>1, <1>2, <1>3
  <1>5. due' \in 0..Interval
    BY <1>1, ConnectAssumption DEF IInv, TypeOK
  <1>6. TypeOK'
    BY <1>1, <1>2, <1>4, <1>5 DEF IInv, TypeOK
  <1>7. HeldOnce'
    BY <1>1, <1>2, <1>3 DEF IInv, HeldOnce
  <1>8. Counted' /\ TimerWhilePending' /\ SocketsOK' /\ NoneLeft'
    BY <1>1, <1>2 DEF IInv, Counted, TimerWhilePending, SocketsOK, NoneLeft, Waiting
  <1> QED BY <1>6, <1>7, <1>8 DEF IInv

(* getResult moves what is finished from the pending map to the results. *)
LEMMA WaitMsgStep ==
  ASSUME IInv, WaitMsg
  PROVE  IInv'
  <1>1. /\ pc = "app" /\ pc' = "results" /\ rt' = resultMap' /\ GetResult
        /\ UNCHANGED <<owned, lost, outcome, told>>
    BY DEF WaitMsg, fates, service
  <1>2. DOMAIN rt = {} /\ Waiting = {}
    BY <1>1 DEF IInv, NoneLeft, Waiting
  <1>3. Counted' /\ NoneLeft'
    BY <1>1 DEF IInv, Counted, NoneLeft
  <1>4. CASE ~(armed /\ due = 0) /\ resultMap' = NoEntry /\ UNCHANGED <<connectTime, sock, timer>>
    <2>1. DOMAIN rt' = {} /\ DOMAIN resultMap' = {} /\ Pending' = Pending /\ UNCHANGED <<armed, due>>
      BY <1>1, <1>4 DEF NoEntry, Pending, timer
    <2>2. resultMap' \in [DOMAIN resultMap' -> Results] /\ rt' \in [DOMAIN rt' -> Results]
      BY <1>1, <1>4 DEF NoEntry
    <2>3. TypeOK'
      BY <1>1, <1>4, <2>1, <2>2 DEF IInv, TypeOK
    <2>4. HeldOnce'
      BY <1>1, <1>2, <1>4, <2>1 DEF IInv, HeldOnce
    <2>5. TimerWhilePending' /\ SocketsOK'
      BY <1>1, <1>2, <1>4, <2>1 DEF IInv, TimerWhilePending, SocketsOK, Waiting
    <2> QED BY <1>3, <2>3, <2>4, <2>5 DEF IInv
  <1>5. CASE CheckAllStatus /\ resultMap' = CheckResults
    <2>1. /\ Pending' = Pending \ Finished
          /\ \A fd \in Pending' : connectTime'[fd] = connectTime[fd]
          /\ connectTime' \in [Pending' -> [req : Reqs, left : -1..Timeout]]
      BY <1>5 DEF CheckAllStatus, Erased, Pending, IInv, TypeOK
    <2>2. /\ DOMAIN rt' = Finished
          /\ \A fd \in Finished : /\ rt'[fd] \in Results /\ rt'[fd].req = connectTime[fd].req
                                  /\ rt'[fd].ret = 1 <=> fd \in Ready
          /\ rt' \in [Finished -> Results]
      <3>1. ASSUME NEW fd \in Finished
            PROVE  fd \in Pending /\ connectTime[fd].req \in Reqs
        BY DEF Finished, Expired, Ready, Broken, IInv, TypeOK
      <3>2. rt' = [fd \in Finished |->
                     [req |-> connectTime[fd].req, ret |-> IF fd \in Ready THEN 1 ELSE -1]]
        BY <1>1, <1>5 DEF CheckResults
      <3> QED BY <3>1, <3>2 DEF Results
    <2>3. sock' = [fd \in Fds |-> IF fd \in Expired \cup Broken THEN "closed" ELSE sock[fd]]
          /\ armed' = (Pending \ Finished # {}) /\ due' = IF Pending \ Finished # {} THEN Interval ELSE 0
      BY <1>5 DEF CheckAllStatus
    <2>4. Finished \subseteq Pending /\ Pending \subseteq Fds
      BY DEF Finished, Expired, Ready, Broken, IInv, TypeOK
    <2>5. TypeOK'
      <3>1. sock' \in [Fds -> {"closed", "connecting", "connected", "error"}]
        BY <2>3 DEF IInv, TypeOK
      <3>2. armed' \in BOOLEAN
        BY <2>3
      <3>3. due' \in 0..Interval
        BY <2>3, ConnectAssumption
      <3> QED BY <1>1, <1>5, <2>1, <2>2, <2>4, <3>1, <3>2, <3>3 DEF IInv, TypeOK
    <2>6. HeldOnce'
      BY <1>1, <1>2, <2>1, <2>2, <2>4 DEF IInv, HeldOnce
    <2>7. TimerWhilePending'
      BY <2>1, <2>3 DEF TimerWhilePending
    <2>8. SocketsOK'
      <3>1. Waiting' = Ready
        BY <2>2 DEF Waiting, Finished
      <3>2. Ready \cap (Expired \cup Broken) = {} /\ Finished = Expired \cup Ready \cup Broken
        BY DEF Ready, Broken, Finished
      <3> SUFFICES ASSUME NEW fd \in Fds
                   PROVE  /\ sock'[fd] # "closed" <=> fd \in Pending' \cup Waiting' \cup owned' \cup lost'
                          /\ fd \in Pending' => fd \notin Waiting' \cup owned' \cup lost'
                          /\ fd \in Waiting' => fd \notin owned' \cup lost'
                          /\ fd \in owned' => fd \notin lost'
        BY DEF SocketsOK
      <3>3. sock'[fd] = IF fd \in Expired \cup Broken THEN "closed" ELSE sock[fd]
        BY <2>3
      <3> QED BY <1>1, <1>2, <2>1, <2>4, <3>1, <3>2, <3>3 DEF IInv, SocketsOK
    <2> QED BY <1>3, <2>5, <2>6, <2>7, <2>8 DEF IInv
  <1> QED BY <1>1, <1>4, <1>5 DEF GetResult

(* A result is processed, and its request told. *)
LEMMA ProcessResultStep ==
  ASSUME IInv, ProcessResult
  PROVE  IInv' /\ \E r \in Reqs : outcome[r] = "waiting" /\ outcome'[r] \in {"ok", "failed"}
                                  /\ \A q \in Reqs \ {r} : outcome'[q] = outcome[q]
  <1>1. Min(DOMAIN rt) \in DOMAIN rt /\ DOMAIN rt \subseteq Fds
    BY MinNat, ConnectAssumption DEF IInv, TypeOK, ProcessResult
  <1> SUFFICES ASSUME NEW fd \in DOMAIN rt, fd = Min(DOMAIN rt), fd \in Fds, NEW r, r = rt[fd].req
               PROVE  IInv' /\ outcome[r] = "waiting" /\ outcome'[r] \in {"ok", "failed"} /\ r \in Reqs
                            /\ \A q \in Reqs \ {r} : outcome'[q] = outcome[q]
    BY <1>1
  <1>2. /\ pc = "results" /\ rt' = Erased(rt, {fd})
        /\ IF rt[fd].ret = 1 THEN Adopt(fd, r) ELSE Tell(r, "failed") /\ UNCHANGED <<owned, lost>>
        /\ UNCHANGED <<connectTime, resultMap, armed, due, sock, pc>>
    BY DEF ProcessResult, timer, fates
  <1>3. r \in Reqs /\ outcome[r] = "waiting"
    BY DEF IInv, HeldOnce, TypeOK, Results
  <1>4. /\ outcome' \in [Reqs -> {"idle", "waiting", "ok", "failed"}] /\ told' \in [Reqs -> Nat]
        /\ Counted'
        /\ outcome'[r] \in {"ok", "failed"} /\ \A q \in Reqs \ {r} : outcome'[q] = outcome[q]
        /\ \/ rt[fd].ret = 1 /\ owned' = owned \cup {fd} /\ lost' = lost
           \/ rt[fd].ret = 1 /\ owned' = owned /\ lost' = lost \cup {fd}
           \/ rt[fd].ret # 1 /\ owned' = owned /\ lost' = lost
    <2>1. CASE rt[fd].ret = 1
      BY <1>2, <1>3, <2>1, AdoptIs DEF IInv
    <2>2. CASE rt[fd].ret # 1
      BY <1>2, <1>3, <2>2, TellIs DEF IInv
    <2> QED BY <2>1, <2>2
  <1>5. DOMAIN rt' = DOMAIN rt \ {fd} /\ (\A f \in DOMAIN rt' : rt'[f] = rt[f])
        /\ rt' \in [DOMAIN rt' -> Results]
    BY <1>2 DEF Erased, IInv, TypeOK
  <1>6. TypeOK'
    BY <1>1, <1>2, <1>4, <1>5 DEF IInv, TypeOK, Pending
  <1>7. HeldOnce'
    <2>1. UNCHANGED <<connectTime, Pending>>
      BY <1>2 DEF Pending
    <2>2. \A f \in Pending : connectTime[f].req \in Reqs \ {r}
      BY DEF IInv, HeldOnce, TypeOK
    <2>3. \A f \in DOMAIN rt : rt[f].req \in Reqs /\ (f # fd => rt[f].req # r)
      BY DEF IInv, HeldOnce, TypeOK, Results
    <2>4. \A f \in DOMAIN rt' : f \in DOMAIN rt /\ f # fd /\ rt'[f] = rt[f]
      BY <1>5
    <2>5. /\ \A f \in Pending' : outcome'[connectTime'[f].req] = "waiting"
          /\ \A f \in DOMAIN rt' : outcome'[rt'[f].req] = "waiting"
      BY <1>4, <2>1, <2>2, <2>3, <2>4 DEF IInv, HeldOnce
    <2>6. /\ \A f, g \in Pending' : connectTime'[f].req = connectTime'[g].req => f = g
          /\ \A f, g \in DOMAIN rt' : rt'[f].req = rt'[g].req => f = g
          /\ \A f \in Pending', g \in DOMAIN rt' : connectTime'[f].req # rt'[g].req
      BY <2>1, <2>4 DEF IInv, HeldOnce
    <2>7. ASSUME NEW q \in Reqs, outcome'[q] = "waiting"
          PROVE  (\E f \in Pending' : connectTime'[f].req = q) \/ \E f \in DOMAIN rt' : rt'[f].req = q
      <3>1. q # r /\ outcome[q] = "waiting"
        BY <1>4, <2>7
      <3> QED BY <1>5, <2>1, <3>1 DEF IInv, HeldOnce
    <2> QED BY <2>5, <2>6, <2>7 DEF HeldOnce
  <1>8. SocketsOK'
    <2>1. Waiting' = Waiting \ {fd} /\ (rt[fd].ret = 1 <=> fd \in Waiting)
      BY <1>5 DEF Waiting
    <2>2. UNCHANGED <<Pending, sock>>
      BY <1>2 DEF Pending
    <2> QED BY <1>1, <1>4, <2>1, <2>2 DEF IInv, SocketsOK
  <1>9. TimerWhilePending' /\ NoneLeft'
    BY <1>2 DEF IInv, TimerWhilePending, NoneLeft, Pending
  <1> QED BY <1>3, <1>4, <1>6, <1>7, <1>8, <1>9 DEF IInv

(* The end of processConnectSockets, and a step that changes nothing. *)
LEMMA StillStep ==
  ASSUME IInv, ResultsDone \/ UNCHANGED vars
  PROVE  IInv' /\ UNCHANGED outcome
  <1>1. /\ UNCHANGED <<connectTime, resultMap, armed, due, sock, owned, lost, rt, outcome, told>>
        /\ pc' \in {"app", "results"} /\ (pc' = "app" => DOMAIN rt = {})
    BY DEF ResultsDone, vars, timer, fates, service, IInv, NoneLeft, TypeOK
  <1>2. TypeOK'
    BY <1>1 DEF IInv, TypeOK, Pending
  <1>3. HeldOnce' /\ Counted' /\ TimerWhilePending' /\ SocketsOK' /\ NoneLeft'
    BY <1>1 DEF IInv, HeldOnce, Counted, TimerWhilePending, SocketsOK, NoneLeft, Pending, Waiting
  <1> QED BY <1>1, <1>2, <1>3 DEF IInv

(* No socket is open when the poller starts. *)
LEMMA InitIInv == Init => IInv
  <1> SUFFICES ASSUME Init PROVE IInv
    OBVIOUS
  <1> USE DEF Init
  <1>1. Pending = {} /\ DOMAIN resultMap = {} /\ DOMAIN rt = {} /\ Waiting = {}
    BY DEF Pending, NoEntry, Waiting
  <1>2. /\ connectTime \in [Pending -> [req : Reqs, left : -1..Timeout]]
        /\ resultMap \in [DOMAIN resultMap -> Results] /\ rt \in [DOMAIN rt -> Results]
    BY <1>1 DEF NoEntry
  <1>3. TypeOK
    <2>1. armed \in BOOLEAN
      OBVIOUS
    <2>2. due \in 0..Interval
      BY ConnectAssumption
    <2>3. sock \in [Fds -> {"closed", "connecting", "connected", "error"}]
      OBVIOUS
    <2>4. outcome \in [Reqs -> {"idle", "waiting", "ok", "failed"}] /\ told \in [Reqs -> Nat]
      OBVIOUS
    <2> QED BY <1>1, <1>2, <2>1, <2>2, <2>3, <2>4 DEF TypeOK
  <1>4. HeldOnce /\ Counted /\ TimerWhilePending /\ SocketsOK /\ NoneLeft
    BY <1>1 DEF HeldOnce, Counted, TimerWhilePending, SocketsOK, NoneLeft
  <1> QED BY <1>3, <1>4 DEF IInv

(* Every step keeps the invariant. *)
LEMMA NextIInv == IInv /\ [Next]_vars => IInv'
  BY ConnectFailsStep, ConnectsAtOnceStep, ConnectPendingStep, SocketStep, TickStep, WaitMsgStep,
     ProcessResultStep, StillStep DEF Next

-----------------------------------------------------------------------------
(* The theorems *)

(***************************************************************************)
(* The strengthened invariant holds in every state, for any requests,      *)
(* descriptors, timeout and period of the check.                           *)
(***************************************************************************)
THEOREM Invariance == Spec => []IInv
  BY InitIInv, NextIInv, PTL DEF Spec

(* Each request that waits is held in exactly one place. *)
LEMMA HeldInOnePlace == IInv => ToldOnce
  <1> SUFFICES ASSUME IInv, NEW r \in Reqs
               PROVE  LET held == {<<"p", fd>> : fd \in {f \in Pending : connectTime[f].req = r}}
                                  \cup {<<"r", fd>> : fd \in {f \in DOMAIN rt : rt[f].req = r}}
                      IN  outcome[r] = "waiting" <=> \E h \in held : held = {h}
    BY DEF IInv, Counted, ToldOnce
  <1> DEFINE P == {f \in Pending : connectTime[f].req = r}
             R == {f \in DOMAIN rt : rt[f].req = r}
             held == {<<"p", fd>> : fd \in P} \cup {<<"r", fd>> : fd \in R}
  <1>1. outcome[r] # "waiting" => P = {} /\ R = {}
    BY DEF IInv, HeldOnce
  <1>2. outcome[r] = "waiting" => (\E f : P = {f} /\ R = {}) \/ (\E f : P = {} /\ R = {f})
    <2> SUFFICES ASSUME outcome[r] = "waiting"
                 PROVE  (\E f : P = {f} /\ R = {}) \/ (\E f : P = {} /\ R = {f})
      OBVIOUS
    <2>1. CASE \E f \in Pending : connectTime[f].req = r
      <3>1. PICK f \in Pending : connectTime[f].req = r
        BY <2>1
      <3>2. P = {f} /\ R = {}
        BY <3>1 DEF IInv, HeldOnce
      <3> QED BY <3>2
    <2>2. CASE \E f \in DOMAIN rt : rt[f].req = r
      <3>1. PICK f \in DOMAIN rt : rt[f].req = r
        BY <2>2
      <3>2. P = {} /\ R = {f}
        BY <3>1 DEF IInv, HeldOnce
      <3> QED BY <3>2
    <2> QED BY <2>1, <2>2 DEF IInv, HeldOnce
  <1> HIDE DEF P, R
  <1>3. P = {} /\ R = {} => held = {}
    OBVIOUS
  <1>4. ASSUME NEW f, P = {f}, R = {} PROVE held = {<<"p", f>>}
    BY <1>4
  <1>5. ASSUME NEW f, P = {}, R = {f} PROVE held = {<<"r", f>>}
    BY <1>5
  <1>6. outcome[r] = "waiting" <=> \E h \in held : held = {h}
    <2> HIDE DEF held
    <2> QED BY <1>1, <1>2, <1>3, <1>4, <1>5
  <1> QED BY <1>6 DEF P, R

(***************************************************************************)
(* A request is told its outcome once, and while it waits it is held in    *)
(* exactly one of the pending map and the results being processed.         *)
(***************************************************************************)
THEOREM InvHolds == Spec => []Inv
  <1>1. IInv => Inv
    BY HeldInOnePlace DEF IInv, Inv
  <1> QED BY <1>1, Invariance, PTL

(***************************************************************************)
(* The check timer runs exactly while a connect is pending, whatever the   *)
(* callbacks of processConnectSockets start.                               *)
(***************************************************************************)
THEOREM TimerHolds == Spec => []TimerWhilePending
  <1>1. IInv => TimerWhilePending
    BY DEF IInv
  <1> QED BY <1>1, Invariance, PTL

(***************************************************************************)
(* A failed, timed out or answered connect leaks no descriptor, and no     *)
(* result refers to one that is closed or belongs to another.              *)
(***************************************************************************)
THEOREM NoLeakHolds == Spec => []NoSocketLeak
  <1>1. ASSUME IInv PROVE NoSocketLeak
    <2>1. Pending \cup Waiting \cup owned \cup lost \subseteq Fds
      BY <1>1 DEF IInv, TypeOK, Waiting
    <2>2. {fd \in Fds : sock[fd] # "closed"} = Pending \cup Waiting \cup owned \cup lost
      BY <1>1, <2>1 DEF IInv, SocketsOK
    <2>3. \A fd \in Fds :
            /\ fd \in Pending => fd \notin Waiting \cup owned \cup lost /\ sock[fd] # "closed"
            /\ fd \in Waiting => fd \notin owned \cup lost /\ sock[fd] # "closed"
      BY <1>1 DEF IInv, SocketsOK
    <2> QED BY <2>2, <2>3 DEF NoSocketLeak, Waiting
  <1> QED BY <1>1, Invariance, PTL

(***************************************************************************)
(* Every request is answered at most once, and only when asked: each step  *)
(* of MsgHub and ConnectPoller is one of ConnectService's or none.  (That  *)
(* each is answered in the end is the other half of AnsweredOnce.)         *)
(***************************************************************************)
THEOREM ServiceSafety == Spec => Service!Init /\ [][Service!Next]_outcome
  <1>1. Init => Service!Init
    BY DEF Init, Service!Init
  <1>2. IInv /\ [Next]_vars => [Service!Next]_outcome
    <2> SUFFICES ASSUME IInv, [Next]_vars PROVE [Service!Next]_outcome
      OBVIOUS
    <2> DEFINE Told(r, a) == outcome' = [outcome EXCEPT ![r] = a]
    <2>1. outcome \in [Reqs -> {"idle", "waiting", "ok", "failed"}]
      BY DEF IInv, TypeOK
    <2>2. ASSUME NEW r \in Reqs, ConnectFails(r) \/ ConnectsAtOnce(r) \/ ConnectPending(r)
          PROVE  Service!Next
      <3>1. outcome[r] = "idle" /\ \E a \in {"ok", "failed", "waiting"} : Told(r, a)
        BY <2>2 DEF ConnectFails, ConnectsAtOnce, ConnectPending, Adopt, Tell
      <3> QED BY <3>1 DEF Service!Next, Service!Ask, Service!Answers
    <2>3. ASSUME ProcessResult PROVE Service!Next
      <3>1. PICK r \in Reqs : /\ outcome[r] = "waiting" /\ outcome'[r] \in {"ok", "failed"}
                              /\ \A q \in Reqs \ {r} : outcome'[q] = outcome[q]
        BY <2>3, ProcessResultStep
      <3>2. outcome' \in [Reqs -> {"idle", "waiting", "ok", "failed"}]
        BY NextIInv DEF IInv, TypeOK
      <3>3. PICK a \in {"ok", "failed"} : outcome'[r] = a
        BY <3>1
      <3>4. Told(r, a)
        BY <2>1, <3>1, <3>2, <3>3
      <3> QED BY <3>1, <3>4 DEF Service!Next, Service!Answer, Service!Answers
    <2>4. ASSUME NEW fd \in Fds, SessionCloses(fd) \/ Established(fd) \/ Refused(fd)
          PROVE  UNCHANGED outcome
      BY <2>4 DEF SessionCloses, Established, Refused, service
    <2>5. Tick \/ WaitMsg \/ ResultsDone \/ UNCHANGED vars => UNCHANGED outcome
      BY StillStep DEF Tick, WaitMsg, service
    <2> QED BY <2>2, <2>3, <2>4, <2>5 DEF Next
  <1> QED BY <1>1, <1>2, Invariance, PTL DEF Spec

=============================================================================
