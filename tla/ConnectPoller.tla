--------------------------- MODULE ConnectPoller ---------------------------
(***************************************************************************)
(* Outgoing connections (ConnectPoller and the part of MsgHub that drives  *)
(* it, MsgHub.cpp): connectTo starts a non-blocking connect and a timer    *)
(* that checks all pending sockets; waitMsg collects what the check found  *)
(* and calls the application back, which may call connectTo again.         *)
(*                                                                         *)
(* Times are the milliseconds left: connectTime[fd].left is the limit      *)
(* minus now, down to -1, and due is the time until the timer fires.  The  *)
(* timer itself is a flag and a time here; its heap is TimerHeap's.  File  *)
(* descriptors are used again once closed.                                 *)
(***************************************************************************)
EXTENDS Integers, FiniteSetsExt

CONSTANTS
  Reqs,      \* requests, one per call of connectTo
  Fds,       \* file descriptors socket() may return
  Timeout,   \* the timeout of every request: a positive one
  Interval,  \* period of the check (10 ms in the code)
  Exhausts   \* whether initNewSession may find the session table full

ASSUME ConnectAssumption ==
  /\ Fds \subseteq Nat
  /\ Timeout \in Nat \ {0} /\ Interval \in Nat \ {0}
  /\ Exhausts \in BOOLEAN

VARIABLES
  connectTime,  \* ConnectPoller::connectTime: fd -> request and time left
  resultMap,    \* ConnectPoller::resultMap: fd -> request and result
  armed,        \* connectTimer is in the heap
  due,          \* time until connectTimer fires
  sock,         \* state of each descriptor
  owned,        \* descriptors that belong to a session
  lost,         \* connected descriptors the full table had no session for
  rt,           \* waitMsg: results still to be processed
  pc,           \* "app", or "results" inside processConnectSockets
  outcome,      \* answer to each request
  told          \* number of callbacks each request got

timer   == <<armed, due>>
service == <<outcome, told>>
fates   == <<owned, lost>>
vars    == <<connectTime, resultMap, timer, sock, fates, rt, pc, service>>

Pending == DOMAIN connectTime
NoEntry == [fd \in {} |-> 0]

(* f with the entries for the keys in S erased. *)
Erased(f, S) == [fd \in DOMAIN f \ S |-> f[fd]]

Init ==
  /\ connectTime = NoEntry
  /\ resultMap = NoEntry
  /\ armed = FALSE
  /\ due = 0
  /\ sock = [fd \in Fds |-> "closed"]
  /\ owned = {}
  /\ lost = {}
  /\ rt = NoEntry
  /\ pc = "app"
  /\ outcome = [r \in Reqs |-> "idle"]
  /\ told = [r \in Reqs |-> 0]

-----------------------------------------------------------------------------
(* Callbacks and sessions *)

Tell(r, answer) ==
  /\ outcome' = [outcome EXCEPT ![r] = answer]
  /\ told' = [told EXCEPT ![r] = @ + 1]

(* A connected socket becomes a session and onConnect is called; with the
   table full onConnectFailed is, and the socket stays open.              *)
Adopt(fd, r) ==
  \/ owned' = owned \cup {fd} /\ Tell(r, "ok") /\ UNCHANGED lost
  \/ Exhausts /\ Tell(r, "failed") /\ lost' = lost \cup {fd} /\ UNCHANGED owned

-----------------------------------------------------------------------------
(* connectTo, from the application or from one of its callbacks *)

(* connect() or socket() fails. *)
ConnectFails(r) ==
  /\ outcome[r] = "idle"
  /\ Tell(r, "failed")
  /\ UNCHANGED <<connectTime, resultMap, timer, sock, fates, rt, pc>>

ConnectsAtOnce(r) ==
  /\ outcome[r] = "idle"
  /\ \E fd \in Fds :
       /\ sock[fd] = "closed"
       /\ sock' = [sock EXCEPT ![fd] = "connected"]
       /\ Adopt(fd, r)
  /\ UNCHANGED <<connectTime, resultMap, timer, rt, pc>>

(* Mutant: the map is tested when the new entry is already in it. *)
ConnectPendingTestsLate(r) ==
  /\ outcome[r] = "idle"
  /\ \E fd \in Fds :
       /\ sock[fd] = "closed"
       /\ sock' = [sock EXCEPT ![fd] = "connecting"]
       /\ connectTime' =
            [f \in Pending \cup {fd} |->
               IF f = fd THEN [req |-> r, left |-> Timeout] ELSE connectTime[f]]
  /\ UNCHANGED timer
  /\ outcome' = [outcome EXCEPT ![r] = "waiting"]
  /\ UNCHANGED <<resultMap, fates, rt, pc, told>>

(* The first pending socket starts the timer. *)
ConnectPending(r) ==
  /\ outcome[r] = "idle"
  /\ \E fd \in Fds :
       /\ sock[fd] = "closed"
       /\ sock' = [sock EXCEPT ![fd] = "connecting"]
       /\ connectTime' =
            [f \in Pending \cup {fd} |->
               IF f = fd THEN [req |-> r, left |-> Timeout] ELSE connectTime[f]]
  /\ IF Pending = {} THEN armed' = TRUE /\ due' = Interval ELSE UNCHANGED timer
  /\ outcome' = [outcome EXCEPT ![r] = "waiting"]
  /\ UNCHANGED <<resultMap, fates, rt, pc, told>>

(* closeSession on the session of fd. *)
SessionCloses(fd) ==
  /\ fd \in owned
  /\ owned' = owned \ {fd}
  /\ sock' = [sock EXCEPT ![fd] = "closed"]
  /\ UNCHANGED <<connectTime, resultMap, timer, lost, rt, pc, service>>

-----------------------------------------------------------------------------
(* The kernel and the clock *)

(* send() of nothing succeeds from now on; or reports an error.  As long as
   it says "not connected", refused or not, the socket is "connecting".   *)
Established(fd) ==
  /\ sock[fd] = "connecting"
  /\ sock' = [sock EXCEPT ![fd] = "connected"]
  /\ UNCHANGED <<connectTime, resultMap, timer, fates, rt, pc, service>>

Refused(fd) ==
  /\ fd \in Pending
  /\ sock[fd] \in {"connecting", "connected"}
  /\ sock' = [sock EXCEPT ![fd] = "error"]
  /\ UNCHANGED <<connectTime, resultMap, timer, fates, rt, pc, service>>

Tick ==
  /\ due' = IF due > 0 THEN due - 1 ELSE 0
  /\ connectTime' =
       [fd \in Pending |->
          [connectTime[fd] EXCEPT !.left = IF @ >= 0 THEN @ - 1 ELSE -1]]
  /\ UNCHANGED <<resultMap, armed, sock, fates, rt, pc, service>>

-----------------------------------------------------------------------------
(* waitMsg *)

(* checkAllStatus looks at the limit before it looks at the socket. *)
Expired  == {fd \in Pending : connectTime[fd].left < 0}
Ready    == {fd \in Pending \ Expired : sock[fd] = "connected"}
Broken   == {fd \in Pending \ Expired : sock[fd] = "error"}
Finished == Expired \cup Ready \cup Broken

CheckResults ==
  [fd \in Finished |->
     [req |-> connectTime[fd].req, ret |-> IF fd \in Ready THEN 1 ELSE -1]]

(* Mutants: a timed-out socket is not closed; the timer stops as soon as
   one connect is finished.                                               *)
CheckAllStatusLeaks ==
  /\ connectTime' = Erased(connectTime, Finished)
  /\ sock' = [fd \in Fds |-> IF fd \in Broken THEN "closed" ELSE sock[fd]]
  /\ armed' = (Pending \ Finished # {})
  /\ due' = IF Pending \ Finished # {} THEN Interval ELSE 0

CheckAllStatusStops ==
  /\ connectTime' = Erased(connectTime, Finished)
  /\ sock' = [fd \in Fds |-> IF fd \in Expired \cup Broken THEN "closed" ELSE sock[fd]]
  /\ armed' = (Finished = {})
  /\ due' = IF Finished = {} THEN Interval ELSE 0

(* The timer has rearmed itself when checkAllStatus runs. *)
CheckAllStatus ==
  /\ connectTime' = Erased(connectTime, Finished)
  /\ sock' = [fd \in Fds |-> IF fd \in Expired \cup Broken THEN "closed" ELSE sock[fd]]
  /\ armed' = (Pending \ Finished # {})
  /\ due' = IF Pending \ Finished # {} THEN Interval ELSE 0

(* Mutant: the results of the last call are not cleared. *)
GetResultKeepsOld ==
  \/ /\ armed /\ due = 0
     /\ CheckAllStatus
     /\ resultMap' = [fd \in Finished \cup DOMAIN resultMap |->
                        IF fd \in Finished THEN CheckResults[fd] ELSE resultMap[fd]]
  \/ /\ ~(armed /\ due = 0)
     /\ UNCHANGED <<connectTime, resultMap, sock, timer>>

(* getResult: clears the results and lets the timer fire if it is due. *)
GetResult ==
  \/ /\ armed /\ due = 0
     /\ CheckAllStatus
     /\ resultMap' = CheckResults
  \/ /\ ~(armed /\ due = 0)
     /\ resultMap' = NoEntry
     /\ UNCHANGED <<connectTime, sock, timer>>

WaitMsg ==
  /\ pc = "app"
  /\ GetResult
  /\ rt' = resultMap'
  /\ pc' = "results"
  /\ UNCHANGED <<fates, service>>

(* processConnectSockets walks the map in the order of its keys. *)
ProcessResult ==
  /\ pc = "results" /\ DOMAIN rt # {}
  /\ LET fd == Min(DOMAIN rt)
         r  == rt[fd].req
     IN  /\ rt' = Erased(rt, {fd})
         /\ IF rt[fd].ret = 1
            THEN Adopt(fd, r)
            ELSE Tell(r, "failed") /\ UNCHANGED fates
  /\ UNCHANGED <<connectTime, resultMap, timer, sock, pc>>

(* The rest of waitMsg, loopOnce, is the poller's. *)
ResultsDone ==
  /\ pc = "results" /\ DOMAIN rt = {}
  /\ pc' = "app"
  /\ UNCHANGED <<connectTime, resultMap, timer, sock, fates, rt, service>>

Next ==
  \/ \E r \in Reqs : ConnectFails(r) \/ ConnectsAtOnce(r) \/ ConnectPending(r)
  \/ \E fd \in Fds : SessionCloses(fd) \/ Established(fd) \/ Refused(fd)
  \/ Tick \/ WaitMsg \/ ProcessResult \/ ResultsDone

(* Time passes, and the application calls waitMsg in a loop. *)
Fairness ==
  /\ WF_vars(Tick)
  /\ WF_vars(WaitMsg)
  /\ WF_vars(ProcessResult)
  /\ WF_vars(ResultsDone)

Spec == Init /\ [][Next]_vars
LiveSpec == Spec /\ Fairness

-----------------------------------------------------------------------------

Results == [req : Reqs, ret : {-1, 1}]

TypeOK ==
  /\ Pending \subseteq Fds
  /\ connectTime \in [Pending -> [req : Reqs, left : -1..Timeout]]
  /\ DOMAIN resultMap \subseteq Fds /\ resultMap \in [DOMAIN resultMap -> Results]
  /\ armed \in BOOLEAN
  /\ due \in 0..Interval
  /\ sock \in [Fds -> {"closed", "connecting", "connected", "error"}]
  /\ owned \subseteq Fds /\ lost \subseteq Fds
  /\ DOMAIN rt \subseteq Fds /\ rt \in [DOMAIN rt -> Results]
  /\ pc \in {"app", "results"}
  /\ outcome \in [Reqs -> {"idle", "waiting", "ok", "failed"}]
  /\ told \in [Reqs -> Nat]

(***************************************************************************)
(* The check timer runs exactly while a connect is pending, whatever the   *)
(* callbacks started meanwhile: no request is left without a check, and no *)
(* timer runs for nothing.                                                 *)
(***************************************************************************)
TimerWhilePending == armed <=> Pending # {}

(***************************************************************************)
(* A request is told its outcome once, and a request that waits is held in *)
(* exactly one place: the pending map or the results still to be           *)
(* processed, even when its descriptor was closed and used again between.  *)
(***************************************************************************)
ToldOnce ==
  \A r \in Reqs :
    /\ told[r] = IF outcome[r] \in {"ok", "failed"} THEN 1 ELSE 0
    /\ LET held == {<<"p", fd>> : fd \in {f \in Pending : connectTime[f].req = r}}
                   \cup {<<"r", fd>> : fd \in {f \in DOMAIN rt : rt[f].req = r}}
       IN  outcome[r] = "waiting" <=> \E h \in held : held = {h}

(***************************************************************************)
(* The bookkeeping of connectTime, resultMap and the results being         *)
(* processed agrees with what the application was told, between two calls  *)
(* of MsgHub and inside its callbacks.                                     *)
(***************************************************************************)
Inv ==
  /\ TypeOK
  /\ ToldOnce

(***************************************************************************)
(* A socket that is open is pending, or waits in the results for its       *)
(* session, or has one, or found the table full, and only one of these: a  *)
(* failed, timed out or answered connect leaks no descriptor, and no       *)
(* result refers to a descriptor that is closed or belongs to another.     *)
(***************************************************************************)
NoSocketLeak ==
  LET waiting == {fd \in DOMAIN rt : rt[fd].ret = 1}
  IN  /\ {fd \in Fds : sock[fd] # "closed"} = Pending \cup waiting \cup owned \cup lost
      /\ \A fd \in Fds :
           /\ fd \in Pending => fd \notin waiting \cup owned \cup lost /\ sock[fd] # "closed"
           /\ fd \in waiting => fd \notin owned \cup lost /\ sock[fd] # "closed"

(* The promise made to the application, as safety and liveness. *)
Service == INSTANCE ConnectService
AnsweredOnce == Service!Spec

=============================================================================
