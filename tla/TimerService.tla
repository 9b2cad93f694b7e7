---------------------------- MODULE TimerService ----------------------------
(***************************************************************************)
(* What Timer and TimerManager promise: a started timer fires when its     *)
(* time has come, the earliest first, once or again after each interval,   *)
(* and a timer that was stopped does not fire until it is started again.   *)
(***************************************************************************)
EXTENDS Integers

CONSTANTS
  Timers,
  Intervals,  \* intervals a timer is started with
  Off,        \* expiry of a timer that is not running
  NoTimer

VARIABLES
  clock,   \* GetCurrentMillisecs()
  expiry,  \* when each timer fires next
  period,  \* its interval
  circle,  \* whether it starts again after it fired
  firing   \* the timer that fires: its callback runs, or is about to

vars == <<clock, expiry, period, circle, firing>>

Init ==
  /\ clock = 0
  /\ expiry = [t \in Timers |-> Off]
  /\ period \in [Timers -> Intervals]
  /\ circle \in [Timers -> BOOLEAN]
  /\ firing = NoTimer

Start(t, iv, c) ==
  /\ expiry' = [expiry EXCEPT ![t] = clock + iv]
  /\ period' = [period EXCEPT ![t] = iv]
  /\ circle' = [circle EXCEPT ![t] = c]
  /\ UNCHANGED <<clock, firing>>

Stop(t) ==
  /\ expiry' = [expiry EXCEPT ![t] = Off]
  /\ UNCHANGED <<clock, period, circle, firing>>

(* The detection that lets t fire began at time d. *)
Fire(t, d) ==
  /\ firing = NoTimer
  /\ expiry[t] # Off
  /\ expiry[t] <= d /\ d <= clock
  /\ \A u \in Timers : expiry[u] # Off => expiry[t] <= expiry[u]
  /\ expiry' = [expiry EXCEPT ![t] = IF circle[t] THEN d + period[t] ELSE Off]
  /\ firing' = t
  /\ UNCHANGED <<clock, period, circle>>

CallbackReturns ==
  /\ firing # NoTimer
  /\ firing' = NoTimer
  /\ UNCHANGED <<clock, expiry, period, circle>>

Tick ==
  /\ clock' = clock + 1
  /\ UNCHANGED <<expiry, period, circle, firing>>

Next ==
  \/ Tick \/ CallbackReturns
  \/ \E t \in Timers :
       \/ Stop(t)
       \/ \E iv \in Intervals, c \in BOOLEAN : Start(t, iv, c)
       \/ \E d \in 0..clock : Fire(t, d)

Spec == Init /\ [][Next]_vars

=============================================================================
