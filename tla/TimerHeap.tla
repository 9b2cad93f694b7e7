----------------------------- MODULE TimerHeap -----------------------------
(***************************************************************************)
(* Timer and TimerManager (Timer.h, Timer.cpp): timers in a binary heap    *)
(* that know their place in it.  Every swap of UpHeap and DownHeap is a    *)
(* step, so that the invariants speak of the loops too; DetectTimers calls *)
(* back, and a callback may start and stop any timer, its own included.    *)
(*                                                                         *)
(* heap_[i] of the code is heap[i + 1] here, so the parent of place i is   *)
(* i \div 2; heapIndex is the place, with 0 for the code's -1.             *)
(***************************************************************************)
EXTENDS Integers, Sequences, FiniteSets

CONSTANTS
  Timers,
  Intervals,  \* intervals timers are started with
  MaxNow,     \* bound: last value of the clock
  MaxCrowd    \* bound: timers ever started when the clock moves

NoTimer == "no timer"

ASSUME TimerAssumption ==
  /\ Intervals \subseteq Nat /\ Intervals # {}
  /\ MaxNow \in Nat /\ MaxCrowd \in Nat
  /\ NoTimer \notin Timers

VARIABLES
  heap,       \* TimerManager::heap_: entries [time, timer]
  heapIndex,  \* Timer::heapIndex_
  expires,    \* Timer::expires_
  interval,   \* Timer::interval_
  circle,     \* Timer::timerType_ is CIRCLE
  now,        \* GetCurrentMillisecs()
  pc,         \* "idle", "detect", "callback", or a loop: "up", "down"
  at,         \* the place UpHeap or DownHeap is at
  cur,        \* the timer to be added or fired when the loop is done
  then,       \* what follows the loop: "return", "add" or "onTimer"
  caller,     \* pc to return to: "idle" or "callback"
  detectNow,  \* DetectTimers: now
  timer       \* DetectTimers: timer, until its OnTimer returned

settings == <<expires, interval, circle>>
control  == <<pc, at, cur, then, caller>>
detect   == <<detectNow, timer>>
vars     == <<heap, heapIndex, settings, now, control, detect>>

Init ==
  /\ heap = <<>>
  /\ heapIndex = [t \in Timers |-> 0]
  /\ expires = [t \in Timers |-> 0]
  /\ interval = [t \in Timers |-> CHOOSE i \in Intervals : TRUE]
  /\ circle = [t \in Timers |-> FALSE]
  /\ now = 0
  /\ pc = "idle"
  /\ at = 0
  /\ cur = NoTimer
  /\ then = "return"
  /\ caller = "idle"
  /\ detectNow = 0
  /\ timer = NoTimer

-----------------------------------------------------------------------------
(* Heap primitives *)

Swapped(h, i, j) == [h EXCEPT ![i] = h[j], ![j] = h[i]]
Popped(h) == SubSeq(h, 1, Len(h) - 1)

(* AddTimer up to the loop of UpHeap. *)
AddTimer(t, time) ==
  /\ heap' = Append(heap, [time |-> time, timer |-> t])
  /\ heapIndex' = [heapIndex EXCEPT ![t] = Len(heap) + 1]
  /\ pc' = "up" /\ at' = Len(heap) + 1

(* Mutant: the entry that takes the place of the removed one only sinks. *)
RemoveTimerNeverRises(t, idx) ==
  LET i    == heapIndex[t]
      last == Len(heap)
  IN  /\ heap' = Popped(Swapped(heap, i, last))
      /\ heapIndex' = [heapIndex EXCEPT ![heap[last].timer] = i, ![t] = idx]
      /\ at' = i
      /\ pc' = "down"

(* RemoveTimer up to the loop that mends the heap: the last entry takes the
   place of the removed one; idx is what becomes of its own heapIndex_.   *)
RemoveTimer(t, idx) ==
  LET i    == heapIndex[t]
      last == Len(heap)
      h    == Popped(Swapped(heap, i, last))
  IN  /\ heap' = h
      /\ heapIndex' = [heapIndex EXCEPT ![heap[last].timer] = i, ![t] = idx]
      /\ at' = i
      /\ pc' = IF i > 1 /\ i < last /\ h[i].time < h[i \div 2].time THEN "up" ELSE "down"

-----------------------------------------------------------------------------
(* The application, between calls of DetectTimers or in a callback *)

AppHasControl == pc \in {"idle", "callback"}

(* Bound: at the first instant any number of timers are started, later only
   a few ever are.                                                         *)
Crowded == Cardinality({t \in Timers : expires[t] # 0}) > MaxCrowd

(* Start: stop() if running, then add; stop() leaves no trace in between. *)
Start(t, iv, c) ==
  /\ AppHasControl
  /\ interval' = [interval EXCEPT ![t] = iv]
  /\ circle' = [circle EXCEPT ![t] = c]
  /\ expires' = [expires EXCEPT ![t] = now + iv]
  /\ now > 0 => ~Crowded'
  /\ caller' = pc
  /\ \/ /\ heapIndex[t] = 0
        /\ AddTimer(t, now + iv)
        /\ cur' = NoTimer /\ then' = "return"
     \/ /\ heapIndex[t] # 0
        /\ RemoveTimer(t, 0)
        /\ cur' = t /\ then' = "add"
  /\ UNCHANGED <<now, detect>>

Stop(t) ==
  /\ AppHasControl
  /\ heapIndex[t] # 0
  /\ RemoveTimer(t, 0)
  /\ caller' = pc
  /\ cur' = NoTimer /\ then' = "return"
  /\ UNCHANGED <<settings, now, detect>>

-----------------------------------------------------------------------------
(* The loops *)

(* One round of a loop that swaps places i and j, its test having succeeded. *)
SwapHeap(i, j) ==
  /\ heap' = Swapped(heap, i, j)
  /\ heapIndex' = [heapIndex EXCEPT ![heap[i].timer] = j, ![heap[j].timer] = i]
  /\ at' = j
  /\ UNCHANGED <<settings, now, pc, cur, then, caller, detect>>

MustRise == at > 1 /\ heap[at].time < heap[at \div 2].time

UpHeap == pc = "up" /\ MustRise /\ SwapHeap(at, at \div 2)

MinChild ==
  LET child == 2 * at
  IN  IF child = Len(heap) \/ heap[child].time < heap[child + 1].time
      THEN child ELSE child + 1

(* Mutant: a last, only child is not looked at. *)
MustSinkTwoChildren == 2 * at < Len(heap) /\ ~(heap[at].time < heap[MinChild].time)

MustSink == 2 * at <= Len(heap) /\ ~(heap[at].time < heap[MinChild].time)

DownHeap == pc = "down" /\ MustSink /\ SwapHeap(at, MinChild)

(* What RemoveTimer's or AddTimer's caller does next. *)
LoopDone ==
  /\ \/ pc = "up" /\ ~MustRise
     \/ pc = "down" /\ ~MustSink
  /\ \/ /\ then = "return"
        /\ pc' = caller /\ at' = 0
        /\ UNCHANGED <<heap, heapIndex, settings, cur, then, caller>>
     \/ /\ then = "add"
        /\ AddTimer(cur, expires[cur])
        /\ cur' = NoTimer /\ then' = "return"
        /\ UNCHANGED <<settings, caller>>
     \/ (* OnTimer of a circle timer *)
        /\ then = "onTimer" /\ circle[cur]
        /\ expires' = [expires EXCEPT ![cur] = interval[cur] + detectNow]
        /\ AddTimer(cur, interval[cur] + detectNow)
        /\ cur' = NoTimer /\ then' = "return" /\ caller' = "callback"
        /\ UNCHANGED <<interval, circle>>
     \/ (* OnTimer of a timer that fires once *)
        /\ then = "onTimer" /\ ~circle[cur]
        /\ heapIndex' = [heapIndex EXCEPT ![cur] = 0]
        /\ pc' = "callback" /\ at' = 0
        /\ cur' = NoTimer /\ then' = "return"
        /\ UNCHANGED <<heap, settings, caller>>
  /\ UNCHANGED <<now, detect>>

-----------------------------------------------------------------------------
(* DetectTimers *)

DetectTimers ==
  /\ pc = "idle"
  /\ pc' = "detect"
  /\ detectNow' = now
  /\ UNCHANGED <<timer, heap, heapIndex, settings, now, at, cur, then, caller>>

(* Mutants: a strict comparison; the clock read anew in every round. *)
SomeDueStrict == heap # <<>> /\ heap[1].time < detectNow
SomeDueReread == heap # <<>> /\ heap[1].time <= now

SomeDue == heap # <<>> /\ heap[1].time <= detectNow

(* The removed timer keeps the index of the last place until OnTimer. *)
Fire ==
  /\ pc = "detect" /\ SomeDue
  /\ RemoveTimer(heap[1].timer, Len(heap))
  /\ cur' = heap[1].timer /\ then' = "onTimer"
  /\ timer' = heap[1].timer
  /\ UNCHANGED <<settings, now, caller, detectNow>>

CallbackReturns ==
  /\ pc = "callback"
  /\ pc' = "detect"
  /\ timer' = NoTimer
  /\ UNCHANGED <<heap, heapIndex, settings, now, at, cur, then, caller, detectNow>>

DetectReturns ==
  /\ pc = "detect" /\ ~SomeDue
  /\ pc' = "idle"
  /\ UNCHANGED <<heap, heapIndex, settings, now, at, cur, then, caller, detect>>

Tick ==
  /\ now < MaxNow
  /\ ~Crowded
  /\ now' = now + 1
  /\ UNCHANGED <<heap, heapIndex, settings, control, detect>>

App ==
  \E t \in Timers :
    \/ Stop(t)
    \/ \E iv \in Intervals, c \in BOOLEAN : Start(t, iv, c)

Manager ==
  UpHeap \/ DownHeap \/ LoopDone \/ Fire \/ CallbackReturns \/ DetectReturns

Next == App \/ Manager \/ DetectTimers \/ Tick

Spec == Init /\ [][Next]_vars

-----------------------------------------------------------------------------

Entries == [time : Nat, timer : Timers]

TypeOK ==
  /\ heap \in Seq(Entries)
  /\ heapIndex \in [Timers -> Nat]
  /\ expires \in [Timers -> Nat]
  /\ interval \in [Timers -> Nat]
  /\ circle \in [Timers -> BOOLEAN]
  /\ now \in Nat
  /\ pc \in {"idle", "detect", "callback", "up", "down"}
  /\ at \in Nat
  /\ cur \in Timers \cup {NoTimer}
  /\ then \in {"return", "add", "onTimer"}
  /\ caller \in {"idle", "callback"}
  /\ detectNow \in Nat
  /\ timer \in Timers \cup {NoTimer}

(***************************************************************************)
(* A timer knows its place: the entry at heapIndex_ is its own, there is   *)
(* no other, and a timer with heapIndex_ -1 has none; this is what stop()  *)
(* and RemoveTimer rely on, in the middle of the loops too.                *)
(***************************************************************************)
IndexOK ==
  /\ \A i \in 1..Len(heap) : heapIndex[heap[i].timer] = i
  /\ \A t \in Timers :
       heapIndex[t] # 0 /\ t # cur => heapIndex[t] <= Len(heap) /\ heap[heapIndex[t]].timer = t

(***************************************************************************)
(* Outside the loops no entry is earlier than its parent: removing a timer *)
(* from the middle, restarting one or rearming one inside its own callback *)
(* leaves a heap.                                                          *)
(***************************************************************************)
HeapOrder ==
  pc \notin {"up", "down"} => \A i \in 2..Len(heap) : heap[i \div 2].time <= heap[i].time

(***************************************************************************)
(* What stop(), RemoveTimer and DetectTimers rely on when they are called, *)
(* from a callback or not: every timer knows its place, and the first      *)
(* entry is the earliest.                                                  *)
(***************************************************************************)
Inv ==
  /\ TypeOK
  /\ IndexOK
  /\ HeapOrder

(***************************************************************************)
(* When DetectTimers returns, no timer that was due when it was called is  *)
(* still in the heap, whatever the callbacks it made started and stopped.  *)
(***************************************************************************)
NoneMissed ==
  [][DetectReturns => \A i \in 1..Len(heap) : heap[i].time > detectNow]_vars

(***************************************************************************)
(* TimerService: earliest first, never early, never after stop.  A timer   *)
(* that is between its removal and its next entry already has its expiry.  *)
(***************************************************************************)
Off == -1

Expiry(t) ==
  CASE t = cur /\ then = "add" -> expires[t]
    [] t = cur /\ then = "onTimer" /\ circle[t] -> interval[t] + detectNow
    [] t = cur /\ then = "onTimer" /\ ~circle[t] -> Off
    [] OTHER -> IF heapIndex[t] = 0 THEN Off ELSE heap[heapIndex[t]].time

Service == INSTANCE TimerService WITH
  clock <- now, expiry <- [t \in Timers |-> Expiry(t)], period <- interval,
  firing <- timer

ImplementsService == Service!Spec

(***************************************************************************)
(* A detection ends: when intervals are positive, a round of the loop      *)
(* takes a timer off those due at detectNow, and nothing a callback starts *)
(* or stops, nor the rearming of a circle timer, adds one.  So there are   *)
(* at most as many callbacks as timers due when DetectTimers was called.   *)
(***************************************************************************)
Due == {t \in Timers : Expiry(t) # Off /\ Expiry(t) <= detectNow}

DueShrinks ==
  [][detectNow' = detectNow => /\ Due' \subseteq Due
                               /\ Fire => Due' # Due]_vars

=============================================================================
