--------------------------- MODULE TimerHeapProofs ---------------------------
(***************************************************************************)
(* What holds of the timers for any number of them, any intervals and any  *)
(* clock: in the middle of every loop a timer knows its place, outside the *)
(* loops the heap is one, no due timer is missed, and TimerManager keeps   *)
(* the promise of module TimerService.                                     *)
(***************************************************************************)
EXTENDS TimerHeap, SequenceTheorems, WellFoundedInduction, TLAPS

-----------------------------------------------------------------------------
(* The inductive invariant *)

InLoop == pc \in {"up", "down"}

Ordered(h) == \A i \in 2..Len(h) : h[i \div 2].time <= h[i].time

(* What is below place k is not earlier than what is above it. *)
Between(h, k) == k > 1 => \A i \in 2..Len(h) : i \div 2 = k => h[k \div 2].time <= h[i].time

(* Only the entry at place k may be earlier than its parent. *)
OrderedBut(h, k) ==
  /\ \A i \in 2..Len(h) : i # k => h[i \div 2].time <= h[i].time
  /\ Between(h, k)

(* Only the children of place k may be earlier than their parent. *)
OrderedBelow(h, k) ==
  /\ \A i \in 2..Len(h) : i \div 2 # k => h[i \div 2].time <= h[i].time
  /\ Between(h, k)

HeapOK ==
  /\ ~InLoop => Ordered(heap)
  /\ pc = "up" => OrderedBut(heap, at)
  /\ pc = "down" => OrderedBelow(heap, at)

(* Where the loops are, and the timer that is out of the heap meanwhile. *)
LoopOK ==
  /\ InLoop => at \in 1..(Len(heap) + 1)
  /\ pc = "up" => at <= Len(heap)
  /\ ~InLoop => then = "return"
  /\ cur = NoTimer <=> then = "return"
  /\ cur # NoTimer => heapIndex[cur] \notin 1..Len(heap)

(* A timer fires from its removal until its callback returned, in a
   detection that began before now.                                       *)
FiringOK ==
  /\ timer = NoTimer <=> pc \in {"idle", "detect"} \/ (InLoop /\ caller = "idle" /\ then # "onTimer")
  /\ detectNow <= now
  /\ interval \in [Timers -> Intervals]

IInv ==
  /\ TypeOK
  /\ IndexOK
  /\ HeapOK
  /\ LoopOK
  /\ FiringOK

-----------------------------------------------------------------------------
(* Places of a heap *)

(* The parent of a place. *)
LEMMA ParentIs ==
  /\ \A i \in Nat : i >= 2 => i \div 2 \in Nat /\ i \div 2 >= 1 /\ i \div 2 < i
  /\ \A i \in Nat : i = 2 * (i \div 2) \/ i = 2 * (i \div 2) + 1
  /\ \A i, k \in Nat : i = 2 * k \/ i = 2 * k + 1 => i \div 2 = k
  OBVIOUS

(* Entries have times and timers. *)
LEMMA EntriesAre ==
  ASSUME NEW h \in Seq(Entries)
  PROVE  /\ Len(h) \in Nat
         /\ \A i \in 1..Len(h) : h[i] \in Entries /\ h[i].time \in Nat /\ h[i].timer \in Timers
  <1>1. \A i \in 1..Len(h) : h[i] \in Entries
    OBVIOUS
  <1> QED BY <1>1 DEF Entries

(* Swapping two entries moves these two only. *)
LEMMA SwappedIs ==
  ASSUME NEW h \in Seq(Entries), NEW i \in 1..Len(h), NEW j \in 1..Len(h)
  PROVE  /\ Swapped(h, i, j) \in Seq(Entries) /\ Len(Swapped(h, i, j)) = Len(h)
         /\ Swapped(h, i, j)[i] = h[j] /\ Swapped(h, i, j)[j] = h[i]
         /\ \A k \in 1..Len(h) : k # i /\ k # j => Swapped(h, i, j)[k] = h[k]
  <1>1. h[i] \in Entries /\ h[j] \in Entries
    OBVIOUS
  <1> QED BY <1>1 DEF Swapped

(* pop_back takes the last entry off and no other. *)
LEMMA PoppedIs ==
  ASSUME NEW h \in Seq(Entries), Len(h) > 0
  PROVE  /\ Popped(h) \in Seq(Entries) /\ Len(Popped(h)) = Len(h) - 1
         /\ \A k \in 1..(Len(h) - 1) : Popped(h)[k] = h[k]
  <1>1. \A k \in 1..(Len(h) - 1) : h[k] \in Entries
    OBVIOUS
  <1>2. Len(h) \in Nat /\ Len(h) - 1 \in Nat
    OBVIOUS
  <1>3. Popped(h) = [k \in 1..(Len(h) - 1) |-> h[k]]
    BY <1>2 DEF Popped
  <1> QED BY <1>1, <1>2, <1>3

(* The heap without the entry at place i, the last one in its place. *)
Without(h, i) == Popped(Swapped(h, i, Len(h)))

(* Removal puts the last entry in the removed one's place. *)
LEMMA WithoutIs ==
  ASSUME NEW h \in Seq(Entries), NEW i \in 1..Len(h)
  PROVE  /\ Without(h, i) \in Seq(Entries) /\ Len(Without(h, i)) = Len(h) - 1
         /\ \A k \in 1..(Len(h) - 1) : Without(h, i)[k] = IF k = i THEN h[Len(h)] ELSE h[k]
  <1>1. Len(h) \in 1..Len(h) /\ Len(h) > 0
    BY EntriesAre
  <1> DEFINE z == Swapped(h, i, Len(h))
  <1>2. /\ z \in Seq(Entries) /\ Len(z) = Len(h) /\ z[i] = h[Len(h)] /\ z[Len(h)] = h[i]
        /\ \A k \in 1..Len(h) : k # i /\ k # Len(h) => z[k] = h[k]
    BY <1>1, SwappedIs
  <1> HIDE DEF z
  <1>3. /\ Popped(z) \in Seq(Entries) /\ Len(Popped(z)) = Len(h) - 1
        /\ \A k \in 1..(Len(h) - 1) : Popped(z)[k] = z[k]
    BY <1>1, <1>2, PoppedIs
  <1>4. \A k \in 1..(Len(h) - 1) : k \in 1..Len(h) /\ k # Len(h)
    BY <1>1
  <1> QED BY <1>2, <1>3, <1>4 DEF Without, z

-----------------------------------------------------------------------------
(* The loops keep the heap a heap but for one place *)

(* A new last entry may only have to rise. *)
LEMMA AppendedRises ==
  ASSUME NEW h \in Seq(Entries), Ordered(h), NEW e \in Entries
  PROVE  /\ Append(h, e) \in Seq(Entries) /\ Len(Append(h, e)) = Len(h) + 1
         /\ Append(h, e)[Len(h) + 1] = e /\ \A i \in 1..Len(h) : Append(h, e)[i] = h[i]
         /\ OrderedBut(Append(h, e), Len(h) + 1)
  <1> DEFINE z == Append(h, e)
             n == Len(h)
  <1>1. n \in Nat /\ z \in Seq(Entries) /\ Len(z) = n + 1 /\ z[n + 1] = e /\ \A i \in 1..n : z[i] = h[i]
    OBVIOUS
  <1> HIDE DEF z, n
  <1>2. ASSUME NEW i \in 2..Len(z), i # n + 1 PROVE z[i \div 2].time <= z[i].time
    <2>1. i \in 2..n /\ i \in 1..n /\ i \div 2 \in 1..n
      BY <1>1, <1>2, ParentIs
    <2> QED BY <1>1, <2>1 DEF Ordered, n
  <1>3. ASSUME NEW i \in 2..Len(z) PROVE i \div 2 # n + 1
    BY <1>1, ParentIs
  <1> QED BY <1>1, <1>2, <1>3 DEF OrderedBut, Between, z, n

(* The entry that takes the place of a removed one has to rise or to sink. *)
LEMMA RemovedMends ==
  ASSUME NEW h \in Seq(Entries), Ordered(h), NEW i \in 1..Len(h), NEW z, z = Without(h, i)
  PROVE  IF i > 1 /\ i < Len(h) /\ z[i].time < z[i \div 2].time
         THEN OrderedBut(z, i) ELSE OrderedBelow(z, i)
  <1> DEFINE n == Len(h)
  <1>1. /\ z \in Seq(Entries) /\ Len(z) = n - 1 /\ n \in Nat /\ i \in Nat /\ 1 <= i /\ i <= n
        /\ \A k \in 1..(n - 1) : z[k] = IF k = i THEN h[n] ELSE h[k]
    <2>1. n \in Nat /\ i \in Nat /\ 1 <= i /\ i <= n
      BY EntriesAre
    <2>2. /\ Without(h, i) \in Seq(Entries) /\ Len(Without(h, i)) = n - 1
          /\ \A k \in 1..(n - 1) : Without(h, i)[k] = IF k = i THEN h[n] ELSE h[k]
      BY WithoutIs
    <2> QED BY <2>1, <2>2
  <1>2. /\ \A k \in 1..n : h[k].time \in Nat
        /\ \A k \in 1..(n - 1) : z[k].time \in Nat
    BY <1>1, EntriesAre
  <1>3. \A k \in 2..n : h[k \div 2].time <= h[k].time
    BY DEF Ordered
  <1> HIDE DEF n
  <1>4. \A k \in 2..(n - 1) : k \in Nat /\ k >= 2 /\ k \in 1..(n - 1) /\ k \in 2..n /\ k \div 2 \in 1..(n - 1)
                              /\ k \div 2 < k
    BY <1>1, ParentIs
  <1>5. \A k \in 2..(n - 1) : k # i /\ k \div 2 # i => z[k \div 2].time <= z[k].time
    BY <1>1, <1>3, <1>4
  <1>6. Between(z, i)
    <2> SUFFICES ASSUME i > 1, NEW k \in 2..(n - 1), k \div 2 = i PROVE z[i \div 2].time <= z[k].time
      BY <1>1 DEF Between
    <2>1. i < k /\ i \in 2..n /\ i \div 2 \in 1..(n - 1) /\ i \div 2 # i /\ k # i /\ i \in 1..n /\ i \div 2 \in 1..n
      BY <1>1, <1>4, ParentIs
    <2>2. h[i \div 2].time <= h[i].time /\ h[i].time <= h[k].time
      BY <1>3, <1>4, <2>1
    <2>3. z[i \div 2] = h[i \div 2] /\ z[k] = h[k] /\ k \in 1..n
      BY <1>1, <1>4, <2>1
    <2> QED BY <1>2, <2>1, <2>2, <2>3
  <1>7. CASE i > 1 /\ i < n /\ z[i].time < z[i \div 2].time
    (* what rises is earlier than the parent of the removed entry *)
    <2> SUFFICES ASSUME NEW k \in 2..(n - 1), k # i PROVE z[k \div 2].time <= z[k].time
      BY <1>1, <1>6, <1>7 DEF OrderedBut, n
    <2>1. CASE k \div 2 # i
      BY <1>5, <2>1
    <2>2. CASE k \div 2 = i
      <3>1. z[i \div 2].time <= z[k].time
        BY <1>1, <1>6, <1>7, <2>2 DEF Between
      <3>2. i \in 2..(n - 1) /\ i \div 2 \in 1..(n - 1) /\ i \in 1..(n - 1)
        BY <1>1, <1>4, <1>7
      <3>3. z[i].time \in Nat /\ z[i \div 2].time \in Nat /\ z[k].time \in Nat /\ z[k \div 2] = z[i]
        BY <1>2, <1>4, <2>2, <3>2
      <3> QED BY <1>7, <3>1, <3>3
    <2> QED BY <2>1, <2>2
  <1>8. CASE ~(i > 1 /\ i < n /\ z[i].time < z[i \div 2].time)
    <2> SUFFICES ASSUME NEW k \in 2..(n - 1), k \div 2 # i PROVE z[k \div 2].time <= z[k].time
      BY <1>1, <1>6, <1>8 DEF OrderedBelow, n
    <2>1. CASE k # i
      BY <1>5, <2>1
    <2>2. CASE k = i
      <3>1. i > 1 /\ i < n /\ i \in 1..(n - 1) /\ i \div 2 \in 1..(n - 1)
        BY <1>1, <1>4, <2>2
      <3> QED BY <1>2, <1>8, <2>2, <3>1
    <2> QED BY <2>1, <2>2
  <1> QED BY <1>7, <1>8 DEF n

(* A round of UpHeap. *)
LEMMA RiseSwap ==
  ASSUME NEW h \in Seq(Entries), NEW k \in 2..Len(h), OrderedBut(h, k),
         h[k].time < h[k \div 2].time, NEW z, z = Swapped(h, k, k \div 2)
  PROVE  OrderedBut(z, k \div 2)
  <1> DEFINE n == Len(h)
             p == k \div 2
  <1>1. n \in Nat /\ k \in 1..n /\ p \in 1..n /\ p < k /\ \A i \in 1..n : h[i].time \in Nat
    BY EntriesAre, ParentIs
  <1>2. /\ z \in Seq(Entries) /\ Len(z) = n /\ z[k] = h[p] /\ z[p] = h[k]
        /\ \A i \in 1..n : i # k /\ i # p => z[i] = h[i]
    BY <1>1, SwappedIs
  <1>3. \A i \in 2..n : i # k => h[i \div 2].time <= h[i].time
    BY DEF OrderedBut
  <1>4. \A i \in 2..n : i \div 2 = k => h[p].time <= h[i].time
    BY DEF OrderedBut, Between
  <1>5. h[k].time < h[p].time
    OBVIOUS
  <1>6. \A i \in 2..n : i \in 1..n /\ i \div 2 \in 1..n /\ i \div 2 < i
    BY <1>1, ParentIs
  <1>7. k \div 2 = p /\ k \in 2..n
    OBVIOUS
  <1> HIDE DEF n, p
  <1>8. ASSUME NEW i \in 2..n, i # p PROVE z[i \div 2].time <= z[i].time
    <2>1. CASE i = k
      BY <1>1, <1>2, <1>5, <1>7, <2>1
    <2>2. CASE i # k /\ i \div 2 = p
      <3>1. z[i \div 2] = h[k] /\ z[i] = h[i] /\ h[i \div 2].time <= h[i].time
        BY <1>2, <1>3, <1>6, <1>8, <2>2
      <3>2. h[k].time \in Nat /\ h[p].time \in Nat /\ h[i].time \in Nat /\ h[p].time <= h[i].time
        BY <1>1, <1>6, <2>2, <3>1
      <3>3. h[k].time <= h[i].time
        BY <1>5, <3>2
      <3>4. z[i \div 2] = h[k] /\ z[i] = h[i]
        BY <3>1
      <3> QED BY <3>3, <3>4
    <2>3. CASE i # k /\ i \div 2 = k
      <3>1. z[i \div 2] = h[p] /\ z[i] = h[i]
        BY <1>2, <1>6, <1>8, <2>3
      <3> QED BY <1>4, <2>3, <3>1
    <2>4. CASE i # k /\ i \div 2 # p /\ i \div 2 # k
      BY <1>2, <1>3, <1>6, <1>8, <2>4
    <2> QED BY <2>1, <2>2, <2>3, <2>4
  <1>9. ASSUME p > 1, NEW i \in 2..n, i \div 2 = p PROVE z[p \div 2].time <= z[i].time
    <2>1. p \in 2..n /\ p \div 2 \in 1..n /\ p \div 2 < p /\ p # k
      BY <1>1, <1>6, <1>9
    <2>2. h[p \div 2].time <= h[p].time /\ z[p \div 2] = h[p \div 2]
      BY <1>1, <1>2, <1>3, <2>1
    <2>3. CASE i = k
      BY <1>2, <2>2, <2>3
    <2>4. CASE i # k
      <3>1. h[i \div 2].time <= h[i].time /\ i \in 1..n /\ i # p
        BY <1>3, <1>6, <1>9, <2>4
      <3>2. h[p].time <= h[i].time /\ z[i] = h[i]
        BY <1>2, <1>9, <2>4, <3>1
      <3>3. h[p].time \in Nat /\ h[i].time \in Nat /\ h[p \div 2].time \in Nat
        BY <1>1, <2>1, <3>1
      <3> QED BY SMTT(30), <2>2, <3>2, <3>3
    <2> QED BY <2>3, <2>4
  <1>10. OrderedBut(z, p)
    BY <1>2, <1>8, <1>9 DEF OrderedBut, Between
  <1> QED BY <1>10 DEF p

(* UpHeap ends. *)
LEMMA RiseEnds ==
  ASSUME NEW h \in Seq(Entries), NEW k \in 1..Len(h), OrderedBut(h, k),
         ~(k > 1 /\ h[k].time < h[k \div 2].time)
  PROVE  Ordered(h)
  <1> SUFFICES ASSUME NEW i \in 2..Len(h), i = k PROVE h[i \div 2].time <= h[i].time
    BY DEF Ordered, OrderedBut
  <1>1. k > 1 /\ k \div 2 \in 1..Len(h)
    BY EntriesAre, ParentIs
  <1> QED BY <1>1, EntriesAre

(* The earlier child of a place. *)
Child(h, k) ==
  LET child == 2 * k
  IN  IF child = Len(h) \/ h[child].time < h[child + 1].time THEN child ELSE child + 1

(* The smaller child is a child, and no child is earlier. *)
LEMMA ChildIs ==
  ASSUME NEW h \in Seq(Entries), NEW k \in 1..Len(h), 2 * k <= Len(h)
  PROVE  /\ Child(h, k) \in 1..Len(h) /\ Child(h, k) \div 2 = k /\ Child(h, k) \in 2..Len(h)
         /\ \A i \in 2..Len(h) : i \div 2 = k => h[Child(h, k)].time <= h[i].time
  <1> DEFINE n == Len(h)
             c == 2 * k
  <1>1. n \in Nat /\ k \in Nat /\ k >= 1 /\ c \in Nat /\ \A i \in 1..n : h[i].time \in Nat
    BY EntriesAre
  <1>2. c \in 2..n /\ (c + 1 <= n => c + 1 \in 2..n) /\ c \div 2 = k /\ (c + 1) \div 2 = k
    <2>1. c \in 2..n /\ (c + 1 <= n => c + 1 \in 2..n)
      BY <1>1
    <2>2. c + 1 \in Nat /\ c = 2 * k /\ c + 1 = 2 * k + 1
      BY <1>1
    <2> QED BY <1>1, <2>1, <2>2, ParentIs
  <1>3. \A i \in 2..n : i \div 2 = k => i = c \/ i = c + 1
    BY <1>1, ParentIs
  <1>4. Child(h, k) = IF c = n \/ h[c].time < h[c + 1].time THEN c ELSE c + 1
    BY DEF Child
  <1> HIDE DEF n, c
  <1>5. CASE c = n
    <2>1. Child(h, k) = c /\ c \in 1..n /\ h[c].time \in Nat
      BY <1>1, <1>2, <1>4, <1>5
    <2>2. ASSUME NEW i \in 2..n, i \div 2 = k PROVE h[c].time <= h[i].time
      <3>1. i = c
        BY <1>1, <1>3, <1>5, <2>2
      <3> QED BY <2>1, <3>1
    <2> QED BY <1>2, <2>1, <2>2 DEF n
  <1>6. CASE c # n
    <2>1. c + 1 <= n /\ c \in 1..n /\ c + 1 \in 1..n
      BY <1>1, <1>2, <1>6
    <2>2. h[c].time \in Nat /\ h[c + 1].time \in Nat
      BY <1>1, <2>1
    <2>3. CASE h[c].time < h[c + 1].time
      <3>1. Child(h, k) = c
        BY <1>4, <2>3
      <3>2. ASSUME NEW i \in 2..n, i \div 2 = k PROVE h[c].time <= h[i].time
        BY <1>3, <2>2, <2>3, <3>2
      <3> QED BY <1>2, <2>1, <3>1, <3>2 DEF n
    <2>4. CASE ~(h[c].time < h[c + 1].time)
      <3>1. Child(h, k) = c + 1
        BY <1>4, <1>6, <2>4
      <3>2. ASSUME NEW i \in 2..n, i \div 2 = k PROVE h[c + 1].time <= h[i].time
        BY <1>3, <2>2, <2>4, <3>2
      <3> QED BY <1>2, <2>1, <3>1, <3>2 DEF n
    <2> QED BY <2>3, <2>4
  <1> QED BY <1>5, <1>6

(* A round of DownHeap. *)
LEMMA SinkSwap ==
  ASSUME NEW h \in Seq(Entries), NEW k \in 1..Len(h), 2 * k <= Len(h), OrderedBelow(h, k),
         NEW m, m = Child(h, k), ~(h[k].time < h[m].time), NEW z, z = Swapped(h, k, m)
  PROVE  OrderedBelow(z, m)
  <1> DEFINE n == Len(h)
  <1>1. n \in Nat /\ \A i \in 1..n : h[i].time \in Nat
    BY EntriesAre
  <1>2. m \in 1..n /\ m \in 2..n /\ m \div 2 = k /\ \A i \in 2..n : i \div 2 = k => h[m].time <= h[i].time
    BY ChildIs
  <1>3. /\ z \in Seq(Entries) /\ Len(z) = n /\ z[k] = h[m] /\ z[m] = h[k]
        /\ \A i \in 1..n : i # k /\ i # m => z[i] = h[i]
    BY ZenonT(40), <1>2, SwappedIs
  <1>4. \A i \in 2..n : i \div 2 # k => h[i \div 2].time <= h[i].time
    BY DEF OrderedBelow
  <1>5. k > 1 => \A i \in 2..n : i \div 2 = k => h[k \div 2].time <= h[i].time
    BY DEF OrderedBelow, Between
  <1>6. \A i \in 2..n : i \in 1..n /\ i \div 2 \in 1..n /\ i \div 2 < i
    BY <1>1, ParentIs
  <1>7. k \in 1..n /\ k < m /\ h[m].time <= h[k].time
    BY <1>1, <1>2, <1>6
  <1> HIDE DEF n
  <1>8. ASSUME NEW i \in 2..n, i \div 2 # m PROVE z[i \div 2].time <= z[i].time
    <2>1. CASE i = m
      BY <1>2, <1>3, <1>7, <2>1
    <2>2. CASE i # m /\ i \div 2 = k
      <3>1. i # k
        BY <1>6, <2>2
      <3> QED BY <1>2, <1>3, <1>6, <2>2, <3>1
    <2>3. CASE i = k
      <3>1. k > 1 /\ i \div 2 # k /\ z[i \div 2] = h[k \div 2] /\ z[i] = h[m]
        BY <1>3, <1>6, <1>8, <2>3
      <3> QED BY <1>2, <1>5, <2>3, <3>1
    <2>4. CASE i # m /\ i # k /\ i \div 2 # k
      BY <1>3, <1>4, <1>6, <1>8, <2>4
    <2> QED BY <2>1, <2>2, <2>3, <2>4
  <1>9. ASSUME NEW i \in 2..n, i \div 2 = m PROVE z[m \div 2].time <= z[i].time
    <2>1. i # m /\ i # k /\ h[m].time <= h[i].time
      BY <1>4, <1>6, <1>7, <1>9
    <2> QED BY <1>2, <1>3, <1>6, <2>1
  <1> QED BY <1>3, <1>8, <1>9 DEF OrderedBelow, Between, n

(* DownHeap ends. *)
LEMMA SinkEnds ==
  ASSUME NEW h \in Seq(Entries), NEW k \in 1..(Len(h) + 1), OrderedBelow(h, k),
         ~(2 * k <= Len(h) /\ ~(h[k].time < h[Child(h, k)].time))
  PROVE  Ordered(h)
  <1> SUFFICES ASSUME NEW i \in 2..Len(h), i \div 2 = k PROVE h[i \div 2].time <= h[i].time
    BY DEF Ordered, OrderedBelow
  <1>1. 2 * k <= Len(h) /\ k \in 1..Len(h) /\ i \in 1..Len(h)
    BY EntriesAre, ParentIs
  <1>2. h[k].time < h[Child(h, k)].time /\ h[Child(h, k)].time <= h[i].time /\ Child(h, k) \in 1..Len(h)
    BY <1>1, ChildIs
  <1> QED BY <1>1, <1>2, EntriesAre

-----------------------------------------------------------------------------
(* A timer and its entry *)

(* When the timer is due by its entry. *)
Time(t) == IF heapIndex[t] = 0 THEN Off ELSE heap[heapIndex[t]].time

(* The entry of a timer, by IndexOK. *)
LEMMA EntryIs ==
  ASSUME TypeOK, IndexOK
  PROVE  /\ heap \in Seq(Entries) /\ Len(heap) \in Nat /\ NoTimer \notin Timers
         /\ \A t \in Timers : heapIndex[t] \in Nat
         /\ \A i \in 1..Len(heap) : /\ heap[i] \in Entries /\ heap[i].timer \in Timers /\ heap[i].time \in Nat
                                    /\ heapIndex[heap[i].timer] = i
         /\ \A t \in Timers \ {cur} : heapIndex[t] # 0 =>
              heapIndex[t] \in 1..Len(heap) /\ heap[heapIndex[t]].timer = t
  <1>1. heap \in Seq(Entries) /\ \A t \in Timers : heapIndex[t] \in Nat
    BY DEF TypeOK
  <1>2. /\ Len(heap) \in Nat
        /\ \A i \in 1..Len(heap) : heap[i] \in Entries /\ heap[i].timer \in Timers /\ heap[i].time \in Nat
    BY <1>1, EntriesAre
  <1> QED BY <1>1, <1>2, TimerAssumption DEF IndexOK

(* What a step leaves of the index: every entry is its timer's, and every
   timer but one that is out of the heap has its entry.                   *)
Indexed(out) ==
  /\ \A i \in 1..Len(heap) : heapIndex[heap[i].timer] = i
  /\ \A u \in Timers : u \notin out /\ heapIndex[u] # 0 =>
       heapIndex[u] <= Len(heap) /\ heap[heapIndex[u]].timer = u

(* AddTimer, of a timer that is not in the heap. *)
LEMMA AddTimerIs ==
  ASSUME TypeOK, IndexOK, Ordered(heap), NEW t \in Timers, heapIndex[t] \notin 1..Len(heap),
         cur \in {t, NoTimer}, NEW time \in Nat, AddTimer(t, time)
  PROVE  /\ heap' \in Seq(Entries) /\ heapIndex' \in [Timers -> Nat] /\ Indexed({})'
         /\ pc' = "up" /\ at' \in 1..Len(heap') /\ OrderedBut(heap', at')
         /\ Time(t)' = time /\ \A u \in Timers \ {t} : Time(u)' = Time(u)
  <1> SUFFICES ASSUME NEW n, n = Len(heap)
               PROVE  /\ heap' \in Seq(Entries) /\ heapIndex' \in [Timers -> Nat] /\ Indexed({})'
                      /\ pc' = "up" /\ at' \in 1..Len(heap') /\ OrderedBut(heap', at')
                      /\ Time(t)' = time /\ \A u \in Timers \ {t} : Time(u)' = Time(u)
    OBVIOUS
  <1> DEFINE e == [time |-> time, timer |-> t]
  <1>1. e \in Entries /\ e.timer = t /\ e.time = time
    BY DEF Entries
  <1> HIDE DEF e
  <1>2. /\ heap' = Append(heap, e) /\ heapIndex' = [heapIndex EXCEPT ![t] = n + 1]
        /\ pc' = "up" /\ at' = n + 1
    BY DEF AddTimer, e
  <1>3. /\ heap \in Seq(Entries) /\ n \in Nat
        /\ \A u \in Timers : heapIndex[u] \in Nat
        /\ \A i \in 1..n : heap[i].timer \in Timers /\ heapIndex[heap[i].timer] = i
        /\ \A u \in Timers \ {cur} : heapIndex[u] # 0 => heapIndex[u] \in 1..n /\ heap[heapIndex[u]].timer = u
    BY EntryIs
  <1>4. /\ heap' \in Seq(Entries) /\ Len(heap') = n + 1 /\ heap'[n + 1] = e
        /\ \A i \in 1..n : heap'[i] = heap[i]
        /\ OrderedBut(heap', n + 1)
    BY <1>1, <1>2, <1>3, AppendedRises
  <1>5. heapIndex' \in [Timers -> Nat] /\ heapIndex'[t] = n + 1 /\ \A u \in Timers \ {t} : heapIndex'[u] = heapIndex[u]
    BY <1>2, <1>3 DEF TypeOK
  <1>6. ASSUME NEW i \in 1..(n + 1) PROVE heapIndex'[heap'[i].timer] = i
    <2>1. CASE i = n + 1
      BY <1>1, <1>4, <1>5, <2>1
    <2>2. CASE i # n + 1
      <3>1. i \in 1..n
        BY <1>3, <2>2
      <3>2. heap[i].timer # t
        BY <1>3, <3>1
      <3> QED BY <1>3, <1>4, <1>5, <3>1, <3>2
    <2> QED BY <2>1, <2>2
  <1>7. ASSUME NEW u \in Timers \ {t}
        PROVE  /\ heapIndex'[u] # 0 => heapIndex'[u] \in 1..n /\ heap'[heapIndex'[u]].timer = u
               /\ Time(u)' = Time(u)
    <2>1. u # cur
      BY <1>7, EntryIs
    <2>2. heapIndex'[u] = heapIndex[u] /\ (heapIndex[u] # 0 => heapIndex[u] \in 1..n /\ heap[heapIndex[u]].timer = u)
      BY <1>3, <1>5, <1>7, <2>1
    <2> QED BY <1>4, <2>2 DEF Time
  <1>8. Time(t)' = time
    BY <1>1, <1>3, <1>4, <1>5 DEF Time
  <1>9. Indexed({})'
    <2>1. ASSUME NEW u \in Timers, heapIndex'[u] # 0
          PROVE  heapIndex'[u] <= n + 1 /\ heap'[heapIndex'[u]].timer = u
      <3>1. CASE u = t
        BY <1>1, <1>3, <1>4, <1>5, <3>1
      <3>2. CASE u # t
        BY <1>3, <1>7, <2>1, <3>2
      <3> QED BY <3>1, <3>2
    <2> QED BY <1>4, <1>6, <2>1 DEF Indexed
  <1> QED BY <1>2, <1>3, <1>4, <1>5, <1>7, <1>8, <1>9

(* RemoveTimer: the last entry is in the place of the timer's. *)
LEMMA RemoveTimerIs ==
  ASSUME TypeOK, IndexOK, Ordered(heap), NEW t \in Timers, heapIndex[t] # 0, cur = NoTimer,
         NEW idx \in {0, Len(heap)}, RemoveTimer(t, idx)
  PROVE  /\ heap' \in Seq(Entries) /\ heapIndex' \in [Timers -> Nat] /\ Indexed({t})'
         /\ heapIndex'[t] = idx /\ idx \notin 1..Len(heap')
         /\ at' \in 1..(Len(heap') + 1) /\ pc' \in {"up", "down"}
         /\ pc' = "up" => at' <= Len(heap') /\ OrderedBut(heap', at')
         /\ pc' = "down" => OrderedBelow(heap', at')
         /\ \A u \in Timers \ {t} : Time(u)' = Time(u)
  <1> SUFFICES ASSUME NEW i, i = heapIndex[t], NEW n, n = Len(heap)
               PROVE  /\ heap' \in Seq(Entries) /\ heapIndex' \in [Timers -> Nat] /\ Indexed({t})'
                      /\ heapIndex'[t] = idx /\ idx \notin 1..Len(heap')
                      /\ at' \in 1..(Len(heap') + 1) /\ pc' \in {"up", "down"}
                      /\ pc' = "up" => at' <= Len(heap') /\ OrderedBut(heap', at')
                      /\ pc' = "down" => OrderedBelow(heap', at')
                      /\ \A u \in Timers \ {t} : Time(u)' = Time(u)
    OBVIOUS
  <1>1. /\ heap \in Seq(Entries) /\ n \in Nat /\ i \in 1..n /\ n \in 1..n /\ heap[i].timer = t
        /\ \A u \in Timers : heapIndex[u] \in Nat
        /\ \A k \in 1..n : heap[k].timer \in Timers /\ heapIndex[heap[k].timer] = k
        /\ \A u \in Timers : heapIndex[u] # 0 => heapIndex[u] \in 1..n /\ heap[heapIndex[u]].timer = u
    BY EntryIs
  <1>2. /\ heap' = Without(heap, i)
        /\ heapIndex' = [heapIndex EXCEPT ![heap[n].timer] = i, ![t] = idx]
        /\ at' = i
        /\ pc' = IF i > 1 /\ i < n /\ heap'[i].time < heap'[i \div 2].time THEN "up" ELSE "down"
    BY DEF RemoveTimer, Without
  <1>3. /\ heap' \in Seq(Entries) /\ Len(heap') = n - 1
        /\ \A k \in 1..(n - 1) : heap'[k] = IF k = i THEN heap[n] ELSE heap[k]
    <2>1. /\ Without(heap, i) \in Seq(Entries) /\ Len(Without(heap, i)) = Len(heap) - 1
          /\ \A k \in 1..(Len(heap) - 1) : Without(heap, i)[k] = IF k = i THEN heap[Len(heap)] ELSE heap[k]
      BY SMTT(30), <1>1, WithoutIs
    <2> QED BY <1>2, <2>1
  <1>4. /\ heapIndex' \in [Timers -> Nat] /\ heapIndex'[t] = idx
        /\ heap[n].timer # t => heapIndex'[heap[n].timer] = i
        /\ \A u \in Timers : u # t /\ u # heap[n].timer => heapIndex'[u] = heapIndex[u]
    BY <1>1, <1>2 DEF TypeOK
  <1>5. idx \notin 1..(n - 1)
    BY <1>1
  <1>6. i = n <=> heap[n].timer = t
    BY <1>1
  <1>7. ASSUME NEW k \in 1..(n - 1) PROVE heapIndex'[heap'[k].timer] = k
    <2>1. CASE k = i
      <3>1. heap'[k] = heap[n] /\ heap[n].timer # t
        BY <1>1, <1>3, <1>6, <1>7, <2>1
      <3> QED BY <1>4, <2>1, <3>1
    <2>2. CASE k # i
      <3>1. k \in 1..n /\ k # n /\ heap'[k] = heap[k]
        BY <1>1, <1>3, <1>7, <2>2
      <3>2. heap[k].timer # t /\ heap[k].timer # heap[n].timer
        BY <1>1, <2>2, <3>1
      <3> QED BY <1>1, <1>4, <3>1, <3>2
    <2> QED BY <2>1, <2>2
  <1>8. ASSUME NEW u \in Timers \ {t}
        PROVE  /\ heapIndex'[u] # 0 => heapIndex'[u] \in 1..(n - 1) /\ heap'[heapIndex'[u]].timer = u
               /\ Time(u)' = Time(u)
    <2>1. CASE u = heap[n].timer
      <3>1. heapIndex'[u] = i /\ i # n /\ heapIndex[u] = n
        BY <1>1, <1>4, <1>6, <1>8, <2>1
      <3>2. i \in 1..(n - 1) /\ n # 0 /\ i # 0
        BY <1>1, <3>1
      <3>3. heap'[i] = heap[n]
        BY <1>3, <3>2
      <3> QED BY <2>1, <3>1, <3>2, <3>3 DEF Time
    <2>2. CASE u # heap[n].timer
      <3>1. heapIndex'[u] = heapIndex[u]
        BY <1>4, <1>8, <2>2
      <3>2. CASE heapIndex[u] = 0
        BY <3>1, <3>2 DEF Time
      <3>3. CASE heapIndex[u] # 0
        <4>1. heapIndex[u] \in 1..n /\ heap[heapIndex[u]].timer = u /\ heapIndex[u] # i /\ heapIndex[u] # n
          BY <1>1, <1>8, <2>2, <3>3
        <4>2. heapIndex[u] \in 1..(n - 1) /\ heap'[heapIndex[u]] = heap[heapIndex[u]]
          BY <1>1, <1>3, <4>1
        <4> QED BY <3>1, <4>1, <4>2 DEF Time
      <3> QED BY <3>2, <3>3
    <2> QED BY <2>1, <2>2
  <1>9. IF i > 1 /\ i < n /\ heap'[i].time < heap'[i \div 2].time
        THEN OrderedBut(heap', i) ELSE OrderedBelow(heap', i)
    BY <1>1, <1>2, RemovedMends
  <1>10. at' \in 1..(Len(heap') + 1) /\ (pc' = "up" => at' <= Len(heap'))
    BY <1>1, <1>2, <1>3
  <1>11. Indexed({t})'
    BY <1>1, <1>3, <1>7, <1>8 DEF Indexed
  <1> QED BY <1>1, <1>2, <1>3, <1>4, <1>5, <1>8, <1>9, <1>10, <1>11

(* A round of either loop. *)
LEMMA SwapHeapIs ==
  ASSUME TypeOK, IndexOK, NEW i \in 1..Len(heap), NEW j \in 1..Len(heap), i # j,
         cur # NoTimer => heapIndex[cur] \notin 1..Len(heap), NEW c, c = cur, SwapHeap(i, j)
  PROVE  /\ heap' = Swapped(heap, i, j) /\ heap' \in Seq(Entries) /\ heapIndex' \in [Timers -> Nat]
         /\ Len(heap') = Len(heap) /\ Indexed({c})'
         /\ cur # NoTimer => heapIndex'[cur] = heapIndex[cur]
         /\ \A u \in Timers \ {c} : Time(u)' = Time(u)
  <1> SUFFICES ASSUME NEW a, a = heap[i].timer, NEW b, b = heap[j].timer, NEW n, n = Len(heap)
               PROVE  /\ heap' = Swapped(heap, i, j) /\ heap' \in Seq(Entries) /\ heapIndex' \in [Timers -> Nat]
                      /\ Len(heap') = n /\ Indexed({c})'
                      /\ cur # NoTimer => heapIndex'[cur] = heapIndex[cur]
                      /\ \A u \in Timers \ {c} : Time(u)' = Time(u)
    OBVIOUS
  <1>1. /\ heap \in Seq(Entries) /\ n \in Nat /\ i \in 1..n /\ j \in 1..n /\ i # 0 /\ j # 0
        /\ \A u \in Timers : heapIndex[u] \in Nat
        /\ \A k \in 1..n : heap[k].timer \in Timers /\ heapIndex[heap[k].timer] = k
        /\ \A u \in Timers \ {cur} : heapIndex[u] # 0 => heapIndex[u] \in 1..n /\ heap[heapIndex[u]].timer = u
    BY EntryIs
  <1>2. heap' = Swapped(heap, i, j) /\ heapIndex' = [heapIndex EXCEPT ![a] = j, ![b] = i] /\ cur' = cur
    BY DEF SwapHeap
  <1>3. /\ heap' \in Seq(Entries) /\ Len(heap') = n /\ heap'[i] = heap[j] /\ heap'[j] = heap[i]
        /\ \A k \in 1..n : k # i /\ k # j => heap'[k] = heap[k]
    <2>1. /\ Swapped(heap, i, j) \in Seq(Entries) /\ Len(Swapped(heap, i, j)) = Len(heap)
          /\ Swapped(heap, i, j)[i] = heap[j] /\ Swapped(heap, i, j)[j] = heap[i]
          /\ \A k \in 1..Len(heap) : k # i /\ k # j => Swapped(heap, i, j)[k] = heap[k]
      BY ZenonT(40), <1>1, SwappedIs
    <2> QED BY <1>2, <2>1
  <1>4. a \in Timers /\ b \in Timers /\ heapIndex[a] = i /\ heapIndex[b] = j /\ a # b
    BY <1>1
  <1>5. /\ heapIndex' \in [Timers -> Nat] /\ heapIndex'[a] = j /\ heapIndex'[b] = i
        /\ \A u \in Timers : u # a /\ u # b => heapIndex'[u] = heapIndex[u]
    BY <1>1, <1>2, <1>4 DEF TypeOK
  <1>6. ASSUME NEW k \in 1..n PROVE heapIndex'[heap'[k].timer] = k
    <2>1. CASE k = i \/ k = j
      BY <1>3, <1>5, <2>1
    <2>2. CASE k # i /\ k # j
      <3>1. heap'[k] = heap[k] /\ heap[k].timer \in Timers /\ heap[k].timer # a /\ heap[k].timer # b
        BY <1>1, <1>3, <1>4, <2>2
      <3> QED BY <1>1, <1>5, <3>1
    <2> QED BY <2>1, <2>2
  <1>7. ASSUME NEW u \in Timers \ {cur}
        PROVE  /\ heapIndex'[u] # 0 => heapIndex'[u] \in 1..n /\ heap'[heapIndex'[u]].timer = u
               /\ Time(u)' = Time(u)
    <2>1. CASE u = a
      BY <1>1, <1>3, <1>4, <1>5, <2>1 DEF Time
    <2>2. CASE u = b
      BY <1>1, <1>3, <1>4, <1>5, <2>2 DEF Time
    <2>3. CASE u # a /\ u # b
      <3>1. heapIndex'[u] = heapIndex[u]
        BY <1>5, <2>3
      <3>2. heapIndex[u] # 0 => heapIndex[u] \in 1..n /\ heapIndex[u] # i /\ heapIndex[u] # j /\ heap[heapIndex[u]].timer = u
        BY <1>1, <1>7, <2>3
      <3>3. heapIndex[u] # 0 => heap'[heapIndex[u]] = heap[heapIndex[u]]
        BY <1>3, <3>2
      <3> QED BY <3>1, <3>2, <3>3 DEF Time
    <2> QED BY <2>1, <2>2, <2>3
  <1>8. cur # NoTimer => heapIndex'[cur] = heapIndex[cur]
    <2>1. cur # NoTimer => cur \in Timers /\ cur # a /\ cur # b
      BY <1>1, <1>4 DEF TypeOK
    <2> QED BY <1>5, <2>1
  <1>9. Indexed({c})'
    <2>1. ASSUME NEW u \in Timers, u \notin {c}, heapIndex'[u] # 0
          PROVE  heapIndex'[u] <= Len(heap') /\ heap'[heapIndex'[u]].timer = u
      <3>1. heapIndex'[u] \in 1..n /\ heap'[heapIndex'[u]].timer = u
        BY <1>7, <2>1
      <3> QED BY <1>1, <1>3, <3>1
    <2> QED BY <1>3, <1>6, <2>1 DEF Indexed
  <1> QED BY <1>2, <1>3, <1>5, <1>7, <1>8, <1>9

-----------------------------------------------------------------------------
(* The steps *)

(* A step that leaves the heap alone. *)
LEMMA HeapAlone ==
  ASSUME IInv, UNCHANGED <<heap, heapIndex, settings>>, ~InLoop, ~InLoop',
         UNCHANGED <<at, cur, then, caller>>, pc' \in {"idle", "detect", "callback"},
         now' \in Nat, detectNow' \in Nat, timer' \in Timers \cup {NoTimer}, FiringOK'
  PROVE  IInv'
  <1>1. UNCHANGED <<heap, heapIndex, expires, interval, circle>>
    BY DEF settings
  <1>2. TypeOK'
    BY <1>1 DEF IInv, TypeOK
  <1>3. IndexOK'
    BY <1>1 DEF IInv, IndexOK
  <1>4. HeapOK' /\ LoopOK'
    BY <1>1 DEF IInv, HeapOK, LoopOK, InLoop
  <1> QED BY <1>2, <1>3, <1>4 DEF IInv

(* DetectTimers reads the clock. *)
LEMMA DetectTimersStep == ASSUME IInv, DetectTimers PROVE IInv'
  <1>1. /\ pc = "idle" /\ pc' = "detect" /\ detectNow' = now
        /\ UNCHANGED <<timer, heap, heapIndex, settings, now, at, cur, then, caller>>
    BY DEF DetectTimers
  <1>2. now \in Nat /\ timer \in Timers \cup {NoTimer}
    BY DEF IInv, TypeOK
  <1>3. FiringOK'
    BY <1>1, <1>2 DEF IInv, FiringOK, settings, InLoop
  <1> QED BY <1>1, <1>2, <1>3, HeapAlone DEF InLoop

(* A callback returns to DetectTimers. *)
LEMMA CallbackReturnsStep == ASSUME IInv, CallbackReturns PROVE IInv'
  <1>1. /\ pc = "callback" /\ pc' = "detect" /\ timer' = NoTimer
        /\ UNCHANGED <<heap, heapIndex, settings, now, at, cur, then, caller, detectNow>>
    BY DEF CallbackReturns
  <1>2. now \in Nat /\ detectNow \in Nat
    BY DEF IInv, TypeOK
  <1>3. FiringOK'
    BY <1>1, <1>2 DEF IInv, FiringOK, settings, InLoop
  <1> QED BY <1>1, <1>2, <1>3, HeapAlone DEF InLoop

(* Nothing is due: DetectTimers returns. *)
LEMMA DetectReturnsStep == ASSUME IInv, DetectReturns PROVE IInv'
  <1>1. /\ pc = "detect" /\ pc' = "idle"
        /\ UNCHANGED <<heap, heapIndex, settings, now, at, cur, then, caller, detectNow, timer>>
    BY DEF DetectReturns, detect
  <1>2. now \in Nat /\ detectNow \in Nat /\ timer \in Timers \cup {NoTimer}
    BY DEF IInv, TypeOK
  <1>3. FiringOK'
    BY <1>1, <1>2 DEF IInv, FiringOK, settings, InLoop
  <1> QED BY <1>1, <1>2, <1>3, HeapAlone DEF InLoop

(* The clock moves. *)
LEMMA TickStep == ASSUME IInv, Tick PROVE IInv'
  <1>1. /\ now' = now + 1
        /\ UNCHANGED <<heap, heapIndex, expires, interval, circle, pc, at, cur, then, caller, detectNow, timer>>
    BY DEF Tick, settings, control, detect
  <1>2. now \in Nat /\ detectNow \in Nat
    BY DEF IInv, TypeOK
  <1>3. TypeOK'
    BY <1>1, <1>2 DEF IInv, TypeOK
  <1>4. IndexOK'
    BY <1>1 DEF IInv, IndexOK
  <1>5. HeapOK' /\ LoopOK'
    BY <1>1 DEF IInv, HeapOK, LoopOK, InLoop
  <1>6. FiringOK'
    BY <1>1, <1>2 DEF IInv, FiringOK, InLoop
  <1> QED BY <1>3, <1>4, <1>5, <1>6 DEF IInv

(* A step that leaves a loop to be done, for the timer c or none. *)
LEMMA LoopBegins ==
  ASSUME IInv, heap' \in Seq(Entries), heapIndex' \in [Timers -> Nat],
         NEW c \in Timers \cup {NoTimer}, cur' = c, Indexed({c})',
         c # NoTimer => heapIndex'[c] \notin 1..Len(heap'),
         at' \in 1..(Len(heap') + 1), pc' \in {"up", "down"},
         pc' = "up" => at' <= Len(heap') /\ OrderedBut(heap', at'),
         pc' = "down" => OrderedBelow(heap', at'),
         then' \in {"return", "add", "onTimer"}, c = NoTimer <=> then' = "return",
         caller' \in {"idle", "callback"}, expires' \in [Timers -> Nat],
         circle' \in [Timers -> BOOLEAN], now' = now, detectNow' = detectNow,
         timer' \in Timers \cup {NoTimer}, FiringOK'
  PROVE  IInv'
  <1>1. Len(heap') \in Nat /\ \A i \in Nat : i \in Int
    BY EntriesAre
  <1>2. TypeOK'
    <2>1. interval' \in [Timers -> Nat]
      BY TimerAssumption DEF FiringOK
    <2>2. now' \in Nat /\ detectNow' \in Nat /\ at' \in Nat
      BY <1>1 DEF IInv, TypeOK
    <2> QED BY <2>1, <2>2 DEF TypeOK
  <1>3. IndexOK'
    <2>1. ASSUME NEW u \in Timers, heapIndex'[u] # 0, u # c
          PROVE  heapIndex'[u] <= Len(heap') /\ heap'[heapIndex'[u]].timer = u
      BY <2>1 DEF Indexed
    <2> QED BY <2>1 DEF IndexOK, Indexed
  <1>4. HeapOK' /\ LoopOK'
    BY DEF HeapOK, LoopOK, InLoop
  <1> QED BY <1>2, <1>3, <1>4 DEF IInv

(* stop() or Start of a timer in the heap, and Fire: its entry is removed. *)
LEMMA RemovedStep ==
  ASSUME IInv, ~InLoop, NEW t \in Timers, heapIndex[t] # 0, NEW idx \in {0, Len(heap)},
         RemoveTimer(t, idx), cur' \in {t, NoTimer}, cur' = NoTimer => idx = 0,
         then' \in {"return", "add", "onTimer"}, cur' = NoTimer <=> then' = "return",
         caller' \in {"idle", "callback"}, expires' \in [Timers -> Nat],
         circle' \in [Timers -> BOOLEAN], now' = now, detectNow' = detectNow,
         timer' \in Timers \cup {NoTimer}, FiringOK'
  PROVE  IInv' /\ \A u \in Timers \ {t} : Time(u)' = Time(u)
  <1>1. TypeOK /\ IndexOK /\ Ordered(heap) /\ cur = NoTimer /\ NoTimer \notin Timers
    BY TimerAssumption DEF IInv, HeapOK, LoopOK
  <1>2. /\ heap' \in Seq(Entries) /\ heapIndex' \in [Timers -> Nat] /\ Indexed({t})'
        /\ heapIndex'[t] = idx /\ idx \notin 1..Len(heap')
        /\ at' \in 1..(Len(heap') + 1) /\ pc' \in {"up", "down"}
        /\ pc' = "up" => at' <= Len(heap') /\ OrderedBut(heap', at')
        /\ pc' = "down" => OrderedBelow(heap', at')
        /\ \A u \in Timers \ {t} : Time(u)' = Time(u)
    BY <1>1, RemoveTimerIs
  <1>3. CASE cur' = t
    BY <1>1, <1>2, <1>3, LoopBegins
  <1>4. CASE cur' = NoTimer
    <2>1. Indexed({NoTimer})'
      BY <1>2, <1>4 DEF Indexed
    <2> QED BY <1>1, <1>2, <1>4, <2>1, LoopBegins
  <1> QED BY <1>2, <1>3, <1>4

(* AddTimer of a timer out of the heap: by Start, or when a loop is done. *)
LEMMA AddedStep ==
  ASSUME IInv, Ordered(heap), NEW t \in Timers, heapIndex[t] \notin 1..Len(heap), cur \in {t, NoTimer},
         NEW time \in Nat, AddTimer(t, time), cur' = NoTimer, then' = "return",
         caller' \in {"idle", "callback"}, expires' \in [Timers -> Nat],
         circle' \in [Timers -> BOOLEAN], now' = now, detectNow' = detectNow,
         timer' \in Timers \cup {NoTimer}, FiringOK'
  PROVE  IInv' /\ Time(t)' = time /\ \A u \in Timers \ {t} : Time(u)' = Time(u)
  <1>1. TypeOK /\ IndexOK
    BY DEF IInv
  <1>2. /\ heap' \in Seq(Entries) /\ heapIndex' \in [Timers -> Nat] /\ Indexed({})'
        /\ pc' = "up" /\ at' \in 1..Len(heap') /\ OrderedBut(heap', at')
        /\ Time(t)' = time /\ \A u \in Timers \ {t} : Time(u)' = Time(u)
    BY <1>1, AddTimerIs
  <1>3. Indexed({NoTimer})'
    BY <1>2 DEF Indexed
  <1>4. at' \in 1..(Len(heap') + 1) /\ at' <= Len(heap')
    BY <1>2, EntriesAre
  <1> QED BY <1>2, <1>3, <1>4, LoopBegins

(* Start and stop(), by the application or in a callback. *)
LEMMA AppIs ==
  ASSUME IInv, AppHasControl
  PROVE  /\ ~InLoop /\ Ordered(heap) /\ cur = NoTimer /\ NoTimer \notin Timers
         /\ TypeOK /\ IndexOK /\ now \in Nat /\ Len(heap) \in Nat
         /\ \A t \in Timers : heapIndex[t] = 0 => heapIndex[t] \notin 1..Len(heap)
         /\ timer = NoTimer <=> pc = "idle"
  <1>1. ~InLoop
    BY DEF AppHasControl, InLoop
  <1>2. Len(heap) \in Nat /\ now \in Nat
    BY EntriesAre DEF IInv, TypeOK
  <1> QED BY <1>1, <1>2, TimerAssumption DEF IInv, HeapOK, LoopOK, FiringOK, AppHasControl

(* Start: a stopped timer is added, a running one removed first. *)
LEMMA StartStep ==
  ASSUME IInv, NEW t \in Timers, NEW iv \in Intervals, NEW c \in BOOLEAN, Start(t, iv, c)
  PROVE  /\ IInv' /\ \A u \in Timers \ {t} : Time(u)' = Time(u)
         /\ then' # "add" => Time(t)' = now + iv
  <1>1. /\ AppHasControl /\ interval' = [interval EXCEPT ![t] = iv]
        /\ circle' = [circle EXCEPT ![t] = c] /\ expires' = [expires EXCEPT ![t] = now + iv]
        /\ caller' = pc /\ now' = now /\ detectNow' = detectNow /\ timer' = timer
    BY DEF Start, detect
  <1>2. /\ ~InLoop /\ Ordered(heap) /\ cur = NoTimer /\ NoTimer \notin Timers
        /\ TypeOK /\ IndexOK /\ now \in Nat /\ Len(heap) \in Nat
        /\ \A u \in Timers : heapIndex[u] = 0 => heapIndex[u] \notin 1..Len(heap)
        /\ timer = NoTimer <=> pc = "idle"
    BY <1>1, AppIs
  <1>3. now + iv \in Nat /\ iv \in Nat
    BY <1>2, TimerAssumption
  <1>4. /\ expires' \in [Timers -> Nat] /\ circle' \in [Timers -> BOOLEAN] /\ caller' \in {"idle", "callback"}
        /\ timer' \in Timers \cup {NoTimer}
    BY <1>1, <1>2, <1>3 DEF TypeOK, AppHasControl
  <1>5. interval' \in [Timers -> Intervals] /\ detectNow' <= now'
    BY <1>1 DEF IInv, FiringOK
  <1>6. CASE heapIndex[t] = 0 /\ AddTimer(t, now + iv) /\ cur' = NoTimer /\ then' = "return"
    <2>1. FiringOK'
      BY <1>1, <1>2, <1>5, <1>6 DEF FiringOK, AddTimer, InLoop, AppHasControl
    <2> QED BY <1>1, <1>2, <1>3, <1>4, <1>6, <2>1, AddedStep
  <1>7. CASE heapIndex[t] # 0 /\ RemoveTimer(t, 0) /\ cur' = t /\ then' = "add"
    <2>1. FiringOK'
      BY <1>1, <1>2, <1>5, <1>7 DEF FiringOK, RemoveTimer, InLoop, AppHasControl
    <2> QED BY <1>1, <1>2, <1>4, <1>7, <2>1, RemovedStep
  <1> QED BY <1>6, <1>7 DEF Start

(* Stop removes a running timer. *)
LEMMA StopStep ==
  ASSUME IInv, NEW t \in Timers, Stop(t)
  PROVE  IInv' /\ (\A u \in Timers \ {t} : Time(u)' = Time(u)) /\ Time(t)' = Off
  <1>1. /\ AppHasControl /\ heapIndex[t] # 0 /\ RemoveTimer(t, 0) /\ caller' = pc
        /\ cur' = NoTimer /\ then' = "return"
        /\ UNCHANGED <<expires, interval, circle, now, detectNow, timer>>
    BY DEF Stop, settings, detect
  <1>2. /\ ~InLoop /\ Ordered(heap) /\ cur = NoTimer /\ NoTimer \notin Timers /\ TypeOK
        /\ timer = NoTimer <=> pc = "idle"
    BY <1>1, AppIs
  <1>3. /\ expires' \in [Timers -> Nat] /\ circle' \in [Timers -> BOOLEAN] /\ caller' \in {"idle", "callback"}
        /\ timer' \in Timers \cup {NoTimer}
    BY <1>1, <1>2 DEF TypeOK, AppHasControl
  <1>4. FiringOK'
    BY <1>1, <1>2 DEF IInv, FiringOK, RemoveTimer, InLoop, AppHasControl
  <1>5. heapIndex'[t] = 0
    BY <1>1, <1>2 DEF RemoveTimer, TypeOK
  <1>6. Time(t)' = Off
    BY <1>5 DEF Time
  <1> QED BY <1>1, <1>2, <1>3, <1>4, <1>6, RemovedStep

(* DetectTimers removes the first timer, that is due. *)
LEMMA FireStep ==
  ASSUME IInv, Fire
  PROVE  \E t \in Timers :
         /\ IInv' /\ \A u \in Timers \ {t} : Time(u)' = Time(u)
         /\ cur' = t /\ then' = "onTimer" /\ timer' = t /\ timer = NoTimer
         /\ cur = NoTimer /\ heapIndex[t] = 1 /\ Time(t) <= detectNow
         /\ UNCHANGED <<expires, interval, circle, now, detectNow>>
  <1>1. /\ pc = "detect" /\ heap # <<>> /\ heap[1].time <= detectNow /\ then' = "onTimer"
        /\ UNCHANGED <<expires, interval, circle, now, caller, detectNow>>
    BY DEF Fire, SomeDue, settings
  <1>2. TypeOK /\ IndexOK /\ NoTimer \notin Timers /\ cur = NoTimer /\ heap \in Seq(Entries) /\ timer = NoTimer
    BY <1>1, TimerAssumption DEF IInv, LoopOK, FiringOK, TypeOK, InLoop
  <1>3. 1 \in 1..Len(heap) /\ Len(heap) \in Nat
    BY <1>1, <1>2
  <1>4. heap[1].timer \in Timers /\ heapIndex[heap[1].timer] = 1
    BY <1>2, <1>3, EntryIs
  <1>5. SUFFICES ASSUME NEW t \in Timers, t = heap[1].timer
                 PROVE /\ IInv' /\ \A u \in Timers \ {t} : Time(u)' = Time(u)
                       /\ cur' = t /\ timer' = t /\ heapIndex[t] = 1 /\ Time(t) <= detectNow
    BY <1>1, <1>2, <1>4
  <1>6. RemoveTimer(t, Len(heap)) /\ cur' = t /\ timer' = t
    BY <1>5 DEF Fire
  <1>7. heapIndex[t] = 1 /\ Time(t) <= detectNow /\ t # NoTimer
    BY <1>1, <1>2, <1>4, <1>5 DEF Time
  <1>8. /\ expires' \in [Timers -> Nat] /\ circle' \in [Timers -> BOOLEAN] /\ caller' \in {"idle", "callback"}
    BY <1>1, <1>2 DEF TypeOK
  <1>9. FiringOK'
    BY <1>1, <1>2, <1>6, <1>7 DEF IInv, FiringOK, RemoveTimer, InLoop
  <1>10. IInv' /\ \A u \in Timers \ {t} : Time(u)' = Time(u)
    BY <1>1, <1>2, <1>6, <1>7, <1>8, <1>9, RemovedStep DEF InLoop
  <1> QED BY <1>6, <1>7, <1>10

(* A round of UpHeap or DownHeap. *)
LEMMA RoundStep ==
  ASSUME IInv, UpHeap \/ DownHeap
  PROVE  /\ IInv' /\ cur' = cur /\ then' = then /\ UNCHANGED <<expires, interval, circle, now, detectNow, timer>>
         /\ \A u \in Timers \ {cur} : Time(u)' = Time(u)
  <1>1. /\ TypeOK /\ IndexOK /\ heap \in Seq(Entries) /\ Len(heap) \in Nat
        /\ cur # NoTimer => heapIndex[cur] \notin 1..Len(heap)
        /\ InLoop => at \in 1..(Len(heap) + 1)
    BY EntryIs DEF IInv, LoopOK, TypeOK
  <1> SUFFICES ASSUME NEW c, c = cur PROVE /\ IInv' /\ cur' = cur /\ then' = then /\ UNCHANGED <<expires, interval, circle, now, detectNow, timer>>
         /\ \A u \in Timers \ {c} : Time(u)' = Time(u)
    OBVIOUS
  <1>2. CASE UpHeap
    <2>1. pc = "up" /\ at > 1 /\ heap[at].time < heap[at \div 2].time /\ SwapHeap(at, at \div 2)
      BY <1>2 DEF UpHeap, MustRise
    <2>2. /\ at \in 2..Len(heap) /\ at \in 1..Len(heap) /\ at \div 2 \in 1..Len(heap) /\ at # at \div 2
          /\ OrderedBut(heap, at)
      BY <1>1, <2>1, ParentIs DEF IInv, LoopOK, HeapOK, InLoop
    <2>3. /\ heap' = Swapped(heap, at, at \div 2) /\ heap' \in Seq(Entries) /\ heapIndex' \in [Timers -> Nat]
          /\ Len(heap') = Len(heap) /\ Indexed({c})'
          /\ cur # NoTimer => heapIndex'[cur] = heapIndex[cur]
          /\ \A u \in Timers \ {c} : Time(u)' = Time(u)
      BY ZenonT(40), <1>1, <2>1, <2>2, SwapHeapIs
    <2>4. /\ at' = at \div 2 /\ UNCHANGED <<expires, interval, circle, now, pc, cur, then, caller, detectNow, timer>>
      BY <2>1 DEF SwapHeap, settings, detect
    <2>5. OrderedBut(heap', at')
      BY <1>1, <2>1, <2>2, <2>3, <2>4, RiseSwap
    <2>6. FiringOK'
      BY <2>4 DEF IInv, FiringOK, InLoop
    <2>7. at' \in 1..(Len(heap') + 1) /\ at' <= Len(heap')
      BY <1>1, <2>2, <2>3, <2>4
    <2>8. /\ c \in Timers \cup {NoTimer} /\ (c # NoTimer => heapIndex'[c] \notin 1..Len(heap'))
          /\ (c = NoTimer <=> then' = "return") /\ cur' = c
      BY <1>1, <2>3, <2>4 DEF TypeOK, IInv, LoopOK
    <2>9. /\ then' \in {"return", "add", "onTimer"} /\ caller' \in {"idle", "callback"}
          /\ expires' \in [Timers -> Nat] /\ circle' \in [Timers -> BOOLEAN] /\ timer' \in Timers \cup {NoTimer}
      BY <1>1, <2>4 DEF TypeOK
    <2>10. IInv'
      BY <2>1, <2>3, <2>4, <2>5, <2>6, <2>7, <2>8, <2>9, LoopBegins
    <2> QED BY <2>3, <2>4, <2>10
  <1>3. CASE DownHeap
    <2>1. /\ pc = "down" /\ 2 * at <= Len(heap) /\ ~(heap[at].time < heap[Child(heap, at)].time)
          /\ SwapHeap(at, Child(heap, at))
      BY <1>3 DEF DownHeap, MustSink, MinChild, Child
    <2>2. at \in 1..Len(heap) /\ OrderedBelow(heap, at)
      BY <1>1, <2>1 DEF IInv, HeapOK, InLoop
    <2>3. SUFFICES ASSUME NEW m, m = Child(heap, at)
                   PROVE  /\ IInv' /\ cur' = cur /\ then' = then /\ UNCHANGED <<expires, interval, circle, now, detectNow, timer>>
                          /\ \A u \in Timers \ {c} : Time(u)' = Time(u)
      OBVIOUS
    <2>4. m \in 1..Len(heap) /\ m # at
      <3>1. m \in 1..Len(heap) /\ m \div 2 = at /\ m \in 2..Len(heap)
        BY <1>1, <2>1, <2>2, <2>3, ChildIs
      <3> QED BY <3>1, ParentIs
    <2>5. /\ heap' = Swapped(heap, at, m) /\ heap' \in Seq(Entries) /\ heapIndex' \in [Timers -> Nat]
          /\ Len(heap') = Len(heap) /\ Indexed({c})'
          /\ cur # NoTimer => heapIndex'[cur] = heapIndex[cur]
          /\ \A u \in Timers \ {c} : Time(u)' = Time(u)
      BY <1>1, <2>1, <2>2, <2>3, <2>4, SwapHeapIs
    <2>6. /\ at' = m /\ UNCHANGED <<expires, interval, circle, now, pc, cur, then, caller, detectNow, timer>>
      BY <2>1, <2>3 DEF SwapHeap, settings, detect
    <2>7. OrderedBelow(heap', at')
      BY <1>1, <2>1, <2>2, <2>3, <2>5, <2>6, SinkSwap
    <2>8. FiringOK'
      BY <2>6 DEF IInv, FiringOK, InLoop
    <2>9. at' \in 1..(Len(heap') + 1) /\ pc' = "down"
      BY <1>1, <2>1, <2>4, <2>5, <2>6
    <2>10. /\ c \in Timers \cup {NoTimer} /\ (c # NoTimer => heapIndex'[c] \notin 1..Len(heap'))
           /\ (c = NoTimer <=> then' = "return") /\ cur' = c
      BY <1>1, <2>5, <2>6 DEF TypeOK, IInv, LoopOK
    <2>11. /\ then' \in {"return", "add", "onTimer"} /\ caller' \in {"idle", "callback"}
           /\ expires' \in [Timers -> Nat] /\ circle' \in [Timers -> BOOLEAN] /\ timer' \in Timers \cup {NoTimer}
      BY <1>1, <2>6 DEF TypeOK
    <2>12. IInv'
      BY <2>5, <2>6, <2>7, <2>8, <2>9, <2>10, <2>11, LoopBegins
    <2> QED BY <2>5, <2>6, <2>12
  <1> QED BY <1>2, <1>3

(* A loop is done: what is next, and when each timer is due then. *)
LEMMA LoopDoneStep ==
  ASSUME IInv, LoopDone, NEW c, c = cur
  PROVE  /\ IInv' /\ cur' = IF then = "return" THEN cur ELSE NoTimer
         /\ then' = "return" /\ UNCHANGED <<interval, circle, now, detectNow, timer>>
         /\ \A u \in Timers \ {c} : Time(u)' = Time(u)
         /\ then = "add" => Time(c)' = expires[c]
         /\ then = "onTimer" /\ circle[c] => Time(c)' = interval[c] + detectNow
         /\ then = "onTimer" /\ ~circle[c] => Time(c)' = Off
  <1>1. /\ TypeOK /\ IndexOK /\ heap \in Seq(Entries) /\ Len(heap) \in Nat /\ InLoop /\ NoTimer \notin Timers
        /\ cur # NoTimer => cur \in Timers /\ heapIndex[cur] \notin 1..Len(heap)
        /\ cur = NoTimer <=> then = "return"
    BY EntryIs DEF IInv, LoopOK, TypeOK, LoopDone, InLoop
  <1>2. Ordered(heap)
    <2>1. CASE pc = "up" /\ ~MustRise
      <3>1. at \in 1..Len(heap) /\ OrderedBut(heap, at)
        BY <1>1, <2>1 DEF IInv, LoopOK, HeapOK
      <3> QED BY <1>1, <2>1, <3>1, RiseEnds DEF MustRise
    <2>2. CASE pc = "down" /\ ~MustSink
      <3>1. at \in 1..(Len(heap) + 1) /\ OrderedBelow(heap, at)
        BY <1>1, <2>2 DEF IInv, LoopOK, HeapOK
      <3>2. ~(2 * at <= Len(heap) /\ ~(heap[at].time < heap[Child(heap, at)].time))
        BY <2>2 DEF MustSink, MinChild, Child
      <3> QED BY <1>1, <3>1, <3>2, SinkEnds
    <2> QED BY <2>1, <2>2 DEF LoopDone
  <1>3. UNCHANGED <<now, detectNow, timer>>
    BY DEF LoopDone, detect
  <1>4. /\ expires \in [Timers -> Nat] /\ interval \in [Timers -> Nat] /\ circle \in [Timers -> BOOLEAN]
        /\ timer \in Timers \cup {NoTimer} /\ detectNow \in Nat /\ now \in Nat /\ caller \in {"idle", "callback"}
        /\ interval \in [Timers -> Intervals] /\ detectNow <= now
    BY <1>1 DEF TypeOK, IInv, FiringOK
  <1>5. CASE /\ then = "return"
             /\ pc' = caller /\ at' = 0
             /\ UNCHANGED <<heap, heapIndex, settings, cur, then, caller>>
    <2>1. UNCHANGED <<heap, heapIndex, expires, interval, circle, cur, then, caller>>
      BY <1>5 DEF settings
    <2>2. TypeOK'
      BY <1>1, <1>3, <1>5, <2>1 DEF TypeOK
    <2>3. IndexOK'
      BY <1>1, <2>1 DEF IndexOK
    <2>4. HeapOK' /\ LoopOK'
      BY <1>1, <1>2, <1>4, <1>5, <2>1 DEF HeapOK, LoopOK, InLoop, IInv
    <2>5. FiringOK'
      BY <1>1, <1>3, <1>4, <1>5, <2>1 DEF IInv, FiringOK, InLoop
    <2>6. \A u \in Timers : Time(u)' = Time(u)
      BY <2>1 DEF Time
    <2> QED BY <1>3, <1>5, <2>1, <2>2, <2>3, <2>4, <2>5, <2>6 DEF IInv
  <1>6. CASE /\ then = "add"
             /\ AddTimer(cur, expires[cur])
             /\ cur' = NoTimer /\ then' = "return"
             /\ UNCHANGED <<settings, caller>>
    <2>1. UNCHANGED <<expires, interval, circle, caller>>
      BY <1>6 DEF settings
    <2>2. c \in Timers /\ expires[c] \in Nat
      BY <1>1, <1>4, <1>6
    <2>3. FiringOK'
      BY <1>1, <1>3, <1>4, <1>6, <2>1 DEF IInv, FiringOK, InLoop, AddTimer
    <2>4. IInv' /\ Time(c)' = expires[c] /\ \A u \in Timers \ {c} : Time(u)' = Time(u)
      BY <1>1, <1>2, <1>3, <1>4, <1>6, <2>1, <2>2, <2>3, AddedStep
    <2> QED BY <1>3, <1>6, <2>1, <2>4
  <1>7. CASE /\ then = "onTimer" /\ circle[cur]
             /\ expires' = [expires EXCEPT ![cur] = interval[cur] + detectNow]
             /\ AddTimer(cur, interval[cur] + detectNow)
             /\ cur' = NoTimer /\ then' = "return" /\ caller' = "callback"
             /\ UNCHANGED <<interval, circle>>
    <2>1. c \in Timers /\ interval[c] + detectNow \in Nat
      BY <1>1, <1>4, <1>7
    <2>2. expires' \in [Timers -> Nat]
      BY <1>4, <1>7, <2>1
    <2>3. FiringOK'
      BY <1>1, <1>3, <1>4, <1>7 DEF IInv, FiringOK, InLoop, AddTimer
    <2>4. IInv' /\ Time(c)' = interval[c] + detectNow /\ \A u \in Timers \ {c} : Time(u)' = Time(u)
      BY <1>1, <1>2, <1>3, <1>4, <1>7, <2>1, <2>2, <2>3, AddedStep
    <2> QED BY <1>3, <1>7, <2>4
  <1>8. CASE /\ then = "onTimer" /\ ~circle[cur]
             /\ heapIndex' = [heapIndex EXCEPT ![cur] = 0]
             /\ pc' = "callback" /\ at' = 0
             /\ cur' = NoTimer /\ then' = "return"
             /\ UNCHANGED <<heap, settings, caller>>
    <2>1. UNCHANGED <<heap, expires, interval, circle, caller>>
      BY <1>8 DEF settings
    <2>2. /\ c \in Timers /\ heapIndex' \in [Timers -> Nat] /\ heapIndex'[c] = 0
          /\ \A u \in Timers \ {c} : heapIndex'[u] = heapIndex[u]
      BY <1>1, <1>8 DEF TypeOK
    <2>3. TypeOK'
      BY <1>1, <1>3, <1>8, <2>1, <2>2 DEF TypeOK
    <2>4. \A i \in 1..Len(heap) : heap[i].timer \in Timers \ {c} /\ heapIndex[heap[i].timer] = i
      <3>1. \A i \in 1..Len(heap) : heap[i].timer \in Timers /\ heapIndex[heap[i].timer] = i
        BY <1>1, EntryIs
      <3> QED BY <1>1, <1>8, <3>1
    <2>5. IndexOK'
      <3>1. \A i \in 1..Len(heap') : heapIndex'[heap'[i].timer] = i
        BY <2>1, <2>2, <2>4
      <3>2. ASSUME NEW u \in Timers, heapIndex'[u] # 0
            PROVE  heapIndex'[u] <= Len(heap') /\ heap'[heapIndex'[u]].timer = u
        <4>1. u \in Timers \ {c} /\ heapIndex'[u] = heapIndex[u]
          BY <2>2, <3>2
        <4> QED BY <1>1, <2>1, <3>2, <4>1 DEF IndexOK
      <3> QED BY <3>1, <3>2 DEF IndexOK
    <2>6. HeapOK' /\ LoopOK'
      BY <1>2, <1>8, <2>1 DEF HeapOK, LoopOK, InLoop
    <2>7. FiringOK'
      BY <1>1, <1>3, <1>4, <1>8, <2>1 DEF IInv, FiringOK, InLoop
    <2>8. Time(c)' = Off /\ \A u \in Timers \ {c} : Time(u)' = Time(u)
      BY <2>1, <2>2 DEF Time
    <2> QED BY <1>3, <1>8, <2>1, <2>3, <2>5, <2>6, <2>7, <2>8 DEF IInv
  <1> QED BY <1>5, <1>6, <1>7, <1>8 DEF LoopDone

-----------------------------------------------------------------------------
(* The invariant holds *)

(* An empty heap is a heap. *)
LEMMA InitIInv == Init => IInv
  <1> SUFFICES ASSUME Init PROVE IInv
    OBVIOUS
  <1>1. (CHOOSE i \in Intervals : TRUE) \in Intervals
    BY TimerAssumption
  <1>2. interval \in [Timers -> Intervals] /\ interval \in [Timers -> Nat]
    BY <1>1, TimerAssumption DEF Init
  <1>3. TypeOK
    BY <1>2 DEF Init, TypeOK
  <1>4. IndexOK /\ HeapOK /\ LoopOK
    BY DEF Init, IndexOK, HeapOK, LoopOK, Ordered, InLoop
  <1>5. FiringOK
    BY <1>2 DEF Init, FiringOK, InLoop
  <1> QED BY <1>3, <1>4, <1>5 DEF IInv

(* Every step keeps the invariant. *)
LEMMA NextIInv == IInv /\ [Next]_vars => IInv'
  <1> SUFFICES ASSUME IInv, [Next]_vars PROVE IInv'
    OBVIOUS
  <1>1. CASE App
    BY <1>1, StopStep, StartStep DEF App
  <1>2. CASE UpHeap \/ DownHeap
    BY <1>2, RoundStep
  <1>3. CASE LoopDone
    BY <1>3, LoopDoneStep
  <1>4. CASE Fire
    BY <1>4, FireStep
  <1>5. CASE CallbackReturns \/ DetectReturns \/ DetectTimers \/ Tick
    BY <1>5, CallbackReturnsStep, DetectReturnsStep, DetectTimersStep, TickStep
  <1>6. CASE UNCHANGED vars
    <2>1. UNCHANGED <<heap, heapIndex, expires, interval, circle, now, pc, at, cur, then, caller, detectNow, timer>>
      BY <1>6 DEF vars, settings, control, detect
    <2>2. TypeOK' /\ IndexOK'
      BY <2>1 DEF IInv, TypeOK, IndexOK
    <2>3. HeapOK' /\ LoopOK' /\ FiringOK'
      BY <2>1 DEF IInv, HeapOK, LoopOK, FiringOK, InLoop
    <2> QED BY <2>2, <2>3 DEF IInv
  <1> QED BY <1>1, <1>2, <1>3, <1>4, <1>5, <1>6 DEF Next, Manager

(* The inductive invariant holds in every reachable state. *)
THEOREM Invariance == Spec => []IInv
  BY InitIInv, NextIInv, PTL DEF Spec

(***************************************************************************)
(* Whatever is started, stopped and rearmed, in a callback or not: a timer *)
(* knows its place in the middle of the loops too, and outside the loops   *)
(* no entry is earlier than its parent.                                    *)
(***************************************************************************)
THEOREM InvHolds == Spec => []Inv
  <1>1. IInv => Inv
    BY DEF IInv, Inv, HeapOK, HeapOrder, Ordered, InLoop
  <1> QED BY <1>1, Invariance, PTL

(* A set of times or places has a least element. *)
LEMMA MinOfNat ==
  ASSUME NEW S, S \subseteq Nat, S # {}
  PROVE  \E x \in S : \A y \in S : x <= y
  <1>1. PICK x \in S : \A y \in S : ~(<<y, x>> \in OpToRel(<, Nat))
    BY WFMin, NatLessThanWellFounded
  <1>2. \A m, n \in Nat : <<m, n>> \in OpToRel(<, Nat) <=> m < n
    BY Zenon DEF OpToRel
  <1>3. \A y \in S : ~(y < x)
    BY <1>1, <1>2, Zenon
  <1> QED BY <1>3

(* The first entry of a heap is the earliest: an entry earlier than it would
   have a first place, and its parent is before that.                     *)
LEMMA FirstIsEarliest ==
  ASSUME NEW h \in Seq(Entries), Ordered(h), NEW j \in 1..Len(h)
  PROVE  h[1].time <= h[j].time
  <1> SUFFICES ASSUME ~(h[1].time <= h[j].time) PROVE FALSE
    OBVIOUS
  <1> DEFINE E == {i \in 1..Len(h) : ~(h[1].time <= h[i].time)}
  <1>1. Len(h) \in Nat /\ \A i \in 1..Len(h) : h[i].time \in Nat
    BY EntriesAre
  <1>2. E \subseteq Nat /\ E # {}
    OBVIOUS
  <1>3. PICK i \in E : \A k \in E : i <= k
    BY <1>2, MinOfNat
  <1>4. i \in 2..Len(h)
    BY <1>1
  <1>5. i \div 2 \in 1..Len(h) /\ i \div 2 < i
    BY <1>1, <1>4, ParentIs
  <1>6. i \div 2 \notin E
    BY <1>1, <1>3, <1>5
  <1>7. h[1].time <= h[i \div 2].time /\ h[i \div 2].time <= h[i].time
    BY <1>4, <1>5, <1>6 DEF Ordered
  <1> QED BY <1>1, <1>4, <1>5, <1>7

(***************************************************************************)
(* When DetectTimers returns, no timer that was due when it was called is  *)
(* left in the heap.                                                       *)
(***************************************************************************)
NoneDueLeft == DetectReturns => \A i \in 1..Len(heap) : heap[i].time > detectNow

(* The first entry is not due when DetectTimers returns, so none is. *)
THEOREM NoneMissedHolds == Spec => NoneMissed
  <1>1. ASSUME IInv, DetectReturns, NEW i \in 1..Len(heap) PROVE heap[i].time > detectNow
    <2>1. heap \in Seq(Entries) /\ Ordered(heap) /\ detectNow \in Nat
      BY <1>1 DEF IInv, HeapOK, InLoop, DetectReturns, TypeOK
    <2>2. Len(heap) \in Nat /\ 1 \in 1..Len(heap) /\ heap[1].time \in Nat /\ heap[i].time \in Nat
      BY <2>1, EntriesAre
    <2>3. heap[1].time > detectNow
      BY <1>1, <2>1, <2>2 DEF DetectReturns, SomeDue
    <2>4. heap[1].time <= heap[i].time
      BY <2>1, FirstIsEarliest
    <2> QED BY <2>1, <2>2, <2>3, <2>4
  <1>2. IInv => [NoneDueLeft]_vars
    BY <1>1 DEF NoneDueLeft
  <1>3. Spec => [][NoneDueLeft]_vars
    BY <1>2, Invariance, PTL DEF Spec
  <1> QED BY <1>3 DEF NoneMissed, NoneDueLeft

-----------------------------------------------------------------------------
(* When a timer fires next, and how a step changes it *)

(* A timer that is not between two entries fires at the time of its entry;
   one that is has been told when.                                        *)
LEMMA ExpiryIs ==
  ASSUME NEW t \in Timers
  PROVE  /\ then = "return" \/ t # cur => Expiry(t) = Time(t)
         /\ t = cur /\ then = "add" => Expiry(t) = expires[t]
         /\ t = cur /\ then = "onTimer" /\ circle[t] => Expiry(t) = interval[t] + detectNow
         /\ t = cur /\ then = "onTimer" /\ ~circle[t] => Expiry(t) = Off
  BY DEF Expiry, Time

(* The same after a step. *)
LEMMA ExpiryWillBe ==
  ASSUME NEW t \in Timers
  PROVE  /\ then' = "return" \/ t # cur' => Expiry(t)' = Time(t)'
         /\ t = cur' /\ then' = "add" => Expiry(t)' = expires'[t]
         /\ t = cur' /\ then' = "onTimer" /\ circle'[t] => Expiry(t)' = interval'[t] + detectNow'
         /\ t = cur' /\ then' = "onTimer" /\ ~circle'[t] => Expiry(t)' = Off
  BY DEF Expiry, Time

(* Start sets when the timer fires next, though its entry may come later. *)
LEMMA StartExpiry ==
  ASSUME IInv, NEW t \in Timers, NEW iv \in Intervals, NEW c \in BOOLEAN, Start(t, iv, c)
  PROVE  Expiry(t)' = now + iv /\ \A u \in Timers \ {t} : Expiry(u)' = Expiry(u)
  <1>1. /\ AppHasControl /\ expires' = [expires EXCEPT ![t] = now + iv]
        /\ \/ cur' = NoTimer /\ then' = "return"
           \/ cur' = t /\ then' = "add"
    BY DEF Start
  <1>2. cur = NoTimer /\ NoTimer \notin Timers /\ expires \in [Timers -> Nat]
    BY <1>1, AppIs DEF TypeOK
  <1>3. (\A u \in Timers \ {t} : Time(u)' = Time(u)) /\ (then' # "add" => Time(t)' = now + iv)
    BY StartStep
  <1>4. Expiry(t)' = now + iv
    <2>1. CASE then' = "return"
      BY <1>3, <2>1, ExpiryWillBe
    <2>2. CASE cur' = t /\ then' = "add"
      BY <1>1, <1>2, <2>2, ExpiryWillBe
    <2> QED BY <1>1, <2>1, <2>2
  <1>5. ASSUME NEW u \in Timers \ {t} PROVE Expiry(u)' = Expiry(u)
    <2>1. u # cur /\ (then' = "return" \/ u # cur')
      BY <1>1, <1>2
    <2> QED BY <1>3, <2>1, ExpiryIs, ExpiryWillBe
  <1> QED BY <1>4, <1>5

(* Stop takes it back. *)
LEMMA StopExpiry ==
  ASSUME IInv, NEW t \in Timers, Stop(t)
  PROVE  Expiry(t)' = Off /\ \A u \in Timers \ {t} : Expiry(u)' = Expiry(u)
  <1>1. AppHasControl /\ cur' = NoTimer /\ then' = "return"
    BY DEF Stop
  <1>2. cur = NoTimer /\ NoTimer \notin Timers
    BY <1>1, AppIs
  <1>3. (\A u \in Timers \ {t} : Time(u)' = Time(u)) /\ Time(t)' = Off
    BY StopStep
  <1> QED BY <1>1, <1>2, <1>3, ExpiryIs, ExpiryWillBe

(* The times of two running timers, the first of the heap and another. *)
LEMMA FirstTime ==
  ASSUME IInv, pc = "detect", NEW t \in Timers, heapIndex[t] = 1, NEW u \in Timers, Time(u) # Off
  PROVE  Time(t) # Off /\ Time(t) <= Time(u)
  <1>1. /\ TypeOK /\ IndexOK /\ heap \in Seq(Entries) /\ Ordered(heap) /\ cur = NoTimer /\ NoTimer \notin Timers
    BY TimerAssumption DEF IInv, TypeOK, HeapOK, LoopOK, InLoop
  <1>2. heapIndex[t] \in 1..Len(heap)
    BY <1>1, EntryIs
  <1>3. Time(t) = heap[1].time /\ heap[1].time \in Nat
    BY <1>1, <1>2, EntriesAre DEF Time
  <1>4. heapIndex[u] \in 1..Len(heap) /\ Time(u) = heap[heapIndex[u]].time
    BY <1>1, EntryIs DEF Time
  <1>5. heap[1].time <= heap[heapIndex[u]].time
    BY <1>1, <1>4, FirstIsEarliest
  <1> QED BY <1>3, <1>4, <1>5 DEF Off

(* DetectTimers fires the earliest, which is due. *)
LEMMA FireExpiry ==
  ASSUME IInv, Fire
  PROVE  \E t \in Timers :
         /\ Expiry(t) # Off /\ Expiry(t) <= detectNow
         /\ \A u \in Timers : Expiry(u) # Off => Expiry(t) <= Expiry(u)
         /\ Expiry(t)' = IF circle[t] THEN interval[t] + detectNow ELSE Off
         /\ \A u \in Timers \ {t} : Expiry(u)' = Expiry(u)
         /\ timer = NoTimer /\ timer' = t
         /\ UNCHANGED <<interval, circle, now, detectNow>>
  <1>1. PICK t \in Timers :
         /\ IInv' /\ \A u \in Timers \ {t} : Time(u)' = Time(u)
         /\ cur' = t /\ then' = "onTimer" /\ timer' = t /\ timer = NoTimer
         /\ cur = NoTimer /\ heapIndex[t] = 1 /\ Time(t) <= detectNow
         /\ UNCHANGED <<expires, interval, circle, now, detectNow>>
    BY FireStep
  <1>2. pc = "detect" /\ NoTimer \notin Timers /\ circle \in [Timers -> BOOLEAN]
        /\ heap \in Seq(Entries) /\ TypeOK /\ IndexOK
    BY TimerAssumption DEF Fire, IInv, TypeOK
  <1>3. \A u \in Timers : Expiry(u) = Time(u)
    BY <1>1, <1>2, ExpiryIs
  <1>4. Time(t) # Off
    <2>1. heapIndex[t] \in 1..Len(heap)
      BY <1>1, <1>2, EntryIs
    <2> QED BY <1>1, <1>2, <2>1, EntriesAre DEF Time, Off
  <1>5. \A u \in Timers : Time(u) # Off => Time(t) <= Time(u)
    BY <1>1, <1>2, FirstTime
  <1>6. Expiry(t)' = IF circle[t] THEN interval[t] + detectNow ELSE Off
    <2>1. CASE circle[t]
      BY <1>1, <2>1, ExpiryWillBe
    <2>2. CASE ~circle[t]
      BY <1>1, <2>2, ExpiryWillBe
    <2> QED BY <2>1, <2>2
  <1>7. \A u \in Timers \ {t} : Expiry(u)' = Expiry(u)
    BY <1>1, <1>3, ExpiryWillBe
  <1> QED BY <1>1, <1>3, <1>4, <1>5, <1>6, <1>7

(* The rounds of the loops, their end and DetectTimers' own steps change no
   timer's time.                                                           *)
LEMMA OthersExpiry ==
  ASSUME IInv,
         UpHeap \/ DownHeap \/ LoopDone \/ DetectTimers \/ DetectReturns \/ CallbackReturns \/ Tick \/ UNCHANGED vars
  PROVE  \A u \in Timers : Expiry(u)' = Expiry(u)
  <1>1. CASE UpHeap \/ DownHeap
    <2>1. /\ UNCHANGED <<cur, then, expires, interval, circle, detectNow>>
      BY <1>1, RoundStep
    <2>2. \A u \in Timers \ {cur} : Time(u)' = Time(u)
      BY <1>1, RoundStep
    <2>3. cur = NoTimer <=> then = "return"
      BY DEF IInv, LoopOK
    <2>4. then \in {"return", "add", "onTimer"} /\ circle \in [Timers -> BOOLEAN] /\ NoTimer \notin Timers
      BY TimerAssumption DEF IInv, TypeOK
    <2>5. ASSUME NEW u \in Timers, u # cur PROVE Expiry(u)' = Expiry(u)
      BY <2>1, <2>2, <2>5, ExpiryIs, ExpiryWillBe
    <2>6. ASSUME NEW u \in Timers, u = cur PROVE Expiry(u)' = Expiry(u)
      <3>1. then \in {"add", "onTimer"} /\ u = cur' /\ circle[u] \in BOOLEAN
        BY <2>1, <2>3, <2>4, <2>6
      <3>2. CASE then = "add"
        <4>1. Expiry(u) = expires[u]
          BY <2>6, <3>2, ExpiryIs
        <4>2. Expiry(u)' = expires'[u]
          BY <2>1, <3>1, <3>2, ExpiryWillBe
        <4> QED BY <2>1, <4>1, <4>2
      <3>3. CASE then = "onTimer" /\ circle[u]
        <4>1. Expiry(u) = interval[u] + detectNow
          BY <2>6, <3>3, ExpiryIs
        <4>2. Expiry(u)' = interval'[u] + detectNow'
          BY <2>1, <3>1, <3>3, ExpiryWillBe
        <4> QED BY <2>1, <4>1, <4>2
      <3>4. CASE then = "onTimer" /\ ~circle[u]
        <4>1. Expiry(u) = Off
          BY <2>6, <3>4, ExpiryIs
        <4>2. Expiry(u)' = Off
          BY <2>1, <3>1, <3>4, ExpiryWillBe
        <4> QED BY <4>1, <4>2
      <3> QED BY <3>1, <3>2, <3>3, <3>4
    <2> QED BY <2>5, <2>6
  <1>2. CASE LoopDone
    <2> SUFFICES ASSUME NEW c, c = cur PROVE \A u \in Timers : Expiry(u)' = Expiry(u)
      OBVIOUS
    <2>1. /\ then' = "return"
          /\ \A u \in Timers \ {c} : Time(u)' = Time(u)
          /\ then = "add" => Time(c)' = expires[c]
          /\ then = "onTimer" /\ circle[c] => Time(c)' = interval[c] + detectNow
          /\ then = "onTimer" /\ ~circle[c] => Time(c)' = Off
      BY <1>2, LoopDoneStep
    <2>2. /\ cur = NoTimer <=> then = "return"
          /\ then \in {"return", "add", "onTimer"} /\ NoTimer \notin Timers
      BY TimerAssumption DEF IInv, LoopOK, TypeOK
    <2>3. ASSUME NEW u \in Timers, u # c PROVE Expiry(u)' = Expiry(u)
      BY <2>1, <2>3, ExpiryIs, ExpiryWillBe
    <2>4. ASSUME NEW u \in Timers, u = c PROVE Expiry(u)' = Expiry(u)
      <3>1. then \in {"add", "onTimer"} /\ u = cur
        BY <2>2, <2>4
      <3>2. Time(u)' = Expiry(u)
        BY <2>1, <2>4, <3>1, ExpiryIs
      <3> QED BY <2>1, <3>2, ExpiryWillBe
    <2> QED BY <2>3, <2>4
  <1>3. CASE DetectTimers \/ DetectReturns \/ CallbackReturns \/ Tick
    <2>1. UNCHANGED <<heap, heapIndex, cur, then>>
      BY <1>3 DEF DetectTimers, DetectReturns, CallbackReturns, Tick, control
    <2>2. ~DetectTimers => UNCHANGED <<expires, interval, circle, detectNow>>
      BY <1>3 DEF DetectReturns, CallbackReturns, Tick, settings, detect
    <2>3. DetectTimers => then = "return" /\ then' = "return"
      BY <2>1 DEF IInv, LoopOK, InLoop, DetectTimers
    <2>4. CASE DetectTimers
      <3>1. \A u \in Timers : Time(u)' = Time(u)
        BY <2>1 DEF Time
      <3> QED BY <2>3, <2>4, <3>1, ExpiryIs, ExpiryWillBe
    <2>5. CASE ~DetectTimers
      BY <2>1, <2>2, <2>5 DEF Expiry
    <2> QED BY <2>4, <2>5
  <1>4. CASE UNCHANGED vars
    BY <1>4 DEF Expiry, vars, settings, control, detect
  <1> QED BY <1>1, <1>2, <1>3, <1>4

-----------------------------------------------------------------------------
(* What TimerManager promises *)

(* The expiries after a step that gives one timer a new one. *)
LEMMA OneExpiry ==
  ASSUME NEW t \in Timers, NEW v, Expiry(t)' = v, \A u \in Timers \ {t} : Expiry(u)' = Expiry(u)
  PROVE  [u \in Timers |-> Expiry(u)]' = [[u \in Timers |-> Expiry(u)] EXCEPT ![t] = v]
  OBVIOUS

(***************************************************************************)
(* Timers in a heap that calls back do what TimerService says: the         *)
(* earliest fires first, none fires before its time or after it was        *)
(* stopped, and only start, stop and firing change when a timer is due.    *)
(***************************************************************************)
THEOREM ServiceHolds == Spec => ImplementsService
  <1>1. Init => Service!Init
    <2> SUFFICES ASSUME Init PROVE Service!Init
      OBVIOUS
    <2>1. interval \in [Timers -> Intervals] /\ circle \in [Timers -> BOOLEAN]
      <3>1. IInv
        BY InitIInv
      <3> QED BY <3>1 DEF IInv, FiringOK, TypeOK
    <2>2. [t \in Timers |-> Expiry(t)] = [t \in Timers |-> Off]
      <3>1. \A t \in Timers : Expiry(t) = Off
        BY TimerAssumption DEF Init, Expiry
      <3> QED BY <3>1
    <2> QED BY <2>1, <2>2 DEF Init, Service!Init
  <1>2. IInv /\ [Next]_vars => [Service!Next]_(Service!vars)
    <2> SUFFICES ASSUME IInv, [Next]_vars PROVE [Service!Next]_(Service!vars)
      OBVIOUS
    <2>1. ASSUME NEW t \in Timers, NEW iv \in Intervals, NEW c \in BOOLEAN, Start(t, iv, c)
          PROVE  Service!Start(t, iv, c)
      <3>1. /\ interval' = [interval EXCEPT ![t] = iv] /\ circle' = [circle EXCEPT ![t] = c]
            /\ now' = now /\ timer' = timer
        BY <2>1 DEF Start, detect
      <3>2. [u \in Timers |-> Expiry(u)]' = [[u \in Timers |-> Expiry(u)] EXCEPT ![t] = now + iv]
        BY <2>1, StartExpiry, OneExpiry
      <3> QED BY <3>1, <3>2 DEF Service!Start
    <2>2. ASSUME NEW t \in Timers, Stop(t)
          PROVE  Service!Stop(t)
      <3>1. UNCHANGED <<interval, circle, now, timer>>
        BY <2>2 DEF Stop, settings, detect
      <3>2. [u \in Timers |-> Expiry(u)]' = [[u \in Timers |-> Expiry(u)] EXCEPT ![t] = Off]
        BY <2>2, StopExpiry, OneExpiry
      <3> QED BY <3>1, <3>2 DEF Service!Stop
    <2>3. ASSUME Fire
          PROVE  \E t \in Timers : \E d \in 0..now : Service!Fire(t, d)
      <3>1. PICK t \in Timers :
             /\ Expiry(t) # Off /\ Expiry(t) <= detectNow
             /\ \A u \in Timers : Expiry(u) # Off => Expiry(t) <= Expiry(u)
             /\ Expiry(t)' = IF circle[t] THEN interval[t] + detectNow ELSE Off
             /\ \A u \in Timers \ {t} : Expiry(u)' = Expiry(u)
             /\ timer = NoTimer /\ timer' = t
             /\ UNCHANGED <<interval, circle, now, detectNow>>
        BY <2>3, FireExpiry
      <3>2. detectNow \in 0..now /\ interval[t] + detectNow = detectNow + interval[t]
        BY DEF IInv, FiringOK, TypeOK
      <3>3. [u \in Timers |-> Expiry(u)]' =
              [[u \in Timers |-> Expiry(u)] EXCEPT ![t] = IF circle[t] THEN detectNow + interval[t] ELSE Off]
        BY <3>1, <3>2, OneExpiry
      <3>4. Service!Fire(t, detectNow)
        BY <3>1, <3>2, <3>3 DEF Service!Fire
      <3> QED BY <3>2, <3>4
    <2>4. ASSUME UpHeap \/ DownHeap \/ LoopDone \/ DetectTimers \/ DetectReturns \/ CallbackReturns \/ Tick
                 \/ UNCHANGED vars
          PROVE  [u \in Timers |-> Expiry(u)]' = [u \in Timers |-> Expiry(u)]
      <3>1. \A u \in Timers : Expiry(u)' = Expiry(u)
        BY <2>4, OthersExpiry
      <3> QED BY <3>1
    <2>5. CASE CallbackReturns
      <3>1. timer # NoTimer /\ timer' = NoTimer /\ UNCHANGED <<now, interval, circle>>
        BY <2>5 DEF CallbackReturns, IInv, FiringOK, InLoop, settings
      <3> QED BY <2>4, <2>5, <3>1 DEF Service!Next, Service!CallbackReturns
    <2>6. CASE Tick
      <3>1. now' = now + 1 /\ UNCHANGED <<interval, circle, timer>>
        BY <2>6 DEF Tick, settings, detect
      <3> QED BY <2>4, <2>6, <3>1 DEF Service!Next, Service!Tick
    <2>7. CASE UpHeap \/ DownHeap \/ LoopDone
      <3>1. UNCHANGED <<now, interval, circle, timer>>
        <4>1. CASE LoopDone
          BY <4>1, LoopDoneStep
        <4>2. CASE UpHeap \/ DownHeap
          BY <4>2, RoundStep
        <4> QED BY <2>7, <4>1, <4>2
      <3> QED BY <2>4, <2>7, <3>1 DEF Service!vars
    <2>8. CASE DetectTimers \/ DetectReturns \/ UNCHANGED vars
      <3>1. UNCHANGED <<now, interval, circle, timer>>
        BY <2>8 DEF DetectTimers, DetectReturns, vars, settings, detect
      <3> QED BY <2>4, <2>8, <3>1 DEF Service!vars
    <2> QED BY <2>1, <2>2, <2>3, <2>5, <2>6, <2>7, <2>8 DEF Next, App, Manager, Service!Next
  <1>3. Spec => Service!Spec
    BY <1>1, <1>2, Invariance, PTL DEF Spec, Service!Spec
  <1> QED BY <1>3 DEF ImplementsService

(***************************************************************************)
(* A detection ends, when intervals are positive: no step adds a timer to  *)
(* those due when DetectTimers was called, not a callback that starts one, *)
(* not the rearming of a circle timer, and every timer that fires leaves   *)
(* them.  The hypothesis is needed: a circle timer of interval 0 is due    *)
(* again in the same detection.                                            *)
(***************************************************************************)
Shrinking == detectNow' = detectNow => /\ Due' \subseteq Due
                                       /\ Fire => Due' # Due

(* Start, stop, rearming and firing keep or shrink the due timers. *)
THEOREM DueShrinksHolds == ASSUME 0 \notin Intervals PROVE Spec => DueShrinks
  <1>1. IInv /\ [Next]_vars => Shrinking
    <2> SUFFICES ASSUME IInv, [Next]_vars, detectNow' = detectNow PROVE Due' \subseteq Due /\ (Fire => Due' # Due)
      BY DEF Shrinking
    <2>1. /\ \A i \in Intervals : i \in Nat /\ i > 0
          /\ now \in Nat /\ detectNow \in Nat /\ detectNow <= now /\ \A t \in Timers : interval[t] \in Intervals
      BY TimerAssumption DEF IInv, FiringOK, TypeOK
    <2>2. ASSUME NEW t \in Timers, \A u \in Timers \ {t} : Expiry(u)' = Expiry(u),
                 Expiry(t)' = Off \/ Expiry(t)' > detectNow, Expiry(t)' \in Int
          PROVE  Due' \subseteq Due /\ t \notin Due'
      BY <2>1, <2>2 DEF Due
    <2>3. ASSUME NEW t \in Timers, NEW iv \in Intervals, NEW c \in BOOLEAN, Start(t, iv, c)
          PROVE  Due' \subseteq Due
      <3>1. Expiry(t)' = now + iv /\ \A u \in Timers \ {t} : Expiry(u)' = Expiry(u)
        BY <2>3, StartExpiry
      <3>2. Expiry(t)' > detectNow /\ Expiry(t)' \in Int
        BY <2>1, <3>1
      <3> QED BY <2>2, <3>1, <3>2
    <2>4. ASSUME NEW t \in Timers, Stop(t)
          PROVE  Due' \subseteq Due
      <3>1. Expiry(t)' = Off /\ Expiry(t)' \in Int /\ \A u \in Timers \ {t} : Expiry(u)' = Expiry(u)
        BY <2>4, StopExpiry DEF Off
      <3> QED BY <2>2, <3>1
    <2>5. ASSUME Fire
          PROVE  Due' \subseteq Due /\ Due' # Due
      <3>1. PICK t \in Timers :
             /\ Expiry(t) # Off /\ Expiry(t) <= detectNow
             /\ \A u \in Timers : Expiry(u) # Off => Expiry(t) <= Expiry(u)
             /\ Expiry(t)' = IF circle[t] THEN interval[t] + detectNow ELSE Off
             /\ \A u \in Timers \ {t} : Expiry(u)' = Expiry(u)
             /\ timer = NoTimer /\ timer' = t
             /\ UNCHANGED <<interval, circle, now, detectNow>>
        BY <2>5, FireExpiry
      <3>2. Expiry(t)' \in Int /\ (Expiry(t)' = Off \/ Expiry(t)' > detectNow)
        <4>1. interval[t] \in Nat /\ interval[t] > 0
          BY <2>1
        <4> QED BY <2>1, <3>1, <4>1 DEF Off
      <3>3. t \in Due
        BY <3>1 DEF Due
      <3> QED BY <2>2, <3>1, <3>2, <3>3
    <2>6. CASE UpHeap \/ DownHeap \/ LoopDone \/ DetectTimers \/ DetectReturns \/ CallbackReturns \/ Tick
               \/ UNCHANGED vars
      <3>1. \A u \in Timers : Expiry(u)' = Expiry(u)
        BY <2>6, OthersExpiry
      <3>2. Due' = Due
        BY <3>1 DEF Due
      <3>3. ~Fire
        <4>1. CASE Fire /\ (UpHeap \/ DownHeap \/ LoopDone \/ DetectTimers \/ CallbackReturns)
          BY <4>1 DEF Fire, UpHeap, DownHeap, LoopDone, DetectTimers, CallbackReturns
        <4>2. CASE Fire /\ (DetectReturns \/ Tick \/ UNCHANGED vars)
          <5>1. PICK t \in Timers : timer = NoTimer /\ timer' = t
            BY <4>2, FireExpiry
          <5>2. timer' = timer
            BY <4>2 DEF DetectReturns, Tick, vars, detect
          <5> QED BY <5>1, <5>2, TimerAssumption
        <4> QED BY <2>6, <4>1, <4>2
      <3> QED BY <3>2, <3>3
    <2> QED BY <2>3, <2>4, <2>5, <2>6 DEF Next, App, Manager
  <1>2. IInv /\ [Next]_vars => [Shrinking]_vars
    BY <1>1
  <1>3. Spec => [][Shrinking]_vars
    BY <1>2, Invariance, PTL DEF Spec
  <1> QED BY <1>3 DEF DueShrinks, Shrinking

=============================================================================
