------------------------ MODULE MessageBufferProofs ------------------------
(***************************************************************************)
(* The bounds of MessageBuffer for every allocation unit and any sequence  *)
(* of operations.  The inductive invariant adds to the two bounds only     *)
(* that the peak is not below the size.                                    *)
(***************************************************************************)
EXTENDS MessageBuffer, SequenceTheorems, TLAPS

(* The two halves of Euclid's division the capacities rest on. *)
LEMMA DivBounds ==
  ASSUME NEW n \in Nat, NEW b \in Nat \ {0}
  PROVE  /\ n \div b \in Nat
         /\ (n \div b) * b <= n
         /\ n < (n \div b) * b + b
  OBVIOUS

(* Division is unique: a quotient and a small remainder are the ones. *)
LEMMA ModUnique ==
  ASSUME NEW w \in Nat \ {0}, NEW q \in Nat, NEW r \in 0..(w - 1)
  PROVE  (q * w + r) % w = r
  <1> DEFINE m == q * w + r
             p == m \div w
             s == m % w
  <1>1. m \in Nat
    OBVIOUS
  <1> HIDE DEF m
  <1>2. p \in Nat /\ s \in 0..(w - 1) /\ m = p * w + s
    BY <1>1
  <1> HIDE DEF p, s
  <1>3. p * w + s = q * w + r
    BY <1>2 DEF m
  <1>4. \A a, b \in Nat : a > b => a * w >= b * w + w
    <2> SUFFICES ASSUME NEW a \in Nat, NEW b \in Nat, a > b PROVE a * w >= b * w + w
      OBVIOUS
    <2>1. PICK d \in Nat : a = b + 1 + d
      <3>1. a = b + 1 + (a - b - 1) /\ a - b - 1 \in Nat
        OBVIOUS
      <3> QED BY <3>1
    <2>2. a * w = b * w + w + d * w
      BY <2>1
    <2>3. d * w \in Nat /\ b * w \in Nat
      OBVIOUS
    <2> QED BY <2>2, <2>3
  <1>5. p * w \in Nat /\ q * w \in Nat
    BY <1>2
  <1>6. ~(p > q) /\ ~(q > p)
    BY <1>2, <1>3, <1>4, <1>5
  <1>7. p = q
    BY <1>2, <1>6
  <1>8. s = r
    BY <1>2, <1>3, <1>5, <1>7
  <1> QED BY <1>8 DEF s, m

(* A remainder below the modulus is its own. *)
LEMMA ModSmall ==
  ASSUME NEW w \in Nat \ {0}, NEW k \in 0..(w - 1)
  PROVE  k % w = k
  OBVIOUS

(* The number after that of byte k is that of byte k + 1. *)
LEMMA ModSucc ==
  ASSUME NEW w \in Nat \ {0}, NEW k \in Nat
  PROVE  ((k % w) + 1) % w = (k + 1) % w
  <1>1. PICK q \in Nat, r \in 0..(w - 1) : k = q * w + r /\ r = k % w
    <2>1. k \div w \in Nat /\ k % w \in 0..(w - 1) /\ k = (k \div w) * w + (k % w)
      OBVIOUS
    <2> QED BY <2>1
  <1>2. CASE r < w - 1
    <2>1. r + 1 \in 0..(w - 1) /\ k + 1 = q * w + (r + 1)
      BY <1>1, <1>2
    <2>2. (k + 1) % w = r + 1
      BY <2>1, ModUnique
    <2> QED BY <1>1, <2>1, <2>2, ModSmall
  <1>3. CASE r = w - 1
    <2>1. k + 1 = (q + 1) * w + 0 /\ 0 \in 0..(w - 1) /\ q + 1 \in Nat
      BY <1>1, <1>3
    <2>2. (k + 1) % w = 0
      BY <2>1, ModUnique
    <2>3. r + 1 = 1 * w + 0
      <3>1. r + 1 = w
        BY <1>3
      <3>2. w = 1 * w + 0
        OBVIOUS
      <3> QED BY <3>1, <3>2
    <2>4. (r + 1) % w = 0
      BY <2>1, <2>3, ModUnique
    <2> QED BY <1>1, <2>2, <2>4
  <1> QED BY <1>1, <1>2, <1>3

-----------------------------------------------------------------------------

(* The capacity push_back and alloc choose for n bytes leaves more than two
   units free and never more than three.                                  *)
LEMMA GrownBounds ==
  ASSUME NEW n \in Nat
  PROVE  /\ Grown(n) \in Nat
         /\ Grown(n) - n > 2 * BUFFER_SIZE
         /\ Grown(n) <= n + 3 * BUFFER_SIZE
  <1> DEFINE q == n \div BUFFER_SIZE
  <1>1. q \in Nat /\ q * BUFFER_SIZE <= n /\ n < q * BUFFER_SIZE + BUFFER_SIZE
    BY DivBounds, SizesAssumption
  <1>2. Grown(n) = q * BUFFER_SIZE + 3 * BUFFER_SIZE
    <2>1. \A x, y \in Nat : (x + 3) * y = x * y + 3 * y
      OBVIOUS
    <2> QED BY <1>1, <2>1, SizesAssumption DEF Grown
  <1>3. q * BUFFER_SIZE \in Nat
    BY <1>1, SizesAssumption
  <1> HIDE DEF q
  <1> QED BY <1>1, <1>2, <1>3, SizesAssumption

(* A function on 1..n is a sequence of length n. *)
LEMMA FunSeq ==
  ASSUME NEW S, NEW n \in Nat, NEW f \in [1..n -> S]
  PROVE  f \in Seq(S) /\ Len(f) = n
  OBVIOUS

(* The bounds survive a step whose content has n bytes and whose capacity is
   the old one, with a unit to spare, or freshly chosen.                  *)
Bounds == RoomToReceive /\ CapacityFollowsPeak /\ size <= peak

IInv == TypeOK /\ Bounds

(* What a capacity must satisfy for a content of n bytes and a peak p. *)
Fits(c, n, p) == c \in Nat /\ c - n >= BUFFER_SIZE /\ c <= p + 3 * BUFFER_SIZE

(* push_back leaves a unit of room, and no more than three. *)
LEMMA PushFits ==
  ASSUME IInv, NEW n \in Nat, NEW p \in Nat, p >= peak, p >= n
  PROVE  Fits(PushCapacity(n), n, p)
  <1>1. CASE n >= capacity - BUFFER_SIZE * 2
    BY <1>1, GrownBounds, SizesAssumption DEF PushCapacity, Fits
  <1>2. CASE ~(n >= capacity - BUFFER_SIZE * 2)
    BY <1>2, SizesAssumption
       DEF PushCapacity, Fits, IInv, Bounds, TypeOK, CapacityFollowsPeak
  <1> QED BY <1>1, <1>2

(* So does alloc. *)
LEMMA AllocFits ==
  ASSUME IInv, NEW n \in Nat, NEW p \in Nat, p >= peak, p >= n
  PROVE  Fits(AllocCapacity(n), n, p)
  <1>1. CASE capacity - n >= BUFFER_SIZE * 2
    BY <1>1, SizesAssumption
       DEF AllocCapacity, Fits, IInv, Bounds, TypeOK, CapacityFollowsPeak
  <1>2. CASE ~(capacity - n >= BUFFER_SIZE * 2)
    BY <1>2, GrownBounds, SizesAssumption DEF AllocCapacity, Fits
  <1> QED BY <1>1, <1>2

(* The bookkeeping of n appended bytes keeps the types. *)
LEMMA AppendTypes ==
  ASSUME IInv, NEW n \in Nat, Append_n(n)
  PROVE  /\ size' = size + n /\ size' \in Nat
         /\ peak' \in Nat /\ peak' >= peak /\ peak' >= size'
         /\ next' \in 0..(Wrap - 1)
         /\ bytes' \in Seq(0..(Wrap - 1)) /\ Len(bytes') = size'
  <1> USE SizesAssumption DEF IInv, TypeOK, Append_n
  <1>1. size' = size + n /\ size' \in Nat
    OBVIOUS
  <1>2. peak' \in Nat /\ peak' >= peak /\ peak' >= size'
    BY <1>1 DEF Larger, Bounds
  <1>3. \A k \in Nat : k % Wrap \in 0..(Wrap - 1)
    OBVIOUS
  <1>4. next' \in 0..(Wrap - 1)
    <2>1. next + n \in Nat
      OBVIOUS
    <2> QED BY <2>1, <1>3
  <1>5. ASSUME NEW i \in 1..n PROVE (next + i - 1) % Wrap \in 0..(Wrap - 1)
    <2>1. next + i - 1 \in Nat
      OBVIOUS
    <2> QED BY <2>1, <1>3
  <1>6. Fresh(n) \in [1..n -> 0..(Wrap - 1)]
    BY <1>5 DEF Fresh
  <1>7. Fresh(n) \in Seq(0..(Wrap - 1)) /\ Len(Fresh(n)) = n
    BY <1>6, FunSeq
  <1>8. bytes' \in Seq(0..(Wrap - 1)) /\ Len(bytes') = size + n
    BY <1>7, ConcatProperties
  <1> QED BY <1>1, <1>2, <1>4, <1>8

(* The invariant holds of a buffer just made ... *)
THEOREM InitIInv == Init => IInv
  BY SizesAssumption
     DEF Init, IInv, TypeOK, Bounds, RoomToReceive, CapacityFollowsPeak

(* ... and every operation keeps it. *)
THEOREM NextIInv == IInv /\ [Next]_vars => IInv'
  <1> SUFFICES ASSUME IInv, [Next]_vars PROVE IInv'
    OBVIOUS
  <1>1. ASSUME NEW n \in 0..MaxLen, PushBack(n) PROVE IInv'
    <2>1. n \in Nat /\ size + n \in Nat
      BY <1>1, SizesAssumption DEF IInv, TypeOK
    <2>2. Append_n(n) /\ capacity' = PushCapacity(size + n)
      BY <1>1 DEF PushBack
    <2>3. Fits(capacity', size', peak')
      BY <2>1, <2>2, AppendTypes, PushFits
    <2> QED
      BY <2>1, <2>2, <2>3, AppendTypes
         DEF IInv, TypeOK, Bounds, Fits, RoomToReceive, CapacityFollowsPeak
  <1>2. ASSUME NEW n \in 0..MaxLen, Recv(n) \/ AllocBytes(n) PROVE IInv'
    <2>1. n \in Nat /\ size + n \in Nat
      BY <1>2, SizesAssumption DEF IInv, TypeOK
    <2>2. Append_n(n) /\ capacity' = AllocCapacity(size + n)
      BY <1>2 DEF Recv, AllocBytes
    <2>3. Fits(capacity', size', peak')
      BY <2>1, <2>2, AppendTypes, AllocFits
    <2> QED
      BY <2>1, <2>2, <2>3, AppendTypes
         DEF IInv, TypeOK, Bounds, Fits, RoomToReceive, CapacityFollowsPeak
  <1>3. ASSUME NEW n \in 0..MaxLen, Erase(n) PROVE IInv'
    <2>1. n \in Nat /\ n <= size /\ size - n \in Nat
      BY <1>3, SizesAssumption DEF IInv, TypeOK, Erase
    <2>2. bytes' \in [1..(size - n) -> 0..(Wrap - 1)]
      <3>1. \A i \in 1..(size - n) : i + n \in 1..Len(bytes)
        BY <2>1, SizesAssumption DEF IInv, TypeOK
      <3>2. \A i \in 1..(size - n) : bytes[i + n] \in 0..(Wrap - 1)
        BY <3>1, ElementOfSeq DEF IInv, TypeOK
      <3> QED BY <1>3, <3>2 DEF Erase
    <2>3. bytes' \in Seq(0..(Wrap - 1)) /\ Len(bytes') = size - n
      BY <2>1, <2>2, FunSeq
    <2> QED
      BY <1>3, <2>1, <2>3, SizesAssumption
         DEF IInv, TypeOK, Bounds, Erase, RoomToReceive, CapacityFollowsPeak
  <1>4. CASE Alloc
    <2>1. Fits(capacity', size, peak)
      BY <1>4, AllocFits DEF Alloc, IInv, TypeOK, Bounds
    <2> QED
      BY <1>4, <2>1
         DEF Alloc, Fits, IInv, TypeOK, Bounds, RoomToReceive, CapacityFollowsPeak
  <1>5. CASE Reset
    BY <1>5, SizesAssumption
       DEF Reset, IInv, TypeOK, Bounds, RoomToReceive, CapacityFollowsPeak
  <1>6. CASE UNCHANGED vars
    BY <1>6 DEF vars, IInv, TypeOK, Bounds, RoomToReceive, CapacityFollowsPeak
  <1> QED BY <1>1, <1>2, <1>3, <1>4, <1>5, <1>6 DEF Next

(* The buffer's fields keep their types, and its size counts its bytes. *)
THEOREM TypeCorrect == Spec => []TypeOK
  <1>1. IInv => TypeOK
    BY DEF IInv
  <1> QED BY InitIInv, NextIInv, <1>1, PTL DEF Spec

(* recv() and memcpy always have a whole unit of room, whatever the unit. *)
THEOREM RoomAlways == Spec => []RoomToReceive
  <1>1. IInv => RoomToReceive
    BY DEF IInv, Bounds
  <1> QED BY InitIInv, NextIInv, <1>1, PTL DEF Spec

(* The capacity stays within three units of the largest content. *)
THEOREM CapacityBounded == Spec => []CapacityFollowsPeak
  <1>1. IInv => CapacityFollowsPeak
    BY DEF IInv, Bounds
  <1> QED BY InitIInv, NextIInv, <1>1, PTL DEF Spec

-----------------------------------------------------------------------------
(* The content *)

(* Bytes appended follow those stored. *)
LEMMA AppendFifo ==
  ASSUME IInv, FifoContent, NEW n \in Nat, Append_n(n)
  PROVE  FifoContent'
  <1> USE SizesAssumption DEF IInv, TypeOK
  <1> DEFINE W == 0..(Wrap - 1)
  <1>1. size' = size + n /\ next' = (next + n) % Wrap /\ bytes' = bytes \o Fresh(n)
    BY DEF Append_n
  <1>2. ASSUME NEW j \in 1..n PROVE (next + j - 1) % Wrap \in W
    <2>1. next + j - 1 \in Nat
      OBVIOUS
    <2> QED BY <2>1
  <1>3. Fresh(n) \in [1..n -> W] /\ \A j \in 1..n : Fresh(n)[j] = (next + j - 1) % Wrap
    BY <1>2 DEF Fresh
  <1>4. Fresh(n) \in Seq(W) /\ Len(Fresh(n)) = n
    BY <1>3, FunSeq
  <1>5. \A i \in 1..(size + n) :
          bytes'[i] = IF i <= size THEN bytes[i] ELSE (next + (i - size) - 1) % Wrap
    <2> TAKE i \in 1..(size + n)
    <2>1. bytes'[i] = IF i <= size THEN bytes[i] ELSE Fresh(n)[i - size]
      BY <1>1, <1>4, ConcatProperties
    <2>2. i > size => i - size \in 1..n
      OBVIOUS
    <2> QED BY <1>3, <2>1, <2>2
  <1>6. next % Wrap = next
    BY ModSmall
  <1>7. ASSUME NEW i \in 1..(size + n)
        PROVE  (IF i = size + n THEN next' ELSE bytes'[i + 1]) = (bytes'[i] + 1) % Wrap
    <2>1. CASE i < size
      <3>1. i \in 1..size /\ i + 1 \in 1..(size + n) /\ i + 1 <= size /\ i # size + n
        BY <2>1
      <3>2. bytes[i + 1] = (bytes[i] + 1) % Wrap
        BY <2>1, <3>1 DEF FifoContent
      <3> QED BY <1>5, <2>1, <3>1, <3>2
    <2>2. CASE i = size
      <3>1. next = (bytes[size] + 1) % Wrap
        BY <2>2 DEF FifoContent
      <3>2. CASE n = 0
        <4>1. i = size + n /\ next + n = next /\ bytes'[i] = bytes[size]
          BY <1>5, <2>2, <3>2
        <4> QED BY <1>1, <1>6, <3>1, <4>1
      <3>3. CASE n > 0
        <4>1. i + 1 \in 1..(size + n) /\ ~(i + 1 <= size) /\ i # size + n
          BY <2>2, <3>3
        <4>2. bytes'[i + 1] = (next + (i + 1 - size) - 1) % Wrap
          BY <1>5, <4>1
        <4>3. next + (i + 1 - size) - 1 = next
          BY <2>2
        <4>4. bytes'[i] = bytes[size]
          BY <1>5, <2>2
        <4> QED BY <1>6, <3>1, <4>1, <4>2, <4>3, <4>4
      <3> QED BY <3>2, <3>3
    <2>3. CASE i > size
      <3> DEFINE k == next + (i - size) - 1
      <3>1. k \in Nat /\ k = next + (i - size) - 1 /\ ~(i <= size)
        BY <2>3
      <3> HIDE DEF k
      <3>2. bytes'[i] = k % Wrap
        BY <1>5, <3>1
      <3>3. (bytes'[i] + 1) % Wrap = (k + 1) % Wrap
        BY <3>1, <3>2, ModSucc
      <3>4. CASE i = size + n
        <4>1. k + 1 = next + n
          BY <3>1, <3>4
        <4> QED BY <1>1, <3>3, <3>4, <4>1
      <3>5. CASE i # size + n
        <4>1. i + 1 \in 1..(size + n) /\ ~(i + 1 <= size)
          BY <2>3, <3>5
        <4>2. bytes'[i + 1] = (next + (i + 1 - size) - 1) % Wrap
          BY <1>5, <4>1
        <4>3. next + (i + 1 - size) - 1 = k + 1
          BY <3>1
        <4> QED BY <3>3, <3>5, <4>2, <4>3
      <3> QED BY <3>4, <3>5
    <2> QED BY <2>1, <2>2, <2>3
  <1> QED BY <1>1, <1>7 DEF FifoContent

(* Every operation keeps the bytes in order. *)
THEOREM NextFifo == IInv /\ FifoContent /\ [Next]_vars => FifoContent'
  <1> SUFFICES ASSUME IInv, FifoContent, [Next]_vars PROVE FifoContent'
    OBVIOUS
  <1>1. ASSUME NEW n \in 0..MaxLen, PushBack(n) \/ Recv(n) \/ AllocBytes(n)
        PROVE  FifoContent'
    <2>1. n \in Nat /\ Append_n(n)
      BY <1>1, SizesAssumption DEF PushBack, Recv, AllocBytes
    <2> QED BY <2>1, AppendFifo
  <1>2. ASSUME NEW n \in 0..MaxLen, Erase(n) PROVE FifoContent'
    <2>1. /\ n \in Nat /\ size \in Nat /\ n <= size
          /\ size' = size - n /\ next' = next
          /\ bytes' = [i \in 1..(size - n) |-> bytes[i + n]]
      BY <1>2, SizesAssumption DEF Erase, IInv, TypeOK
    <2>2. ASSUME NEW i \in 1..(size - n)
          PROVE  (IF i = size - n THEN next ELSE bytes'[i + 1]) = (bytes'[i] + 1) % Wrap
      <3>1. i + n \in 1..size /\ bytes'[i] = bytes[i + n]
        BY <2>1
      <3>2. (IF i + n = size THEN next ELSE bytes[i + n + 1]) = (bytes[i + n] + 1) % Wrap
        BY <3>1 DEF FifoContent
      <3>3. i # size - n => bytes'[i + 1] = bytes[i + n + 1] /\ i + n # size
        <4> SUFFICES ASSUME i # size - n PROVE bytes'[i + 1] = bytes[i + n + 1] /\ i + n # size
          OBVIOUS
        <4>1. i + 1 \in 1..(size - n) /\ i + 1 + n = i + n + 1 /\ i + n # size
          BY <2>1
        <4> QED BY <2>1, <4>1
      <3> QED BY <2>1, <3>1, <3>2, <3>3
    <2> QED BY <2>1, <2>2 DEF FifoContent
  <1>3. CASE Alloc
    BY <1>3 DEF Alloc, FifoContent
  <1>4. CASE Reset
    BY <1>4 DEF Reset, FifoContent
  <1>5. CASE UNCHANGED vars
    BY <1>5 DEF vars, FifoContent
  <1> QED BY <1>1, <1>2, <1>3, <1>4, <1>5 DEF Next

(* No byte is lost, doubled or reordered, for every unit and every length of
   the numbering.                                                         *)
THEOREM FifoAlways == Spec => []FifoContent
  <1>1. Init => FifoContent
    BY DEF Init, FifoContent
  <1> QED BY InitIInv, NextIInv, NextFifo, <1>1, PTL DEF Spec

=============================================================================
