----------------------- MODULE ImplicitProducerProofs -----------------------
(***************************************************************************)
(* What holds of a producer's part of the task queue for any number of     *)
(* consumers, blocks and elements, and for every size of the blocks and of *)
(* the first block index: each element is found where the block index says *)
(* and handed out once and in order, and no block is lost or used twice.   *)
(***************************************************************************)
EXTENDS ImplicitProducer, FiniteSetTheorems, SequenceTheorems, TLAPS

-----------------------------------------------------------------------------
(* The counters *)

Rechecking == {c \in Consumers : pc[c] = "recheck"}
Counting   == {c \in Consumers : pc[c] \in {"recheck", "claim", "give up"}}

(* Every count was turned into a claim or given up, or will be. *)
Tally == dequeueOptimisticCount = headIndex + dequeueOvercommit + Cardinality(Counting)

(* What a consumer read of the counters. *)
CountsOK ==
  /\ \A c \in Consumers : pc[c] \in {"compare", "count", "recheck"} => overcommit[c] <= dequeueOvercommit
  /\ \A c \in Rechecking : myCount[c] < dequeueOptimisticCount
  /\ \A c, d \in Rechecking : myCount[c] = myCount[d] => c = d

(* The elements claimed, once those with a count below m have claimed too. *)
Sharers(m) == {c \in Consumers : pc[c] = "claim" \/ (pc[c] = "recheck" /\ myCount[c] < m)}
Taken(m) == headIndex + Cardinality(Sharers(m))

(* Up to some count there is an element for everyone that asks; above it, a
   consumer that finds one by its own count takes none from those before.  *)
ClaimsOK ==
  \E m \in 0..dequeueOptimisticCount :
    /\ Taken(m) <= tailIndex
    /\ \A c \in Rechecking, k \in m .. dequeueOptimisticCount :
         myCount[c] = k => Taken(k) <= k - overcommit[c]

(* A consumer that may not be sent away is alone, and there is an element. *)
ExcusesOK ==
  \A c \in Asking \ excused :
    /\ Asking = {c}
    /\ pc[c] # "give up"
    /\ pc[c] \in {"load overcommit", "compare"} => headIndex < tail[c] /\ tail[c] <= tailIndex
    /\ pc[c] \in {"compare", "count", "recheck"} => overcommit[c] = dequeueOvercommit
    /\ pc[c] \in {"count", "recheck"} => headIndex < tailIndex
    /\ pc[c] = "recheck" => myCount[c] - overcommit[c] = headIndex

-----------------------------------------------------------------------------
(* The block index *)

(* The base of block number k. *)
Nth(k) == BLOCK_SIZE * k

Multiple(m, y) == \E z \in Int : y = m * z

Cap(n) == Capacity(headers[n])

(* The current index: its size, the entry at a place, the place its tail is
   at, the one behind it, and how many places before the tail a place is.  *)
Size      == Cap(blockIndex)
Place(p)  == Current.index[p]
TailPlace == Current.tail
NextPlace == NextSlot(Current)
Age(p)    == IF p <= TailPlace THEN TailPlace - p ELSE TailPlace - p + Size

(* Two entries are as far apart in an old index as in the current one, round
   the old one.                                                            *)
Coherent(n) ==
  /\ Multiple(Cap(n), Size)
  /\ \A p, q \in 0 .. Cap(n) - 1, r, s \in 0 .. Size - 1 :
       Place(r) = headers[n].index[p] /\ Place(s) = headers[n].index[q]
         => Multiple(Cap(n), (r - s) - (p - q))

HeaderOK(n) ==
  /\ headers[n] = [tail |-> headers[n].tail, index |-> headers[n].index]
  /\ Cap(n) \in Nat /\ 2 <= Cap(n) /\ Cap(n) <= Size
  /\ headers[n].tail \in 0 .. Cap(n) - 1
  /\ headers[n].index \in [0 .. Cap(n) - 1 -> 1 .. Cap(n)]
  /\ Coherent(n)

(* Every entry has one place in the current index. *)
IndexesOK ==
  /\ headers \in Seq({headers[n] : n \in DOMAIN headers}) /\ headers # <<>>
  /\ \A n \in DOMAIN headers : HeaderOK(n)
  /\ Entries = 1 .. Size /\ DOMAIN values = 1 .. Size
  /\ \A p, q \in 0 .. Size - 1 : Place(p) = Place(q) => p = q
  /\ \A e \in 1 .. Size : \E p \in 0 .. Size - 1 : Place(p) = e

(* The number of the last block that the tail of the index leads to. *)
Top ==
  IF step \in {"find block", "rewind", "store value", "write", "publish"}
  THEN tailIndex \div BLOCK_SIZE ELSE (tailIndex - 1) \div BLOCK_SIZE

(* The blocks follow each other round the index up to its tail; the entry
   behind the tail may have its next key already.                         *)
RingOK ==
  \A p \in 0 .. Size - 1 :
    \/ keys[Place(p)] = INVALID_BLOCK_BASE
    \/ keys[Place(p)] = Nth(Top - Age(p))
    \/ p = NextPlace /\ keys[Place(p)] = tailIndex /\ tailIndex = Nth(Top + 1)

Valid(e) == keys[e] # INVALID_BLOCK_BASE

TailsOK ==
  /\ \A n \in DOMAIN headers : n < blockIndex => Valid(headers[n].index[headers[n].tail])
  /\ Top >= 0 => Valid(Place(TailPlace))
  /\ step \in {"find block", "rewind"} /\ Top >= 1 => Valid(Place((TailPlace - 1) % Size))

-----------------------------------------------------------------------------
(* The producer *)

InBlock == step \in {"write", "publish"} \/ (step = "idle" /\ tailIndex % BLOCK_SIZE # 0)

StepOK ==
  /\ step \notin {"idle", "write", "publish"} => tailIndex % BLOCK_SIZE = 0
  /\ step # "idle" => tailIndex < MaxElems
  /\ step = "grow" =>
       /\ Valid(Place(NextPlace))
       /\ keys[Place(NextPlace)] <= Nth(Top)
  /\ step \in {"store key", "store tail", "clear value"} =>
       idxEntry = Place(NextPlace) /\ values[idxEntry] = None
  /\ step \in {"store tail", "clear value"} => keys[idxEntry] = tailIndex
  /\ step \in {"find block", "rewind", "store value"} =>
       /\ idxEntry = Place(TailPlace) /\ values[idxEntry] = None
       /\ keys[idxEntry] = tailIndex
  /\ step = "store value" => tailBlock \in Blocks /\ completed[tailBlock] = 0
  /\ InBlock => /\ tailBlock \in Blocks
                /\ \E e \in Entries : keys[e] = Base(tailIndex) /\ values[e] = tailBlock
  /\ step = "publish" => cells[tailBlock][tailIndex % BLOCK_SIZE] = tailIndex

-----------------------------------------------------------------------------
(* The consumers and the blocks *)

(* A consumer has claimed an index and not moved its element yet. *)
HasClaim(c) == pc[c] \in {"load header", "load slot", "find entry", "load value", "move"}

FinderOK(c) ==
  /\ index[c] # None <=> HasClaim(c)
  /\ HasClaim(c) => index[c] < headIndex
  /\ pc[c] \in {"load slot", "find entry"} =>
       /\ header[c] \in DOMAIN headers
       /\ \E p \in 0 .. Cap(header[c]) - 1 : keys[headers[header[c]].index[p]] = Base(index[c])
  /\ pc[c] = "find entry" =>
       /\ slot[c] \in 0 .. Cap(header[c]) - 1
       /\ Valid(headers[header[c]].index[slot[c]])
  /\ pc[c] \in {"load value", "move"} => entry[c] \in Entries /\ keys[entry[c]] = Base(index[c])
  /\ pc[c] \in {"move", "set empty", "unlink"} =>
       block[c] \in Blocks /\ entry[c] \in Entries /\ values[entry[c]] = block[c]
  /\ pc[c] = "unlink" => completed[block[c]] = BLOCK_SIZE
  /\ pc[c] = "release" => block[c] \in Blocks

FindersOK ==
  /\ \A c \in Consumers : FinderOK(c)
  /\ \A c, d \in Consumers : HasClaim(c) /\ index[c] = index[d] => c = d
  /\ \A c, d \in Consumers : pc[c] = "unlink" /\ pc[d] = "unlink" /\ block[c] = block[d] => c = d

(* An element enqueued and not moved away yet. *)
Owed(x) == (headIndex <= x /\ x < tailIndex) \/ \E c \in Consumers : index[c] = x

(* Its block is linked, and it is there. *)
Kept(x) ==
  \E e \in Entries :
    keys[e] = Base(x) /\ values[e] # None /\ cells[values[e]][x % BLOCK_SIZE] = x

ElementsOK == \A x \in 0 .. MaxElems : Owed(x) => Kept(x)

(* Indexes of a block from headIndex on. *)
Unclaimed(k) ==
  IF headIndex <= k THEN BLOCK_SIZE
  ELSE IF headIndex >= k + BLOCK_SIZE THEN 0 ELSE k + BLOCK_SIZE - headIndex

(* The consumers on their way to count an element of the entry's block. *)
Busy(e) ==
  {c \in Consumers : \/ index[c] # None /\ Base(index[c]) = keys[e]
                     \/ pc[c] = "set empty" /\ entry[c] = e}

LinkedOK ==
  \A e \in Entries : values[e] # None =>
    /\ Valid(e) /\ keys[e] <= Nth(Top)
    /\ completed[values[e]] + Unclaimed(keys[e]) + Cardinality(Busy(e)) = BLOCK_SIZE

(* A block is in one place. *)
Idle(b)   == b \in unused \/ b \in free
InHand(b) == step = "store value" /\ tailBlock = b
Leaves(c, b) == pc[c] = "release" /\ block[c] = b

PlaceOK(b) ==
  /\ Idle(b) \/ InHand(b) \/ (\E e \in Entries : values[e] = b) \/ \E c \in Consumers : Leaves(c, b)
  /\ ~(b \in unused /\ b \in free)
  /\ Idle(b) => ~InHand(b) /\ (\A e \in Entries : values[e] # b) /\ \A c \in Consumers : ~Leaves(c, b)
  /\ InHand(b) => (\A e \in Entries : values[e] # b) /\ \A c \in Consumers : ~Leaves(c, b)
  /\ \A e \in Entries : values[e] = b => \A c \in Consumers : ~Leaves(c, b)
  /\ \A e, f \in Entries : values[e] = b /\ values[f] = b => e = f
  /\ \A c, d \in Consumers : Leaves(c, b) /\ Leaves(d, b) => c = d

PlacesOK == \A b \in Blocks : PlaceOK(b)

IInv ==
  /\ TypeOK
  /\ Tally /\ CountsOK /\ ClaimsOK /\ ExcusesOK
  /\ IndexesOK /\ RingOK /\ TailsOK
  /\ StepOK
  /\ FindersOK /\ ElementsOK /\ LinkedOK /\ PlacesOK

-----------------------------------------------------------------------------
(* Numbers *)

(* The size of a block is a number above one. *)
LEMMA BlockSizes == BLOCK_SIZE \in Nat /\ BLOCK_SIZE > 1
  BY ImplicitProducerAssumption

(* Multiples of a number are that number apart. *)
LEMMA ProductIs ==
  ASSUME NEW n \in Nat, NEW u \in Int, NEW v \in Int
  PROVE  /\ n * u \in Int
         /\ n * (u + 1) = n * u + n
         /\ n * u - n * v = n * (u - v)
         /\ u < v => n * u + n <= n * v
  <1>1. ASSUME u < v PROVE n * u + n <= n * v
    <2>1. PICK d \in Nat : v = u + 1 + d
      <3>1. v = u + 1 + (v - u - 1) /\ v - u - 1 \in Nat
        BY <1>1
      <3> QED BY <3>1
    <2>2. n * v = n * u + n + n * d
      BY <2>1
    <2>3. n * d \in Nat /\ n * u \in Int
      OBVIOUS
    <2> QED BY <2>2, <2>3
  <1> QED BY <1>1

(* A quotient and a small remainder are the ones. *)
LEMMA RemainderIs ==
  ASSUME NEW n \in Nat \ {0}, NEW z \in Int, NEW p \in 0 .. n - 1
  PROVE  (n * z + p) % n = p /\ (n * z + p) \div n = z
  <1> DEFINE y == n * z + p
             q == y \div n
             s == y % n
  <1>1. y \in Int
    OBVIOUS
  <1> HIDE DEF y
  <1>2. q \in Int /\ s \in 0 .. n - 1 /\ y = n * q + s
    BY <1>1
  <1> HIDE DEF q, s
  <1>3. (z < q => n * z + n <= n * q) /\ (q < z => n * q + n <= n * z)
    BY <1>2, ProductIs
  <1>4. n * q \in Int /\ n * z \in Int
    BY <1>2
  <1>5. n * q + s = n * z + p
    BY <1>2 DEF y
  <1>6. ~(q > z) /\ ~(z > q)
    BY <1>2, <1>3, <1>4, <1>5
  <1>7. q = z
    BY <1>2, <1>6
  <1>8. s = p
    BY <1>2, <1>4, <1>5, <1>7
  <1> QED BY <1>7, <1>8 DEF q, s, y

(* What remains is less than the divisor. *)
LEMMA QuotientIs ==
  ASSUME NEW n \in Nat \ {0}, NEW x \in Int
  PROVE  x \div n \in Int /\ x % n \in 0 .. n - 1 /\ x = n * (x \div n) + (x % n)
  OBVIOUS

(* The bases of blocks are as far apart as their numbers, and none is the
   invalid one.                                                           *)
LEMMA NthIs ==
  ASSUME NEW u \in Int, NEW v \in Int
  PROVE  /\ Nth(u) \in Int
         /\ Nth(u) = Nth(v) => u = v
         /\ u < v <=> Nth(u) < Nth(v)
         /\ u < v => Nth(u) + BLOCK_SIZE <= Nth(v)
         /\ u + 1 = v => Nth(v) = Nth(u) + BLOCK_SIZE
         /\ (Nth(u) - Nth(v)) \div BLOCK_SIZE = u - v
         /\ Nth(u) # INVALID_BLOCK_BASE
         /\ u >= 0 <=> Nth(u) >= 0
         /\ Nth(u) % BLOCK_SIZE = 0
         /\ Nth(u) \div BLOCK_SIZE = u
         /\ (Nth(u) - 1) \div BLOCK_SIZE = u - 1
  <1>1. PICK n \in Nat \ {0} : n = BLOCK_SIZE /\ n > 1
    BY BlockSizes
  <1>2. \A a, b \in Int : a < b => Nth(a) + n <= Nth(b)
    BY <1>1, ProductIs DEF Nth
  <1>3. \A a \in Int : Nth(a) \in Int /\ Nth(a + 1) = Nth(a) + n
    BY <1>1, ProductIs DEF Nth
  <1>4. Nth(0) = 0
    BY <1>1 DEF Nth
  <1>5. Nth(u) - Nth(v) = n * (u - v) + 0
    <2>1. n * u - n * v = n * (u - v) /\ n * (u - v) \in Int
      BY ProductIs
    <2> QED BY <1>1, <2>1 DEF Nth
  <1>6. (Nth(u) - Nth(v)) \div n = u - v
    <2>1. u - v \in Int /\ 0 \in 0 .. n - 1
      OBVIOUS
    <2> QED BY <1>5, <2>1, RemainderIs
  <1>7. Nth(u) % n = 0 /\ Nth(u) \div n = u
    <2>1. Nth(u) = n * u + 0 /\ 0 \in 0 .. n - 1
      BY <1>1, <1>3 DEF Nth
    <2> QED BY <2>1, RemainderIs
  <1>8. (Nth(u) - 1) \div n = u - 1
    <2>1. Nth(u) = Nth(u - 1) + n
      <3>1. u - 1 \in Int /\ u - 1 + 1 = u
        OBVIOUS
      <3> QED BY <1>3, <3>1
    <2>2. Nth(u) - 1 = n * (u - 1) + (n - 1)
      <3>1. Nth(u - 1) = n * (u - 1) /\ n * (u - 1) \in Int
        BY <1>1 DEF Nth
      <3> QED BY <2>1, <3>1
    <2>3. u - 1 \in Int /\ n - 1 \in 0 .. n - 1
      OBVIOUS
    <2> QED BY <2>2, <2>3, RemainderIs
  <1>9. Nth(u) # 1
    <2>1. 0 < u => 0 + n <= Nth(u)
      BY <1>2, <1>4
    <2>2. u < 0 => Nth(u) + n <= 0
      BY <1>2, <1>4
    <2> QED BY <1>1, <1>3, <1>4, <2>1, <2>2
  <1>10. (u < v => Nth(u) + n <= Nth(v)) /\ (v < u => Nth(v) + n <= Nth(u))
    BY <1>2
  <1>11. (u < 0 => Nth(u) + n <= 0) /\ (0 < u => 0 + n <= Nth(u))
    BY <1>2, <1>4
  <1>12. Nth(u) \in Int /\ Nth(v) \in Int
    BY <1>3
  <1>13. (u < v <=> Nth(u) < Nth(v)) /\ (Nth(u) = Nth(v) => u = v)
    BY <1>1, <1>10, <1>12
  <1>14. u >= 0 <=> Nth(u) >= 0
    BY <1>1, <1>4, <1>11, <1>12
  <1>15. u + 1 = v => Nth(v) = Nth(u) + n
    BY <1>3
  <1> QED BY <1>1, <1>6, <1>7, <1>8, <1>9, <1>10, <1>12, <1>13, <1>14, <1>15 DEF INVALID_BLOCK_BASE

(* The base of an index, and what remains. *)
LEMMA BaseIs ==
  ASSUME NEW x \in Int
  PROVE  /\ x \div BLOCK_SIZE \in Int /\ x % BLOCK_SIZE \in 0 .. BLOCK_SIZE - 1
         /\ Base(x) = Nth(x \div BLOCK_SIZE)
         /\ x = Base(x) + (x % BLOCK_SIZE)
         /\ x >= 0 => Base(x) >= 0
         /\ x % BLOCK_SIZE = 0 => (x - 1) \div BLOCK_SIZE = x \div BLOCK_SIZE - 1
         /\ x % BLOCK_SIZE # 0 => (x - 1) \div BLOCK_SIZE = x \div BLOCK_SIZE
         /\ (x + 1) % BLOCK_SIZE # 0 => Base(x + 1) = Base(x)
  <1>1. PICK n \in Nat \ {0} : n = BLOCK_SIZE /\ n > 1
    BY BlockSizes
  <1>2. PICK k \in Int, r \in 0 .. n - 1 : k = x \div n /\ r = x % n /\ x = n * k + r
    BY QuotientIs
  <1>3. Nth(k) = n * k /\ Nth(k) \in Int
    BY <1>1, NthIs DEF Nth
  <1>4. Base(x) = Nth(k) /\ x = Nth(k) + r
    <2>1. Base(x) = x - r
      BY <1>1, <1>2 DEF Base
    <2>2. x = Nth(k) + r
      BY <1>2, <1>3
    <2>3. x \in Int /\ r \in Int /\ Nth(k) \in Int
      BY <1>3
    <2> QED BY ONLY <2>1, <2>2, <2>3
  <1>5. x >= 0 => Nth(k) >= 0
    <2>1. k < 0 => Nth(k) + n <= Nth(0)
      BY <1>1, NthIs
    <2>2. Nth(0) = 0
      BY <1>1 DEF Nth
    <2>3. x >= 0 => ~(k < 0)
      BY <1>3, <1>4, <2>1, <2>2
    <2>4. k >= 0 => Nth(k) >= 0
      BY NthIs
    <2> QED BY <2>3, <2>4
  <1>6. ASSUME r = 0 PROVE (x - 1) \div n = k - 1
    <2>1. x - 1 = Nth(k) - 1
      BY <1>3, <1>4, <1>6
    <2> QED BY <1>1, <2>1, NthIs
  <1>7. ASSUME r # 0 PROVE (x - 1) \div n = k
    <2>1. n * k \in Int /\ r - 1 \in 0 .. n - 1
      BY <1>3, <1>7
    <2>2. x - 1 = n * k + (r - 1)
      BY <1>2, <2>1
    <2> QED BY <2>1, <2>2, RemainderIs
  <1>8. ASSUME (x + 1) % n # 0 PROVE Base(x + 1) = Base(x)
    <2>1. r # n - 1
      <3>1. ASSUME r = n - 1 PROVE FALSE
        <4>1. Nth(k + 1) = Nth(k) + n
          BY <1>1, NthIs
        <4>2. x + 1 = Nth(k + 1)
          BY <1>3, <1>4, <3>1, <4>1
        <4>3. Nth(k + 1) % n = 0
          BY <1>1, NthIs
        <4> QED BY <1>8, <4>2, <4>3
      <3> QED BY <3>1
    <2>2. r + 1 \in 0 .. n - 1
      BY <2>1
    <2>3. x + 1 = n * k + (r + 1)
      BY <1>2, <1>3
    <2>4. (x + 1) % n = r + 1
      BY <2>2, <2>3, RemainderIs
    <2>5. Base(x + 1) = x + 1 - (r + 1)
      BY <1>1, <2>4 DEF Base
    <2> QED BY <1>3, <1>4, <2>5
  <1> QED BY <1>1, <1>2, <1>4, <1>5, <1>6, <1>7, <1>8

(* Remainders of numbers from -n to 2n - 1. *)
LEMMA RoundIs ==
  ASSUME NEW n \in Nat \ {0}, NEW y \in Int
  PROVE  /\ y \in 0 .. n - 1 => y % n = y
         /\ y \in n .. n + n - 1 => y % n = y - n
         /\ y \in -n .. -1 => y % n = y + n
  <1>1. ASSUME y \in 0 .. n - 1 PROVE y % n = y
    <2>1. y = n * 0 + y
      OBVIOUS
    <2> QED BY <1>1, <2>1, RemainderIs
  <1>2. ASSUME y \in n .. n + n - 1 PROVE y % n = y - n
    <2>1. y = n * 1 + (y - n) /\ y - n \in 0 .. n - 1
      BY <1>2
    <2> QED BY <2>1, RemainderIs
  <1>3. ASSUME y \in -n .. -1 PROVE y % n = y + n
    <2>1. y = n * (-1) + (y + n) /\ y + n \in 0 .. n - 1
      BY <1>3
    <2> QED BY <2>1, RemainderIs
  <1> QED BY <1>1, <1>2, <1>3

(* A range lies in a longer one. *)
LEMMA RangesIn ==
  \A k, m \in Nat : k <= m => 1 .. k \subseteq 1 .. m
  OBVIOUS

(* A number is at most itself. *)
LEMMA AtMostItself == \A x \in Nat : x <= x
  OBVIOUS

(* Sums, differences and multiples of multiples; and a small multiple is 0. *)
LEMMA MultipleIs ==
  ASSUME NEW m \in Nat \ {0}, NEW x \in Int, NEW y \in Int
  PROVE  /\ Multiple(m, 0) /\ Multiple(m, m)
         /\ Multiple(m, x) /\ Multiple(m, y) => Multiple(m, x + y) /\ Multiple(m, x - y)
         /\ Multiple(m, x) /\ -m < x /\ x < m => x = 0
  <1>1. Multiple(m, 0) /\ Multiple(m, m)
    <2>1. 0 = m * 0 /\ m = m * 1
      OBVIOUS
    <2> QED BY <2>1 DEF Multiple
  <1>2. ASSUME Multiple(m, x), Multiple(m, y) PROVE Multiple(m, x + y) /\ Multiple(m, x - y)
    <2>1. PICK a \in Int : x = m * a
      BY <1>2 DEF Multiple
    <2>2. PICK b \in Int : y = m * b
      BY <1>2 DEF Multiple
    <2>3. x + y = m * (a + b) /\ x - y = m * (a - b) /\ a + b \in Int /\ a - b \in Int
      BY <2>1, <2>2
    <2> QED BY <2>3 DEF Multiple
  <1>3. ASSUME Multiple(m, x), -m < x, x < m PROVE x = 0
    <2>1. PICK a \in Int : x = m * a
      BY <1>3 DEF Multiple
    <2>2. CASE a >= 1
      <3>1. PICK d \in Nat : a = 1 + d
        <4>1. a = 1 + (a - 1) /\ a - 1 \in Nat
          BY <2>2
        <4> QED BY <4>1
      <3>2. m * a = m + m * d /\ m * d \in Nat
        BY <3>1
      <3> QED BY <3>2, <2>1, <1>3
    <2>3. CASE a <= -1
      <3>1. PICK d \in Nat : a = -1 - d
        <4>1. a = -1 - (-1 - a) /\ -1 - a \in Nat
          BY <2>3
        <4> QED BY <4>1
      <3>2. m * a = -m - m * d /\ m * d \in Nat
        BY <3>1
      <3> QED BY <3>2, <2>1, <1>3
    <2>4. CASE a = 0
      BY <2>4, <2>1
    <2> QED BY <2>1, <2>2, <2>3, <2>4
  <1> QED BY <1>1, <1>2, <1>3

(* What is a multiple of a multiple. *)
LEMMA MultipleOf ==
  ASSUME NEW m \in Nat \ {0}, NEW n \in Int, NEW x \in Int, Multiple(m, n), Multiple(n, x)
  PROVE  Multiple(m, x)
  <1>1. PICK a \in Int : n = m * a
    BY DEF Multiple
  <1>2. PICK b \in Int : x = n * b
    BY DEF Multiple
  <1>3. x = m * (a * b) /\ a * b \in Int
    BY <1>1, <1>2
  <1> QED BY <1>3 DEF Multiple

(* Numbers a multiple apart have the same remainder. *)
LEMMA MultipleApart ==
  ASSUME NEW n \in Nat \ {0}, NEW y \in Int, NEW p \in 0 .. n - 1, Multiple(n, y - p)
  PROVE  y % n = p
  <1>1. PICK z \in Int : y - p = n * z
    BY DEF Multiple
  <1>2. y = n * z + p /\ n * z \in Int
    BY <1>1
  <1> QED BY <1>2, RemainderIs

-----------------------------------------------------------------------------
(* Types, part by part *)

CountTypeOK ==
  /\ tailIndex \in 0 .. MaxElems /\ headIndex \in 0 .. tailIndex
  /\ dequeueOptimisticCount \in Nat /\ dequeueOvercommit \in 0 .. dequeueOptimisticCount
  /\ pc \in [Consumers -> Points]
  /\ tail \in [Consumers -> Nat] /\ overcommit \in [Consumers -> Nat]
  /\ myCount \in [Consumers -> Nat] /\ excused \subseteq Consumers

(* The counters and what was read of them are natural numbers. *)
LEMMA CountsAre ==
  ASSUME CountTypeOK
  PROVE  /\ tailIndex \in Nat /\ headIndex \in Nat /\ headIndex <= tailIndex
         /\ dequeueOptimisticCount \in Nat /\ dequeueOvercommit \in Nat
         /\ dequeueOvercommit <= dequeueOptimisticCount
         /\ \A c \in Consumers : tail[c] \in Nat /\ overcommit[c] \in Nat /\ myCount[c] \in Nat
  BY ImplicitProducerAssumption DEF CountTypeOK

LookupTypeOK ==
  /\ \A n \in DOMAIN headers :
       /\ headers[n].tail \in DOMAIN headers[n].index
       /\ headers[n].index \in [0 .. Capacity(headers[n]) - 1 -> Entries]
  /\ keys \in [Entries -> Nat] /\ values \in [Entries -> Blocks \cup {None}]

MemoryTypeOK ==
  /\ cells \in [Blocks -> [0 .. BLOCK_SIZE - 1 -> Nat \cup {None}]]
  /\ completed \in [Blocks -> 0 .. BLOCK_SIZE]
  /\ unused \subseteq Blocks /\ free \subseteq Blocks

StepTypeOK ==
  step \in Steps /\ idxEntry \in Entries \cup {0} /\ tailBlock \in Blocks \cup {None}

FindTypeOK ==
  /\ index \in [Consumers -> Nat \cup {None}]
  /\ header \in [Consumers -> 0 .. Len(headers)] /\ slot \in [Consumers -> Nat]
  /\ entry \in [Consumers -> Entries \cup {0}] /\ block \in [Consumers -> Blocks \cup {None}]
  /\ answer \in [Consumers -> Nat \cup {None}]

(* The kinds of the variables, in five parts. *)
LEMMA TypeParts ==
  TypeOK <=> CountTypeOK /\ LookupTypeOK /\ MemoryTypeOK /\ StepTypeOK /\ FindTypeOK
  BY DEF TypeOK, CountTypeOK, LookupTypeOK, MemoryTypeOK, StepTypeOK, FindTypeOK

(* None is no block and no number. *)
LEMMA NoneIs == None \notin Blocks /\ \A x \in Int : x # None
  BY ImplicitProducerAssumption

-----------------------------------------------------------------------------
(* What the block index is *)

(* The current index has Size places, each with an entry of its own. *)
LEMMA IndexIs ==
  ASSUME IndexesOK
  PROVE  /\ blockIndex \in Nat \ {0} /\ DOMAIN headers = 1 .. blockIndex
         /\ Size \in Nat /\ Size >= 2
         /\ TailPlace \in 0 .. Size - 1
         /\ Current.index \in [0 .. Size - 1 -> 1 .. Size]
         /\ \A p \in 0 .. Size - 1 : Place(p) \in Entries
  <1> DEFINE S == {headers[n] : n \in DOMAIN headers}
  <1>1. headers \in Seq(S) /\ headers # <<>>
    BY DEF IndexesOK
  <1>2. blockIndex \in Nat \ {0} /\ DOMAIN headers = 1 .. blockIndex
    BY <1>1, LenProperties, EmptySeq DEF blockIndex
  <1>3. HeaderOK(blockIndex)
    BY <1>2 DEF IndexesOK
  <1>4. /\ Size \in Nat /\ Size >= 2
        /\ TailPlace \in 0 .. Size - 1
        /\ Current.index \in [0 .. Size - 1 -> 1 .. Size]
    BY <1>3 DEF HeaderOK, Size, TailPlace, Current, Cap
  <1>5. \A p \in 0 .. Size - 1 : Place(p) \in Entries
    BY <1>4 DEF Place, IndexesOK
  <1> QED BY <1>2, <1>4, <1>5

(* The place behind the tail is the oldest. *)
LEMMA AgeIs ==
  ASSUME IndexesOK
  PROVE  /\ NextPlace \in 0 .. Size - 1
         /\ NextPlace = IF TailPlace = Size - 1 THEN 0 ELSE TailPlace + 1
         /\ Age(NextPlace) = Size - 1
         /\ \A p \in 0 .. Size - 1 : Age(p) \in 0 .. Size - 1
  <1>1. Size \in Nat \ {0} /\ Size >= 2 /\ TailPlace \in 0 .. Size - 1
    BY IndexIs
  <1>2. NextPlace = (TailPlace + 1) % Size
    BY DEF NextPlace, NextSlot, TailPlace, Size, Cap, Current
  <1>3. NextPlace = IF TailPlace = Size - 1 THEN 0 ELSE TailPlace + 1
    BY <1>1, <1>2, RoundIs
  <1> QED BY <1>1, <1>3 DEF Age

(* The number of the last block is an integer. *)
LEMMA TopIs ==
  ASSUME tailIndex \in Int
  PROVE  Top \in Int
  <1>1. tailIndex \div BLOCK_SIZE \in Int /\ (tailIndex - 1) \div BLOCK_SIZE \in Int
    BY BaseIs
  <1> QED BY <1>1 DEF Top

(* The number of the block of an entry follows from its place, round the
   index.                                                                *)
LEMMA KeyIs ==
  ASSUME IndexesOK, RingOK, tailIndex \in Int, NEW p \in 0 .. Size - 1, Valid(Place(p))
  PROVE  \E k \in Int : /\ keys[Place(p)] = Nth(k)
                        /\ k <= Top + 1
                        /\ Multiple(Size, (k - p) - (Top - TailPlace))
  <1>1. Size \in Nat \ {0} /\ TailPlace \in 0 .. Size - 1 /\ Top \in Int
    BY IndexIs, TopIs
  <1>2. Age(p) \in 0 .. Size - 1
    BY AgeIs
  <1>3. Multiple(Size, 0) /\ Multiple(Size, 0 - Size) /\ Multiple(Size, Size)
    BY <1>1, MultipleIs
  <1>4. CASE keys[Place(p)] = Nth(Top - Age(p))
    <2>1. Top - Age(p) \in Int /\ Top - Age(p) <= Top + 1
      BY <1>1, <1>2
    <2>2. \/ ((Top - Age(p)) - p) - (Top - TailPlace) = 0
          \/ ((Top - Age(p)) - p) - (Top - TailPlace) = 0 - Size
      BY <1>1 DEF Age
    <2>3. Multiple(Size, ((Top - Age(p)) - p) - (Top - TailPlace))
      BY <2>2, <1>3
    <2> QED BY <1>4, <2>1, <2>3
  <1>5. CASE p = NextPlace /\ keys[Place(p)] = tailIndex /\ tailIndex = Nth(Top + 1)
    <2>1. \/ ((Top + 1) - p) - (Top - TailPlace) = 0
          \/ ((Top + 1) - p) - (Top - TailPlace) = Size
      BY <1>1, <1>5, AgeIs
    <2>2. Multiple(Size, ((Top + 1) - p) - (Top - TailPlace))
      BY <2>1, <1>3
    <2> QED BY <1>1, <1>5, <2>2
  <1> QED BY <1>4, <1>5 DEF RingOK, Valid

(* No two entries are of the same block. *)
LEMMA KeysDistinct ==
  ASSUME IndexesOK, RingOK, tailIndex \in Int,
         NEW e \in Entries, NEW f \in Entries, Valid(e), keys[e] = keys[f]
  PROVE  e = f
  <1>1. Size \in Nat \ {0} /\ TailPlace \in 0 .. Size - 1 /\ Top \in Int
    BY IndexIs, TopIs
  <1>2. PICK p \in 0 .. Size - 1 : Place(p) = e
    BY DEF IndexesOK
  <1>3. PICK q \in 0 .. Size - 1 : Place(q) = f
    BY DEF IndexesOK
  <1>4. PICK k \in Int : keys[e] = Nth(k) /\ Multiple(Size, (k - p) - (Top - TailPlace))
    BY <1>2, KeyIs
  <1>5. Valid(f)
    BY DEF Valid
  <1>6. PICK l \in Int : keys[f] = Nth(l) /\ Multiple(Size, (l - q) - (Top - TailPlace))
    BY <1>3, <1>5, KeyIs
  <1>7. k = l
    <2>1. Nth(k) = Nth(l) => k = l
      BY NthIs
    <2> QED BY <1>4, <1>6, <2>1
  <1>8. Multiple(Size, ((k - p) - (Top - TailPlace)) - ((l - q) - (Top - TailPlace)))
    <2>1. (k - p) - (Top - TailPlace) \in Int /\ (l - q) - (Top - TailPlace) \in Int
      BY <1>1
    <2> QED BY <1>1, <1>4, <1>6, <2>1, MultipleIs
  <1>9. ((k - p) - (Top - TailPlace)) - ((l - q) - (Top - TailPlace)) = q - p
    BY <1>1, <1>7
  <1>10. q - p = 0
    <2>1. q - p \in Int /\ -Size < q - p /\ q - p < Size
      BY <1>1
    <2> QED BY <1>1, <1>8, <1>9, <2>1, MultipleIs
  <1> QED BY <1>2, <1>3, <1>10

(* get_block_index_index_for_index finds the entry of an index from any
   entry of a header that has a key.                                     *)
LEMMA LookupIs ==
  ASSUME IndexesOK, RingOK, tailIndex \in Int,
         NEW n \in DOMAIN headers, NEW p \in 0 .. Cap(n) - 1, NEW q \in 0 .. Cap(n) - 1,
         NEW i \in Int, keys[headers[n].index[p]] = Base(i), Valid(headers[n].index[q])
  PROVE  (q + ((Base(i) - keys[headers[n].index[q]]) \div BLOCK_SIZE)) % Cap(n) = p
  <1>1. Size \in Nat \ {0} /\ TailPlace \in 0 .. Size - 1 /\ Top \in Int
    BY IndexIs, TopIs
  <1>2. HeaderOK(n)
    BY DEF IndexesOK
  <1>3. /\ Cap(n) \in Nat \ {0} /\ Cap(n) <= Size
        /\ headers[n].index[p] \in 1 .. Size /\ headers[n].index[q] \in 1 .. Size
    <2>1. /\ Cap(n) \in Nat /\ 2 <= Cap(n) /\ Cap(n) <= Size
          /\ headers[n].index \in [0 .. Cap(n) - 1 -> 1 .. Cap(n)]
      BY <1>2 DEF HeaderOK
    <2>2. headers[n].index[p] \in 1 .. Cap(n) /\ headers[n].index[q] \in 1 .. Cap(n)
      BY <2>1
    <2>3. 1 .. Cap(n) \subseteq 1 .. Size
      BY <1>1, <2>1, RangesIn
    <2>4. Cap(n) \in Nat \ {0}
      BY <2>1
    <2> QED BY <2>1, <2>2, <2>3, <2>4
  <1>4. PICK r \in 0 .. Size - 1 : Place(r) = headers[n].index[p]
    BY <1>3 DEF IndexesOK
  <1>5. PICK s \in 0 .. Size - 1 : Place(s) = headers[n].index[q]
    BY <1>3 DEF IndexesOK
  <1>6. Base(i) = Nth(i \div BLOCK_SIZE) /\ i \div BLOCK_SIZE \in Int
    BY BaseIs
  <1>7. Valid(Place(r))
    BY <1>4, <1>6, NthIs DEF Valid
  <1>8. PICK k \in Int : keys[Place(r)] = Nth(k) /\ Multiple(Size, (k - r) - (Top - TailPlace))
    BY <1>7, KeyIs
  <1>9. PICK l \in Int : keys[Place(s)] = Nth(l) /\ Multiple(Size, (l - s) - (Top - TailPlace))
    BY <1>5, KeyIs
  <1>10. (Base(i) - keys[headers[n].index[q]]) \div BLOCK_SIZE = k - l
    BY <1>4, <1>5, <1>8, <1>9, NthIs
  <1>11. Multiple(Size, (k - l) - (r - s))
    <2>1. (k - r) - (Top - TailPlace) \in Int /\ (l - s) - (Top - TailPlace) \in Int
      BY <1>1
    <2>2. Multiple(Size, ((k - r) - (Top - TailPlace)) - ((l - s) - (Top - TailPlace)))
      BY <1>1, <1>8, <1>9, <2>1, MultipleIs
    <2>3. ((k - r) - (Top - TailPlace)) - ((l - s) - (Top - TailPlace)) = (k - l) - (r - s)
      BY <1>1
    <2> QED BY <2>2, <2>3
  <1>12. Multiple(Cap(n), Size) /\ Multiple(Cap(n), (r - s) - (p - q))
    BY <1>2, <1>4, <1>5 DEF HeaderOK, Coherent
  <1>13. Multiple(Cap(n), (k - l) - (r - s))
    <2>1. (k - l) - (r - s) \in Int /\ Size \in Int
      BY <1>1
    <2> QED BY <1>3, <1>11, <1>12, <2>1, MultipleOf
  <1>14. p \in Int /\ q \in Int
    BY <1>3
  <1>15. Multiple(Cap(n), (q + (k - l)) - p)
    <2>1. (k - l) - (r - s) \in Int /\ (r - s) - (p - q) \in Int
      BY <1>1, <1>14
    <2>2. Multiple(Cap(n), ((k - l) - (r - s)) + ((r - s) - (p - q)))
      BY <1>3, <1>12, <1>13, <2>1, MultipleIs
    <2>3. ((k - l) - (r - s)) + ((r - s) - (p - q)) = (q + (k - l)) - p
      BY <1>1, <1>14
    <2> QED BY <2>2, <2>3
  <1>16. q + (k - l) \in Int
    BY <1>14
  <1> QED BY <1>3, <1>10, <1>15, <1>16, MultipleApart

-----------------------------------------------------------------------------
(* The counters *)

CountersOK == Tally /\ CountsOK /\ ClaimsOK /\ ExcusesOK

CountingPoints == {"load overcommit", "compare", "count", "recheck", "give up", "claim"}

(* The sets that are counted are finite. *)
LEMMA CountedIs ==
  /\ IsFiniteSet(Counting) /\ Cardinality(Counting) \in Nat
  /\ \A m \in Int : IsFiniteSet(Sharers(m)) /\ Cardinality(Sharers(m)) \in Nat
  <1>1. Counting \subseteq Consumers /\ \A m \in Int : Sharers(m) \subseteq Consumers
    BY DEF Counting, Sharers
  <1> QED BY <1>1, FS_Subset, FS_CardinalityType, ImplicitProducerAssumption

(* A step that does not count leaves what is said of the counters. *)
LEMMA CountersKept ==
  ASSUME CountersOK, CountTypeOK, tailIndex' \in Nat, tailIndex <= tailIndex',
         UNCHANGED <<headIndex, dequeueOptimisticCount, dequeueOvercommit, counting, excused>>,
         \A c \in Consumers : \/ pc'[c] = pc[c]
                              \/ pc[c] \notin CountingPoints /\ pc'[c] \notin CountingPoints,
         Asking' \subseteq Asking
  PROVE  CountersOK'
  <1> USE DEF CountersOK, counting
  <1>1. /\ Counting' = Counting /\ Rechecking' = Rechecking
        /\ \A m : Sharers(m)' = Sharers(m)
    BY DEF Counting, Rechecking, Sharers, CountingPoints
  <1>2. Tally'
    BY <1>1 DEF Tally
  <1>3. CountsOK'
    BY <1>1 DEF CountsOK, CountingPoints
  <1>4. ClaimsOK'
    <2>1. \A m : Taken(m)' = Taken(m)
      BY <1>1 DEF Taken
    <2>2. PICK m \in 0 .. dequeueOptimisticCount :
             /\ Taken(m) <= tailIndex
             /\ \A c \in Rechecking, k \in m .. dequeueOptimisticCount :
                  myCount[c] = k => Taken(k) <= k - overcommit[c]
      BY DEF ClaimsOK
    <2>3. Taken(m) \in Nat /\ tailIndex \in Nat
      BY CountedIs DEF Taken, CountTypeOK
    <2>4. Taken(m) <= tailIndex'
      BY <2>2, <2>3
    <2> QED BY <1>1, <2>1, <2>2, <2>4 DEF ClaimsOK
  <1>5. ExcusesOK'
    <2> SUFFICES ASSUME NEW c \in Asking', c \notin excused
                 PROVE  /\ Asking' = {c}
                        /\ pc'[c] # "give up"
                        /\ pc'[c] \in {"load overcommit", "compare"} =>
                             headIndex < tail[c] /\ tail[c] <= tailIndex'
                        /\ pc'[c] \in {"compare", "count", "recheck"} =>
                             overcommit[c] = dequeueOvercommit
                        /\ pc'[c] \in {"count", "recheck"} => headIndex < tailIndex'
                        /\ pc'[c] = "recheck" => myCount[c] - overcommit[c] = headIndex
      BY DEF ExcusesOK
    <2>1. c \in Asking \ excused /\ c \in Consumers
      BY DEF Asking
    <2>2. Asking = {c}
      BY <2>1 DEF ExcusesOK
    <2>3. CASE pc'[c] = pc[c]
      <3>1. tail[c] \in Nat /\ headIndex \in Nat /\ tailIndex \in Nat
        BY <2>1 DEF CountTypeOK
      <3>2. Asking' = {c}
        BY <2>2
      <3>3. /\ pc[c] # "give up"
            /\ pc[c] \in {"load overcommit", "compare"} => headIndex < tail[c] /\ tail[c] <= tailIndex
            /\ pc[c] \in {"compare", "count", "recheck"} => overcommit[c] = dequeueOvercommit
            /\ pc[c] \in {"count", "recheck"} => headIndex < tailIndex
            /\ pc[c] = "recheck" => myCount[c] - overcommit[c] = headIndex
        BY <2>1 DEF ExcusesOK
      <3> HIDE DEF CountersOK
      <3>4. headIndex < tailIndex => headIndex < tailIndex'
        BY <3>1
      <3>5. tail[c] <= tailIndex => tail[c] <= tailIndex'
        BY <3>1
      <3> QED BY <2>3, <3>2, <3>3, <3>4, <3>5
    <2>4. CASE pc'[c] \notin CountingPoints
      BY <2>2, <2>4 DEF CountingPoints
    <2> QED BY <2>1, <2>3, <2>4
  <1> QED BY <1>2, <1>3, <1>4, <1>5

(* A step before a count is taken. *)
LEMMA TakenKept ==
  ASSUME Tally, ClaimsOK, CountTypeOK,
         UNCHANGED <<tailIndex, headIndex, dequeueOptimisticCount, dequeueOvercommit, myCount>>,
         \A d \in Consumers : \/ pc'[d] = pc[d] /\ overcommit'[d] = overcommit[d]
                              \/ {pc[d], pc'[d]} \cap {"recheck", "give up", "claim"} = {}
  PROVE  Tally' /\ ClaimsOK' /\ Rechecking' = Rechecking /\ Counting' = Counting
  <1>1. /\ Counting' = Counting /\ Rechecking' = Rechecking
        /\ \A m : Sharers(m)' = Sharers(m)
        /\ \A d \in Rechecking : overcommit'[d] = overcommit[d]
    BY DEF Counting, Rechecking, Sharers
  <1>2. Tally'
    BY <1>1 DEF Tally
  <1>3. \A m : Taken(m)' = Taken(m)
    BY <1>1 DEF Taken
  <1> QED BY <1>1, <1>2, <1>3 DEF ClaimsOK

(* Dequeue: a consumer asks, and is excused unless it is alone and an
   element waits. *)
LEMMA DequeueCounts ==
  ASSUME CountTypeOK, CountersOK, NEW c \in Consumers, Dequeue(c)
  PROVE  CountTypeOK' /\ CountersOK'
  <1>0. /\ pc' = [pc EXCEPT ![c] = "load overcommit"]
        /\ tail' = [tail EXCEPT ![c] = tailIndex]
    BY DEF Dequeue, Goto, Set
  <1>1. /\ pc[c] = "idle"
        /\ excused' = IF Asking # {} \/ headIndex = tailIndex THEN excused \cup Asking \cup {c}
                      ELSE excused \ {c}
        /\ UNCHANGED <<counters, overcommit, myCount>>
    BY DEF Dequeue
  <1>2. CountTypeOK'
    <2>1. pc' \in [Consumers -> Points] /\ tail' \in [Consumers -> Nat]
      BY <1>0, CountsAre DEF CountTypeOK, Points
    <2>2. excused' \subseteq Consumers
      BY <1>1 DEF CountTypeOK, Asking
    <2> QED BY <1>1, <2>1, <2>2 DEF CountTypeOK, counters
  <1>3. /\ \A d \in Consumers : pc'[d] = IF d = c THEN "load overcommit" ELSE pc[d]
        /\ tail'[c] = tailIndex
    BY <1>0 DEF CountTypeOK
  <1>4. Tally' /\ ClaimsOK' /\ Rechecking' = Rechecking /\ Counting' = Counting
    BY <1>1, <1>3, TakenKept DEF CountersOK, counters
  <1>5. CountsOK'
    BY <1>1, <1>3, <1>4 DEF CountersOK, CountsOK, counters
  <1>6. Asking' = Asking \cup {c}
    BY <1>3 DEF Asking
  <1>7. ExcusesOK'
    <2>1. CASE Asking # {} \/ headIndex = tailIndex
      BY <2>1, <1>1, <1>6 DEF ExcusesOK
    <2>2. CASE Asking = {} /\ headIndex # tailIndex
      <3>1. Asking' = {c}
        BY <2>2, <1>6
      <3>2. tail'[c] = tailIndex /\ headIndex < tailIndex /\ UNCHANGED <<headIndex, tailIndex>>
        <4>1. headIndex < tailIndex
          BY <2>2, CountsAre
        <4>2. UNCHANGED <<headIndex, tailIndex>>
          BY <1>1 DEF counters
        <4> QED BY <4>1, <4>2, <1>3
      <3>3. tail'[c] <= tailIndex'
        BY <3>2, <1>2 DEF CountTypeOK
      <3> QED BY <3>1, <3>2, <3>3, <1>3 DEF ExcusesOK
    <2> QED BY <2>1, <2>2
  <1> QED BY <1>2, <1>4, <1>5, <1>7 DEF CountersOK

(* LoadOvercommit: what is read is what is, for a consumer that is alone. *)
LEMMA LoadOvercommitCounts ==
  ASSUME CountTypeOK, CountersOK, NEW c \in Consumers, LoadOvercommit(c)
  PROVE  CountTypeOK' /\ CountersOK'
  <1>0. /\ pc' = [pc EXCEPT ![c] = "compare"]
        /\ overcommit' = [overcommit EXCEPT ![c] = dequeueOvercommit]
    BY DEF LoadOvercommit, Goto, Set
  <1>1. /\ pc[c] = "load overcommit"
        /\ UNCHANGED <<counters, tail, myCount, excused>>
    BY DEF LoadOvercommit
  <1>2. CountTypeOK'
    <2>1. pc' \in [Consumers -> Points] /\ overcommit' \in [Consumers -> Nat]
      BY <1>0, CountsAre DEF CountTypeOK, Points
    <2> QED BY <1>1, <2>1 DEF CountTypeOK, counters
  <1>3. \A d \in Consumers : /\ pc'[d] = IF d = c THEN "compare" ELSE pc[d]
                             /\ overcommit'[d] = IF d = c THEN dequeueOvercommit ELSE overcommit[d]
    BY <1>0 DEF CountTypeOK
  <1>4. Tally' /\ ClaimsOK' /\ Rechecking' = Rechecking /\ Counting' = Counting
    BY <1>1, <1>3, TakenKept DEF CountersOK, counters
  <1>5. CountsOK'
    <2>1. \A d \in Consumers : pc'[d] \in {"compare", "count", "recheck"} => overcommit'[d] <= dequeueOvercommit
      <3>1. \A d \in Consumers : pc[d] \in {"compare", "count", "recheck"} => overcommit[d] <= dequeueOvercommit
        BY DEF CountersOK, CountsOK
      <3>2. dequeueOvercommit <= dequeueOvercommit
        BY CountsAre
      <3> QED BY <3>1, <3>2, <1>3
    <2> QED BY <2>1, <1>1, <1>4 DEF CountersOK, CountsOK, counters
  <1>6. Asking' = Asking
    BY <1>1, <1>3 DEF Asking
  <1>7. ExcusesOK'
    <2> SUFFICES ASSUME NEW d \in Asking, d \notin excused
                 PROVE  /\ Asking = {d}
                        /\ pc'[d] # "give up"
                        /\ pc'[d] \in {"load overcommit", "compare"} =>
                             headIndex < tail[d] /\ tail[d] <= tailIndex
                        /\ pc'[d] \in {"compare", "count", "recheck"} =>
                             overcommit'[d] = dequeueOvercommit
                        /\ pc'[d] \in {"count", "recheck"} => headIndex < tailIndex
                        /\ pc'[d] = "recheck" => myCount[d] - overcommit'[d] = headIndex
      BY <1>1, <1>6 DEF ExcusesOK, counters
    <2>1. d \in Consumers /\ d \in Asking \ excused
      BY DEF Asking
    <2>2. Asking = {d} /\ d = c
      BY <2>1, <1>6, <1>1 DEF CountersOK, ExcusesOK, Asking
    <2>3. pc[c] \in {"load overcommit", "compare"} => headIndex < tail[c] /\ tail[c] <= tailIndex
      BY <2>1, <2>2 DEF CountersOK, ExcusesOK
    <2> QED BY <2>2, <2>3, <1>1, <1>3
  <1> QED BY <1>2, <1>4, <1>5, <1>7 DEF CountersOK

(* A consumer that may not be sent away sees the element. *)
LEMMA CompareSees ==
  ASSUME CountTypeOK, CountersOK, NEW c \in Consumers, pc[c] = "compare", c \notin excused
  PROVE  /\ dequeueOptimisticCount - overcommit[c] < tail[c]
         /\ Asking = {c} /\ headIndex < tailIndex /\ overcommit[c] = dequeueOvercommit
  <1>1. c \in Asking \ excused
    BY DEF Asking
  <1>2. Asking = {c} /\ headIndex < tail[c] /\ tail[c] <= tailIndex /\ overcommit[c] = dequeueOvercommit
    BY <1>1 DEF CountersOK, ExcusesOK
  <1>3. Counting = {}
    BY <1>2 DEF Counting, Asking
  <1>4. dequeueOptimisticCount = headIndex + dequeueOvercommit
    BY <1>3, FS_EmptySet DEF CountersOK, Tally, CountTypeOK
  <1> QED BY <1>2, <1>4 DEF CountTypeOK

(* Compare: whoever finds nothing leaves with no count. *)
LEMMA CompareCounts ==
  ASSUME CountTypeOK, CountersOK, NEW c \in Consumers, Compare(c)
  PROVE  CountTypeOK' /\ CountersOK'
  <1>0. /\ tail' = [tail EXCEPT ![c] = 0]
        /\ pc' = [pc EXCEPT ![c] =
                    IF dequeueOptimisticCount - overcommit[c] < tail[c] THEN "count" ELSE "idle"]
    BY DEF Compare, Goto, Set
  <1>1. /\ pc[c] = "compare"
        /\ UNCHANGED <<counters, overcommit, myCount, excused>>
    BY DEF Compare
  <1>2. CountTypeOK'
    <2>1. pc' \in [Consumers -> Points] /\ tail' \in [Consumers -> Nat]
      BY <1>0, CountsAre DEF CountTypeOK, Points
    <2> QED BY <1>1, <2>1 DEF CountTypeOK, counters
  <1>3. /\ \A d \in Consumers : d # c => pc'[d] = pc[d] /\ tail'[d] = tail[d]
        /\ pc'[c] \in {"count", "idle"}
        /\ pc'[c] = "idle" => ~(dequeueOptimisticCount - overcommit[c] < tail[c])
    BY <1>0 DEF CountTypeOK
  <1>4. Tally' /\ ClaimsOK' /\ Rechecking' = Rechecking /\ Counting' = Counting
    BY <1>1, <1>3, TakenKept DEF CountersOK, counters
  <1>5. CountsOK'
    BY <1>1, <1>3, <1>4 DEF CountersOK, CountsOK, counters
  <1>6. Asking' \subseteq Asking /\ c \in Asking
    BY <1>1, <1>3 DEF Asking
  <1>7. ExcusesOK'
    <2>1. CASE c \in excused
      <3>1. \A d \in Asking' : d \in excused
        BY <2>1, <1>6 DEF CountersOK, ExcusesOK
      <3> QED BY <3>1, <1>1 DEF ExcusesOK
    <2>2. CASE c \notin excused
      <3>1. pc'[c] = "count" /\ Asking = {c} /\ headIndex < tailIndex /\ overcommit[c] = dequeueOvercommit
        BY <2>2, <1>1, <1>3, CompareSees
      <3>2. Asking' = {c}
        BY <3>1, <1>6 DEF Asking
      <3> QED BY <3>1, <3>2, <1>1 DEF ExcusesOK, counters
    <2> QED BY <2>1, <2>2
  <1> QED BY <1>2, <1>4, <1>5, <1>7 DEF CountersOK

(* Count: the counts taken are different, and a new one is the highest. *)
LEMMA CountCounts ==
  ASSUME CountTypeOK, CountersOK, NEW c \in Consumers, Count(c)
  PROVE  CountTypeOK' /\ CountersOK'
  <1>0. /\ pc' = [pc EXCEPT ![c] = "recheck"]
        /\ myCount' = [myCount EXCEPT ![c] = dequeueOptimisticCount]
    BY DEF Count, Goto, Set
  <1>1. /\ pc[c] = "count" /\ dequeueOptimisticCount' = dequeueOptimisticCount + 1
        /\ UNCHANGED <<tailIndex, headIndex, dequeueOvercommit, tail, overcommit, excused>>
    BY DEF Count
  <1>2. CountTypeOK'
    <2>1. pc' \in [Consumers -> Points] /\ myCount' \in [Consumers -> Nat]
      BY <1>0, CountsAre DEF CountTypeOK, Points
    <2>2. dequeueOptimisticCount' \in Nat /\ dequeueOvercommit' \in 0 .. dequeueOptimisticCount'
      BY <1>1, CountsAre
    <2> QED BY <1>1, <2>1, <2>2 DEF CountTypeOK
  <1>3. /\ \A d \in Consumers : d # c => pc'[d] = pc[d] /\ myCount'[d] = myCount[d]
        /\ pc'[c] = "recheck" /\ myCount'[c] = dequeueOptimisticCount
    BY <1>0 DEF CountTypeOK
  <1>4. c \notin Counting /\ Counting' = Counting \cup {c} /\ Rechecking' = Rechecking \cup {c}
    BY <1>1, <1>3 DEF Counting, Rechecking
  <1>5. Tally'
    <2>1. Cardinality(Counting') = Cardinality(Counting) + 1
      BY <1>4, CountedIs, FS_AddElement
    <2> QED BY <1>1, <2>1, CountsAre, CountedIs DEF CountersOK, Tally
  <1>6. \A d \in Rechecking : d \in Consumers /\ d # c /\ myCount[d] < dequeueOptimisticCount
    BY <1>1 DEF CountersOK, CountsOK, Rechecking
  <1>7. CountsOK'
    <2>1. \A d \in Consumers : pc'[d] \in {"compare", "count", "recheck"} => overcommit'[d] <= dequeueOvercommit'
      BY <1>1, <1>3 DEF CountersOK, CountsOK
    <2>2. \A d \in Rechecking' : myCount'[d] < dequeueOptimisticCount'
      BY <1>1, <1>3, <1>4, <1>6, CountsAre
    <2>3. \A d, e \in Rechecking' : myCount'[d] = myCount'[e] => d = e
      BY <1>3, <1>4, <1>6, CountsAre DEF CountersOK, CountsOK
    <2> QED BY <2>1, <2>2, <2>3 DEF CountsOK
  <1>8. ClaimsOK'
    <2>1. \A m \in 0 .. dequeueOptimisticCount : Sharers(m)' = Sharers(m)
      BY <1>1, <1>3, CountsAre DEF Sharers
    <2>2. \A m \in 0 .. dequeueOptimisticCount : Taken(m)' = Taken(m)
      BY <1>1, <2>1 DEF Taken
    <2>3. PICK m \in 0 .. dequeueOptimisticCount :
             /\ Taken(m) <= tailIndex
             /\ \A d \in Rechecking, k \in m .. dequeueOptimisticCount :
                  myCount[d] = k => Taken(k) <= k - overcommit[d]
      BY DEF CountersOK, ClaimsOK
    <2>4. Taken(dequeueOptimisticCount) <= dequeueOptimisticCount - overcommit[c]
      <3>1. Sharers(dequeueOptimisticCount) \subseteq Counting
        BY DEF Sharers, Counting
      <3>2. Cardinality(Sharers(dequeueOptimisticCount)) <= Cardinality(Counting)
        BY <3>1, CountedIs, FS_Subset
      <3>3. overcommit[c] <= dequeueOvercommit /\ overcommit[c] \in Nat
        BY <1>1, CountsAre DEF CountersOK, CountsOK
      <3> QED BY <3>2, <3>3, CountsAre, CountedIs DEF CountersOK, Tally, Taken
    <2>5. \A d \in Rechecking', k \in m .. dequeueOptimisticCount' :
            myCount'[d] = k => Taken(k)' <= k - overcommit'[d]
      <3> SUFFICES ASSUME NEW d \in Rechecking', NEW k \in m .. dequeueOptimisticCount', myCount'[d] = k
                   PROVE  Taken(k)' <= k - overcommit'[d]
        OBVIOUS
      <3>1. overcommit'[d] = overcommit[d]
        BY <1>1
      <3>2. CASE d = c
        <4>1. dequeueOptimisticCount \in 0 .. dequeueOptimisticCount /\ k = dequeueOptimisticCount
          BY <3>2, <1>3, CountsAre
        <4> QED BY <4>1, <3>1, <3>2, <2>2, <2>4
      <3>3. CASE d # c
        <4>1. d \in Rechecking /\ d \in Consumers
          BY <3>3, <1>4 DEF Rechecking
        <4>2. myCount[d] = k /\ k \in 0 .. dequeueOptimisticCount /\ k \in m .. dequeueOptimisticCount
          BY <4>1, <3>3, <1>3, <1>6, CountsAre
        <4> QED BY <4>1, <4>2, <3>1, <2>2, <2>3
      <3> QED BY <3>2, <3>3
    <2>6. m \in 0 .. dequeueOptimisticCount' /\ Taken(m)' <= tailIndex'
      BY <1>1, <2>2, <2>3, CountsAre
    <2> QED BY <2>5, <2>6 DEF ClaimsOK
  <1>9. ExcusesOK'
    <2>1. Asking' = Asking /\ c \in Asking
      BY <1>1, <1>3 DEF Asking
    <2> SUFFICES ASSUME NEW d \in Asking, d \notin excused
                 PROVE  /\ Asking = {d}
                        /\ pc'[d] # "give up"
                        /\ pc'[d] \in {"load overcommit", "compare"} =>
                             headIndex < tail[d] /\ tail[d] <= tailIndex
                        /\ pc'[d] \in {"compare", "count", "recheck"} =>
                             overcommit[d] = dequeueOvercommit
                        /\ pc'[d] \in {"count", "recheck"} => headIndex < tailIndex
                        /\ pc'[d] = "recheck" => myCount'[d] - overcommit[d] = headIndex
      BY <1>1, <2>1 DEF ExcusesOK
    <2>2. d \in Consumers /\ d \in Asking \ excused
      BY DEF Asking
    <2>3. Asking = {d} /\ d = c
      BY <2>1, <2>2 DEF CountersOK, ExcusesOK
    <2>4. overcommit[c] = dequeueOvercommit /\ headIndex < tailIndex
      BY <1>1, <2>2, <2>3 DEF CountersOK, ExcusesOK
    <2>5. Counting = {}
      <3>1. Counting \subseteq Asking
        BY DEF Counting, Asking
      <3> QED BY <3>1, <2>3, <1>1 DEF Counting
    <2>6. dequeueOptimisticCount = headIndex + dequeueOvercommit
      BY <2>5, FS_EmptySet, CountsAre DEF CountersOK, Tally
    <2>7. myCount'[c] - overcommit[c] = headIndex
      BY <2>4, <2>6, <1>3, CountsAre
    <2> QED BY <2>3, <2>4, <2>7, <1>3
  <1> QED BY <1>2, <1>5, <1>7, <1>8, <1>9 DEF CountersOK

(* GiveUp: the count is returned, and the others may have what it stood
   for. *)
LEMMA GiveUpCounts ==
  ASSUME CountTypeOK, CountersOK, NEW c \in Consumers, GiveUp(c)
  PROVE  CountTypeOK' /\ CountersOK'
  <1>0. pc' = [pc EXCEPT ![c] = "idle"]
    BY DEF GiveUp, Goto, Set
  <1>1. /\ pc[c] = "give up" /\ dequeueOvercommit' = dequeueOvercommit + 1
        /\ UNCHANGED <<tailIndex, headIndex, dequeueOptimisticCount, tail, overcommit, myCount, excused>>
    BY DEF GiveUp, counting
  <1>2. pc' \in [Consumers -> Points]
    BY <1>0 DEF CountTypeOK, Points
  <1>3. \A d \in Consumers : pc'[d] = IF d = c THEN "idle" ELSE pc[d]
    BY <1>0 DEF CountTypeOK
  <1>4. /\ c \in Counting /\ Counting' = Counting \ {c} /\ Rechecking' = Rechecking
        /\ \A m : Sharers(m)' = Sharers(m)
    BY <1>1, <1>3 DEF Counting, Rechecking, Sharers
  <1>5. Tally'
    <2>1. Cardinality(Counting') = Cardinality(Counting) - 1
      BY <1>4, CountedIs, FS_RemoveElement
    <2>2. dequeueOptimisticCount = headIndex + (dequeueOvercommit + 1) + (Cardinality(Counting) - 1)
      BY CountsAre, CountedIs DEF CountersOK, Tally
    <2>3. /\ dequeueOptimisticCount' = dequeueOptimisticCount /\ headIndex' = headIndex
          /\ dequeueOvercommit' = dequeueOvercommit + 1
      BY <1>1
    <2> QED BY <2>1, <2>2, <2>3 DEF Tally
  <1>6. CountTypeOK'
    <2>1. Cardinality(Counting') \in Nat
      BY <1>4, CountedIs, FS_RemoveElement, FS_CardinalityType
    <2>2. /\ dequeueOptimisticCount' \in Nat /\ headIndex' \in Nat /\ dequeueOvercommit' \in Nat
      <3>1. /\ dequeueOptimisticCount' = dequeueOptimisticCount /\ headIndex' = headIndex
            /\ dequeueOvercommit' = dequeueOvercommit + 1
        BY <1>1
      <3> QED BY <3>1, CountsAre
    <2>3. dequeueOvercommit' \in 0 .. dequeueOptimisticCount'
      BY <1>5, <2>1, <2>2 DEF Tally
    <2> QED BY <1>1, <1>2, <2>3 DEF CountTypeOK
  <1>7. CountsOK'
    <2>1. \A d \in Consumers : pc'[d] \in {"compare", "count", "recheck"} => overcommit'[d] <= dequeueOvercommit'
      <3> SUFFICES ASSUME NEW d \in Consumers, pc'[d] \in {"compare", "count", "recheck"}
                   PROVE  overcommit'[d] <= dequeueOvercommit'
        OBVIOUS
      <3>1. overcommit[d] <= dequeueOvercommit /\ overcommit'[d] = overcommit[d]
        BY <1>1, <1>3 DEF CountersOK, CountsOK
      <3>2. dequeueOvercommit \in Nat /\ overcommit[d] \in Nat
        BY CountsAre
      <3>3. dequeueOvercommit' = dequeueOvercommit + 1
        BY <1>1
      <3>4. overcommit[d] <= dequeueOvercommit + 1
        BY <3>1, <3>2
      <3> QED BY <3>1, <3>3, <3>4
    <2> QED BY <1>1, <1>4, <2>1 DEF CountersOK, CountsOK
  <1>8. ClaimsOK'
    <2>1. \A m : Taken(m)' = Taken(m)
      BY <1>1, <1>4 DEF Taken
    <2> QED BY <1>1, <1>4, <2>1 DEF CountersOK, ClaimsOK
  <1>9. ExcusesOK'
    <2>1. Asking' = Asking \ {c} /\ c \in Asking
      BY <1>1, <1>3 DEF Asking
    <2>3. \A d \in Asking \ excused : Asking = {d}
      BY DEF CountersOK, ExcusesOK
    <2>2. \A d \in Asking' : d \in excused
      BY <2>1, <2>3
    <2> QED BY <1>1, <2>2 DEF ExcusesOK
  <1> QED BY <1>5, <1>6, <1>7, <1>8, <1>9 DEF CountersOK

(* Recheck: whoever claims finds an element, however old what it compares. *)
LEMMA RecheckCounts ==
  ASSUME CountTypeOK, CountersOK, NEW c \in Consumers, Recheck(c)
  PROVE  CountTypeOK' /\ CountersOK'
  <1>0. /\ pc' = [pc EXCEPT ![c] = IF MayClaim(c) THEN "claim" ELSE "give up"]
        /\ myCount' = [myCount EXCEPT ![c] = 0]
        /\ overcommit' = [overcommit EXCEPT ![c] = 0]
    BY DEF Recheck, Goto, Set
  <1>1. pc[c] = "recheck" /\ UNCHANGED <<counters, tail, excused>>
    BY DEF Recheck
  <1>2. CountTypeOK'
    <2>1. /\ pc' \in [Consumers -> Points] /\ myCount' \in [Consumers -> Nat]
          /\ overcommit' \in [Consumers -> Nat]
      BY <1>0, CountsAre DEF CountTypeOK, Points
    <2> QED BY <1>1, <2>1 DEF CountTypeOK, counters
  <1>3. /\ \A d \in Consumers : d # c => /\ pc'[d] = pc[d] /\ myCount'[d] = myCount[d]
                                         /\ overcommit'[d] = overcommit[d]
        /\ pc'[c] = IF MayClaim(c) THEN "claim" ELSE "give up"
    BY <1>0 DEF CountTypeOK
  <1>4. c \in Rechecking /\ Counting' = Counting /\ Rechecking' = Rechecking \ {c}
    BY <1>1, <1>3 DEF Counting, Rechecking
  <1>5. Tally'
    BY <1>1, <1>4 DEF CountersOK, Tally, counters
  <1>6. CountsOK'
    BY <1>1, <1>3, <1>4 DEF CountersOK, CountsOK, counters, Rechecking
  <1>7. PICK m \in 0 .. dequeueOptimisticCount :
           /\ Taken(m) <= tailIndex
           /\ \A d \in Rechecking, k \in m .. dequeueOptimisticCount :
                myCount[d] = k => Taken(k) <= k - overcommit[d]
    BY DEF CountersOK, ClaimsOK
  <1>8. \A d \in Rechecking' :
          /\ d \in Rechecking /\ d # c /\ d \in Consumers
          /\ myCount'[d] = myCount[d] /\ overcommit'[d] = overcommit[d]
    BY <1>3, <1>4 DEF Rechecking
  <1>9. ASSUME NEW j \in m .. dequeueOptimisticCount, Taken(j)' <= tailIndex,
               \A k \in j .. dequeueOptimisticCount :
                 Taken(k)' <= Taken(k) \/ \A d \in Rechecking' : myCount'[d] # k
        PROVE  ClaimsOK'
    <2>1. \A d \in Rechecking', k \in j .. dequeueOptimisticCount :
            myCount'[d] = k => Taken(k)' <= k - overcommit'[d]
      <3> SUFFICES ASSUME NEW d \in Rechecking', NEW k \in j .. dequeueOptimisticCount, myCount'[d] = k
                   PROVE  Taken(k)' <= k - overcommit'[d]
        OBVIOUS
      <3>1. k \in m .. dequeueOptimisticCount /\ k \in Int
        BY CountsAre
      <3>2. Taken(k) <= k - overcommit[d] /\ overcommit'[d] = overcommit[d] /\ overcommit[d] \in Int
        BY <3>1, <1>7, <1>8, CountsAre
      <3>3. Taken(k)' <= Taken(k)
        BY <1>9
      <3>4. Taken(k) \in Int
        BY <3>1, CountedIs, CountsAre DEF Taken
      <3>5. Taken(k)' \in Int
        <4>1. Sharers(k)' \subseteq Consumers
          BY DEF Sharers
        <4>2. Cardinality(Sharers(k)') \in Nat
          BY <4>1, FS_Subset, FS_CardinalityType, ImplicitProducerAssumption
        <4> QED BY <4>2, <1>1, CountsAre DEF Taken, counters
      <3> QED BY <3>1, <3>2, <3>3, <3>4, <3>5
    <2>2. j \in 0 .. dequeueOptimisticCount
      BY CountsAre
    <2> QED BY <1>1, <1>9, <2>1, <2>2 DEF ClaimsOK, counters
  <1>10. ClaimsOK'
    <2>1. myCount[c] \in Nat /\ overcommit[c] \in Nat /\ myCount[c] < dequeueOptimisticCount
      BY <1>4, CountsAre DEF CountersOK, CountsOK
    <2>2. CASE ~MayClaim(c)
      <3>1. \A k \in Int : Sharers(k)' \subseteq Sharers(k)
        BY <1>3, <2>2 DEF Sharers
      <3>2. \A k \in Int : Taken(k)' <= Taken(k) /\ Taken(k) \in Int /\ Taken(k)' \in Int
        <4>1. \A k \in Int : IsFiniteSet(Sharers(k)) /\ Cardinality(Sharers(k)) \in Nat
          BY CountedIs
        <4>2. \A k \in Int : /\ Cardinality(Sharers(k)') <= Cardinality(Sharers(k))
                             /\ Cardinality(Sharers(k)') \in Nat
          BY <3>1, <4>1, FS_Subset, FS_CardinalityType
        <4> QED BY <1>1, <4>1, <4>2, CountsAre DEF Taken, counters
      <3>3. Taken(m)' <= tailIndex
        BY <3>2, <1>7, CountsAre
      <3>4. m \in m .. dequeueOptimisticCount /\ \A k \in m .. dequeueOptimisticCount : k \in Int
        BY CountsAre
      <3> QED BY <1>9, <3>2, <3>3, <3>4
    <2>3. CASE MayClaim(c) /\ myCount[c] < m
      <3>1. \A k \in Int : myCount[c] < k => Sharers(k)' = Sharers(k)
        BY <1>1, <1>3, <2>3 DEF Sharers
      <3>2. \A k \in Int : myCount[c] < k => Taken(k)' = Taken(k) /\ Taken(k) \in Int
        BY <1>1, <3>1, CountsAre, CountedIs DEF Taken, counters
      <3>3. /\ m \in m .. dequeueOptimisticCount
            /\ \A k \in m .. dequeueOptimisticCount : k \in Int /\ myCount[c] < k
        BY <2>1, <2>3, CountsAre
      <3>4. Taken(m)' <= tailIndex
        BY <3>2, <1>7, <2>3
      <3>5. \A k \in m .. dequeueOptimisticCount : Taken(k)' <= Taken(k)
        BY <3>2, <3>3
      <3> QED BY <1>9, <3>3, <3>4, <3>5
    <2>4. CASE MayClaim(c) /\ myCount[c] >= m
      <3>1. PICK i \in Nat : i = myCount[c]
        BY <2>1
      <3>2. i + 1 \in m .. dequeueOptimisticCount /\ i \in m .. dequeueOptimisticCount
        BY <2>1, <2>4, <3>1, CountsAre
      <3>3. \A d \in Rechecking : d # c => myCount[d] # i /\ myCount[d] \in Nat
        BY <1>4, <3>1, CountsAre DEF CountersOK, CountsOK, Rechecking
      <3>4. Sharers(i + 1)' = Sharers(i) \cup {c} /\ c \notin Sharers(i)
        <4>1. \A d \in Consumers : d # c /\ pc[d] = "recheck" => (myCount'[d] < i + 1 <=> myCount[d] < i)
          <5> SUFFICES ASSUME NEW d \in Consumers, d # c, pc[d] = "recheck"
                       PROVE  myCount'[d] < i + 1 <=> myCount[d] < i
            OBVIOUS
          <5>1. myCount[d] \in Nat /\ myCount[d] # i /\ myCount'[d] = myCount[d]
            BY <1>3, <3>3 DEF Rechecking
          <5>2. myCount[d] < i + 1 <=> myCount[d] < i
            BY <5>1
          <5> QED BY <5>1, <5>2
        <4>2. \A d \in Consumers : d # c => (d \in Sharers(i + 1)' <=> d \in Sharers(i))
          BY <1>3, <4>1 DEF Sharers
        <4>3. c \in Sharers(i + 1)' /\ c \notin Sharers(i)
          BY <1>1, <1>3, <2>4, <3>1 DEF Sharers
        <4>4. Sharers(i + 1)' \subseteq Consumers /\ Sharers(i) \subseteq Consumers
          BY DEF Sharers
        <4> QED BY <4>2, <4>3, <4>4
      <3>5. Taken(i + 1)' = Taken(i) + 1
        <4>1. IsFiniteSet(Sharers(i)) /\ Cardinality(Sharers(i)) \in Nat
          BY CountedIs
        <4>2. Cardinality(Sharers(i + 1)') = Cardinality(Sharers(i)) + 1
          BY <3>4, <4>1, FS_AddElement
        <4> QED BY <1>1, <4>1, <4>2, CountsAre DEF Taken, counters
      <3>6. Taken(i + 1)' <= tailIndex
        <4>1. Taken(i) <= i - overcommit[c]
          BY <1>4, <1>7, <3>1, <3>2
        <4>2. i - overcommit[c] < tailIndex
          BY <2>4, <3>1 DEF MayClaim
        <4>3. Taken(i) \in Int
          BY CountedIs, CountsAre DEF Taken
        <4> QED BY <4>1, <4>2, <4>3, <3>5, <2>1, CountsAre
      <3>7. \A j \in Int : i < j => Sharers(j)' = Sharers(j)
        BY <1>1, <1>3, <2>4, <3>1 DEF Sharers
      <3>8. \A j \in Int : i < j => Taken(j)' = Taken(j) /\ Taken(j) \in Int
        BY <1>1, <3>7, CountsAre, CountedIs DEF Taken, counters
      <3>9. \A k \in i + 1 .. dequeueOptimisticCount : k \in Int /\ i < k
        BY CountsAre
      <3>10. \A k \in i + 1 .. dequeueOptimisticCount : Taken(k)' <= Taken(k)
        BY <3>8, <3>9
      <3> QED BY <1>9, <3>2, <3>6, <3>10
    <2> QED BY <2>1, <2>2, <2>3, <2>4
  <1>11. ExcusesOK'
    <2>1. Asking' = Asking /\ c \in Asking
      BY <1>1, <1>3 DEF Asking
    <2> SUFFICES ASSUME NEW d \in Asking, d \notin excused
                 PROVE  Asking = {d} /\ pc'[d] = "claim"
      BY <1>1, <2>1 DEF ExcusesOK
    <2>2. d \in Asking \ excused
      OBVIOUS
    <2>3. Asking = {d} /\ d = c
      BY <2>1, <2>2 DEF CountersOK, ExcusesOK
    <2>4. myCount[c] - overcommit[c] < tailIndex
      BY <1>1, <2>2, <2>3 DEF CountersOK, ExcusesOK
    <2> QED BY <2>3, <2>4, <1>3 DEF MayClaim
  <1> QED BY <1>2, <1>5, <1>6, <1>10, <1>11 DEF CountersOK

(* A consumer that was told to claim finds an element. *)
LEMMA ClaimFinds ==
  ASSUME CountTypeOK, CountersOK, NEW c \in Consumers, pc[c] = "claim"
  PROVE  headIndex < tailIndex
  <1>1. PICK m \in 0 .. dequeueOptimisticCount : Taken(m) <= tailIndex
    BY DEF CountersOK, ClaimsOK
  <1>2. m \in Int
    BY CountsAre
  <1>3. IsFiniteSet(Sharers(m)) /\ Cardinality(Sharers(m)) \in Nat
    BY <1>2, CountedIs
  <1>4. c \in Sharers(m)
    BY DEF Sharers
  <1>5. Cardinality(Sharers(m)) # 0
    BY <1>3, <1>4, FS_EmptySet
  <1> QED BY <1>1, <1>3, <1>5, CountsAre DEF Taken

(* Claim: an element was there for it, and is no one else's. *)
LEMMA ClaimCounts ==
  ASSUME CountTypeOK, CountersOK, NEW c \in Consumers, Claim(c)
  PROVE  CountTypeOK' /\ CountersOK'
  <1>0. pc' = [pc EXCEPT ![c] = "load header"]
    BY DEF Claim, Goto, Set
  <1>1. /\ pc[c] = "claim" /\ headIndex' = headIndex + 1
        /\ excused' = IF headIndex' = tailIndex THEN excused \cup Asking ELSE excused
        /\ UNCHANGED <<tailIndex, dequeueOptimisticCount, dequeueOvercommit, tail, overcommit, myCount>>
    BY DEF Claim, counting
  <1>2. pc' \in [Consumers -> Points]
    BY <1>0 DEF CountTypeOK, Points
  <1>3. \A d \in Consumers : pc'[d] = IF d = c THEN "load header" ELSE pc[d]
    BY <1>0 DEF CountTypeOK
  <1>4. /\ c \in Counting /\ Counting' = Counting \ {c} /\ Rechecking' = Rechecking
        /\ \A m : Sharers(m)' = Sharers(m) \ {c} /\ c \in Sharers(m)
    BY <1>1, <1>3 DEF Counting, Rechecking, Sharers
  <1>5. headIndex' = headIndex + 1 /\ headIndex + 1 <= tailIndex /\ headIndex + 1 \in Nat
    BY <1>1, ClaimFinds, CountsAre
  <1>6. CountTypeOK'
    <2>1. excused' \subseteq Consumers
      BY <1>1 DEF CountTypeOK, Asking
    <2>2. headIndex' \in 0 .. tailIndex' /\ tailIndex' = tailIndex
      BY <1>1, <1>5, CountsAre
    <2> QED BY <1>1, <1>2, <2>1, <2>2 DEF CountTypeOK
  <1>7. Tally'
    <2>1. Cardinality(Counting') = Cardinality(Counting) - 1
      BY <1>4, CountedIs, FS_RemoveElement
    <2>2. dequeueOptimisticCount = (headIndex + 1) + dequeueOvercommit + (Cardinality(Counting) - 1)
      BY CountsAre, CountedIs DEF CountersOK, Tally
    <2>3. UNCHANGED <<dequeueOptimisticCount, dequeueOvercommit>>
      BY <1>1
    <2> QED BY <2>1, <2>2, <2>3, <1>5 DEF Tally
  <1>8. CountsOK'
    <2>1. \A d \in Consumers : pc'[d] \in {"compare", "count", "recheck"} => overcommit'[d] <= dequeueOvercommit'
      BY <1>1, <1>3 DEF CountersOK, CountsOK
    <2> QED BY <1>1, <1>4, <2>1 DEF CountersOK, CountsOK
  <1>9. ClaimsOK'
    <2>1. \A m \in Int : Taken(m)' = Taken(m)
      <3> SUFFICES ASSUME NEW m \in Int PROVE Taken(m)' = Taken(m)
        OBVIOUS
      <3>1. IsFiniteSet(Sharers(m)) /\ Cardinality(Sharers(m)) \in Nat
        BY CountedIs
      <3>2. Cardinality(Sharers(m)') = Cardinality(Sharers(m)) - 1
        BY <1>4, <3>1, FS_RemoveElement
      <3>3. (headIndex + 1) + (Cardinality(Sharers(m)) - 1) = headIndex + Cardinality(Sharers(m))
        BY <3>1, CountsAre
      <3> QED BY <3>2, <3>3, <1>5 DEF Taken
    <2>2. PICK m \in 0 .. dequeueOptimisticCount :
             /\ Taken(m) <= tailIndex
             /\ \A d \in Rechecking, k \in m .. dequeueOptimisticCount :
                  myCount[d] = k => Taken(k) <= k - overcommit[d]
      BY DEF CountersOK, ClaimsOK
    <2>3. m \in Int /\ \A k \in m .. dequeueOptimisticCount : k \in Int
      BY CountsAre
    <2>4. /\ Taken(m)' <= tailIndex
          /\ \A d \in Rechecking, k \in m .. dequeueOptimisticCount :
               myCount[d] = k => Taken(k)' <= k - overcommit[d]
      BY <2>1, <2>2, <2>3
    <2> QED BY <1>1, <1>4, <2>4 DEF ClaimsOK
  <1>10. ExcusesOK'
    <2>1. Asking' = Asking /\ c \in Asking
      BY <1>1, <1>3 DEF Asking
    <2> SUFFICES ASSUME NEW d \in Asking, d \notin excused'
                 PROVE  Asking = {d} /\ pc'[d] = "load header"
      BY <1>1, <2>1 DEF ExcusesOK
    <2>2. d \in Asking \ excused
      BY <1>1
    <2>3. Asking = {d}
      BY <2>2 DEF CountersOK, ExcusesOK
    <2> QED BY <2>1, <2>3, <1>3, <1>1
  <1> QED BY <1>6, <1>7, <1>8, <1>9, <1>10 DEF CountersOK

-----------------------------------------------------------------------------
(* What a step leaves alone *)

StoreOK == IndexesOK /\ RingOK /\ TailsOK /\ StepOK
HeldOK  == FindersOK /\ ElementsOK /\ LinkedOK /\ PlacesOK
PoolTypeOK == LookupTypeOK /\ MemoryTypeOK /\ StepTypeOK

(* The invariant in the parts that steps disturb. *)
LEMMA InvariantParts ==
  IInv <=> CountTypeOK /\ PoolTypeOK /\ FindTypeOK /\ CountersOK /\ StoreOK /\ HeldOK
  BY TypeParts DEF IInv, PoolTypeOK, CountersOK, StoreOK, HeldOK

(* A header is what it was when none is written. *)
LEMMA HeadersKept ==
  ASSUME UNCHANGED headers
  PROVE  \A n : HeaderOK(n)' <=> HeaderOK(n)
  <1>1. Size' = Size /\ (\A n : Cap(n)' = Cap(n)) /\ (\A p : Place(p)' = Place(p))
    BY DEF blockIndex, Current, Size, Cap, Capacity, Place
  <1>2. ASSUME NEW n PROVE Coherent(n)' <=> Coherent(n)
    BY <1>1 DEF Coherent
  <1> QED BY <1>1, <1>2 DEF HeaderOK

(* The index is kept by what writes neither it nor a key nor the tail. *)
LEMMA IndexStays ==
  ASSUME IndexesOK, RingOK, TailsOK,
         UNCHANGED <<headers, keys, tailIndex>>, DOMAIN values' = DOMAIN values, Top' = Top,
         step' \in {"find block", "rewind"} => step \in {"find block", "rewind"}
  PROVE  IndexesOK' /\ RingOK' /\ TailsOK'
  <1>1. /\ blockIndex' = blockIndex /\ Current' = Current /\ Size' = Size
        /\ TailPlace' = TailPlace /\ NextPlace' = NextPlace /\ Entries' = Entries
        /\ (\A n : Cap(n)' = Cap(n)) /\ (\A p : Place(p)' = Place(p) /\ Age(p)' = Age(p))
        /\ (\A e : Valid(e)' <=> Valid(e))
    BY DEF blockIndex, Current, Size, Cap, TailPlace, NextPlace, NextSlot, Top, Entries, Place, Age,
           Capacity, Valid
  <1>2. \A n : HeaderOK(n)' <=> HeaderOK(n)
    BY HeadersKept
  <1>3. IndexesOK'
    <2>1. headers' \in Seq({headers'[n] : n \in DOMAIN headers'}) /\ headers' # <<>>
      <3>1. headers \in Seq({headers[n] : n \in DOMAIN headers}) /\ headers # <<>>
        BY DEF IndexesOK
      <3>2. headers' = headers
        OBVIOUS
      <3> QED BY ONLY <3>1, <3>2
    <2>4. \A n \in DOMAIN headers' : HeaderOK(n)'
      BY <1>2 DEF IndexesOK
    <2>2. Entries' = 1 .. Size' /\ DOMAIN values' = 1 .. Size'
      BY <1>1 DEF IndexesOK
    <2>3. /\ \A p, q \in 0 .. Size' - 1 : Place(p)' = Place(q)' => p = q
          /\ \A e \in 1 .. Size' : \E p \in 0 .. Size' - 1 : Place(p)' = e
      BY <1>1 DEF IndexesOK
    <2> QED BY <2>1, <2>2, <2>3, <2>4 DEF IndexesOK
  <1>4. RingOK'
    BY <1>1 DEF RingOK
  <1>5. TailsOK'
    BY <1>1 DEF TailsOK
  <1> QED BY <1>1, <1>3, <1>4, <1>5

(* The same for a step that leaves the producer where it is. *)
LEMMA IndexKept ==
  ASSUME IndexesOK, RingOK, TailsOK,
         UNCHANGED <<headers, keys, tailIndex, step>>, DOMAIN values' = DOMAIN values
  PROVE  IndexesOK' /\ RingOK' /\ TailsOK' /\ Top' = Top
  <1>1. Top' = Top
    BY DEF Top
  <1> QED BY <1>1, IndexStays

(* A step of a consumer that writes nothing the producer reads. *)
LEMMA StoreKept ==
  ASSUME StoreOK, UNCHANGED <<tailIndex, lookup, cells, completed, producer>>
  PROVE  StoreOK' /\ Top' = Top
  <1>1. UNCHANGED <<headers, keys, values, cells, completed, tailIndex, step, idxEntry, tailBlock>>
    BY DEF lookup, producer
  <1>2. IndexesOK' /\ RingOK' /\ TailsOK' /\ Top' = Top
    BY <1>1, IndexKept DEF StoreOK
  <1>3. /\ Current' = Current /\ Entries' = Entries /\ InBlock' = InBlock
        /\ TailPlace' = TailPlace /\ NextPlace' = NextPlace
        /\ (\A p : Place(p)' = Place(p)) /\ (\A e : Valid(e)' <=> Valid(e))
        /\ Base(tailIndex)' = Base(tailIndex)
    BY <1>1 DEF blockIndex, Current, TailPlace, NextPlace, NextSlot, Entries, Place, Capacity, Valid, InBlock,
                Base
  <1>4. StepOK'
    BY <1>1, <1>2, <1>3 DEF StepOK, StoreOK
  <1> QED BY <1>2, <1>4 DEF StoreOK

(* Where a consumer holds an index, an entry or a block. *)
FindingPoints ==
  {"load header", "load slot", "find entry", "load value", "move", "set empty", "unlink", "release"}

(* A consumer still finds its element when its entry keeps its key. *)
LEMMA FinderKept ==
  ASSUME NEW c \in Consumers, FinderOK(c), LookupTypeOK,
         \/ pc'[c] = pc[c]
         \/ pc[c] \notin FindingPoints /\ pc'[c] \notin FindingPoints,
         index'[c] = index[c], header'[c] = header[c], slot'[c] = slot[c],
         entry'[c] = entry[c], block'[c] = block[c],
         HasClaim(c) => index[c] < headIndex',
         pc[c] \in {"load slot", "find entry"} =>
           header[c] \in DOMAIN headers' /\ headers'[header[c]].index = headers[header[c]].index,
         \A e \in Entries : /\ e \in Entries'
                            /\ Valid(e) => Valid(e)'
                            /\ HasClaim(c) /\ keys[e] = Base(index[c]) => keys'[e] = keys[e],
         pc[c] \in {"move", "set empty", "unlink"} => values'[entry[c]] = values[entry[c]],
         pc[c] = "unlink" => completed'[block[c]] = completed[block[c]]
  PROVE  FinderOK(c)'
  <1>1. HasClaim(c)' <=> HasClaim(c)
    BY DEF HasClaim, FindingPoints
  <1>2. (index[c] # None <=> HasClaim(c))' /\ (HasClaim(c) => index[c] < headIndex)'
    BY <1>1 DEF FinderOK
  <1>3. ASSUME pc'[c] \in {"load slot", "find entry"}
        PROVE  /\ header'[c] \in DOMAIN headers'
               /\ \E p \in 0 .. Cap(header[c])' - 1 : keys'[headers'[header'[c]].index[p]] = Base(index'[c])
    <2>1. pc[c] \in {"load slot", "find entry"} /\ HasClaim(c)
      BY <1>3 DEF FindingPoints, HasClaim
    <2>2. /\ header[c] \in DOMAIN headers
          /\ \E p \in 0 .. Cap(header[c]) - 1 : keys[headers[header[c]].index[p]] = Base(index[c])
      BY <2>1 DEF FinderOK
    <2>3. PICK p \in 0 .. Cap(header[c]) - 1 : keys[headers[header[c]].index[p]] = Base(index[c])
      BY <2>2
    <2>4. headers[header[c]].index[p] \in Entries
      BY <2>2 DEF LookupTypeOK, Cap
    <2>5. headers'[header[c]].index = headers[header[c]].index /\ header[c] \in DOMAIN headers'
      BY <2>1
    <2>6. Cap(header[c])' = Cap(header[c])
      BY <2>5 DEF Cap, Capacity
    <2>7. keys'[headers'[header[c]].index[p]] = Base(index[c])
      BY <2>1, <2>3, <2>4, <2>5
    <2> QED BY <2>5, <2>6, <2>7
  <1>4. ASSUME pc'[c] = "find entry"
        PROVE  slot'[c] \in 0 .. Cap(header[c])' - 1 /\ Valid(headers[header[c]].index[slot[c]])'
    <2>1. pc[c] = "find entry"
      BY <1>4 DEF FindingPoints
    <2>2. /\ header[c] \in DOMAIN headers /\ slot[c] \in 0 .. Cap(header[c]) - 1
          /\ Valid(headers[header[c]].index[slot[c]])
      BY <2>1 DEF FinderOK
    <2>3. headers[header[c]].index[slot[c]] \in Entries
      BY <2>2 DEF LookupTypeOK, Cap
    <2>4. headers'[header[c]].index = headers[header[c]].index
      BY <2>1
    <2>5. Cap(header[c])' = Cap(header[c])
      BY <2>4 DEF Cap, Capacity
    <2>6. keys'[headers[header[c]].index[slot[c]]] # INVALID_BLOCK_BASE
      BY <2>2, <2>3 DEF Valid
    <2> QED BY <2>2, <2>4, <2>5, <2>6 DEF Valid
  <1>5. ASSUME pc'[c] \in {"load value", "move"}
        PROVE  entry'[c] \in Entries' /\ keys'[entry'[c]] = Base(index'[c])
    <2>1. pc[c] \in {"load value", "move"} /\ HasClaim(c)
      BY <1>5 DEF FindingPoints, HasClaim
    <2> QED BY <2>1 DEF FinderOK
  <1>6. ASSUME pc'[c] \in {"move", "set empty", "unlink"}
        PROVE  block'[c] \in Blocks /\ entry'[c] \in Entries' /\ values'[entry'[c]] = block'[c]
    <2>1. pc[c] \in {"move", "set empty", "unlink"}
      BY <1>6 DEF FindingPoints
    <2> QED BY <2>1 DEF FinderOK
  <1>7. pc'[c] = "unlink" => completed'[block'[c]] = BLOCK_SIZE
    BY DEF FinderOK, FindingPoints
  <1>8. pc'[c] = "release" => block'[c] \in Blocks
    BY DEF FinderOK, FindingPoints
  <1>9. Base(index[c])' = Base(index'[c])
    BY DEF Base
  <1> QED BY <1>2, <1>3, <1>4, <1>5, <1>6, <1>7, <1>8, <1>9 DEF FinderOK

(* The elements are kept by what writes no cell, no entry and no claim. *)
LEMMA ElementsKept ==
  ASSUME ElementsOK, UNCHANGED <<tailIndex, headIndex, index, keys, values, cells>>
  PROVE  ElementsOK'
  <1>1. \A x : (Owed(x)' <=> Owed(x)) /\ (Kept(x)' <=> Kept(x))
    BY DEF Owed, Kept, Entries
  <1> QED BY <1>1 DEF ElementsOK

(* The counts of the linked blocks are kept by what moves no element. *)
LEMMA LinkedKept ==
  ASSUME LinkedOK, UNCHANGED <<keys, values, completed, headIndex, index>>, Top' = Top,
         \A c \in Consumers : pc'[c] = "set empty" <=> pc[c] = "set empty",
         \A c \in Consumers : pc[c] = "set empty" => entry'[c] = entry[c]
  PROVE  LinkedOK'
  <1>1. Entries' = Entries /\ (\A e : Busy(e)' = Busy(e)) /\ (\A k : Unclaimed(k)' = Unclaimed(k))
    BY DEF Entries, Busy, Unclaimed
  <1> QED BY <1>1 DEF LinkedOK, Valid

(* The places of the blocks are kept by what hands none over. *)
LEMMA PlacesKept ==
  ASSUME PlacesOK, UNCHANGED <<keys, values, unused, free>>,
         \A b \in Blocks : InHand(b)' <=> InHand(b),
         \A c \in Consumers : pc'[c] = "release" <=> pc[c] = "release",
         \A c \in Consumers : pc[c] = "release" => block'[c] = block[c]
  PROVE  PlacesOK'
  <1>1. Entries' = Entries /\ (\A b : Idle(b)' <=> Idle(b)) /\ (\A c \in Consumers, b \in Blocks : Leaves(c, b)' <=> Leaves(c, b))
    BY DEF Entries, Idle, Leaves
  <1> QED BY <1>1 DEF PlacesOK, PlaceOK

(* The kinds are kept by what writes none of them. *)
LEMMA PoolTypeKept ==
  ASSUME PoolTypeOK, UNCHANGED <<lookup, memory, producer>>
  PROVE  PoolTypeOK'
  BY DEF PoolTypeOK, LookupTypeOK, MemoryTypeOK, StepTypeOK, lookup, memory, producer, Entries, Capacity

-----------------------------------------------------------------------------
(* The steps that count *)

(* The element a consumer has claimed has an index below headIndex. *)
LEMMA ClaimedIs ==
  ASSUME CountTypeOK, FindTypeOK, FindersOK, NEW c \in Consumers
  PROVE  /\ index[c] # None <=> HasClaim(c)
         /\ HasClaim(c) => index[c] \in Nat /\ index[c] < headIndex /\ index[c] < tailIndex
  <1>1. (index[c] # None <=> HasClaim(c)) /\ (HasClaim(c) => index[c] < headIndex)
    BY DEF FindersOK, FinderOK
  <1>2. HasClaim(c) => index[c] \in Nat
    BY <1>1 DEF FindTypeOK
  <1> QED BY <1>1, <1>2, CountsAre

(* Nothing but the counters changes. *)
LEMMA QuietStep ==
  ASSUME PoolTypeOK, HeldOK, UNCHANGED <<tailIndex, headIndex, lookup, memory, producer, index, finding>>,
         Top' = Top,
         \A c \in Consumers : \/ pc'[c] = pc[c]
                              \/ pc[c] \notin FindingPoints /\ pc'[c] \notin FindingPoints
  PROVE  HeldOK'
  <1>1. UNCHANGED <<tailIndex, headIndex, headers, keys, values, cells, completed, unused, free,
                    step, idxEntry, tailBlock, index, header, slot, entry, block>>
    BY DEF lookup, memory, producer, finding
  <1>2. FindersOK'
    <2>1. ASSUME NEW c \in Consumers PROVE FinderOK(c)'
      <3>1. FinderOK(c) /\ (HasClaim(c) => index[c] < headIndex) /\ LookupTypeOK
        BY DEF HeldOK, FindersOK, FinderOK, PoolTypeOK
      <3>2. pc[c] \in {"load slot", "find entry"} => header[c] \in DOMAIN headers
        BY DEF HeldOK, FindersOK, FinderOK
      <3>3. Entries' = Entries /\ \A e : Valid(e)' <=> Valid(e)
        BY <1>1 DEF Entries, Valid
      <3> QED BY <1>1, <3>1, <3>2, <3>3, FinderKept
    <2>2. \A c \in Consumers : HasClaim(c)' <=> HasClaim(c)
      BY DEF HasClaim, FindingPoints
    <2>3. \A c \in Consumers : pc'[c] = "unlink" <=> pc[c] = "unlink"
      BY DEF FindingPoints
    <2> QED BY <1>1, <2>1, <2>2, <2>3 DEF HeldOK, FindersOK
  <1>3. ElementsOK'
    BY <1>1, ElementsKept DEF HeldOK
  <1>4. LinkedOK'
    BY <1>1, LinkedKept DEF HeldOK, FindingPoints
  <1>5. PlacesOK'
    <2>1. \A b \in Blocks : InHand(b)' <=> InHand(b)
      BY <1>1 DEF InHand
    <2> QED BY <1>1, <2>1, PlacesKept DEF HeldOK, FindingPoints
  <1> QED BY <1>2, <1>3, <1>4, <1>5 DEF HeldOK

(* A consumer that reads, raises or compares counters does nothing else. *)
LEMMA CountingStep ==
  ASSUME IInv, NEW c \in Consumers,
         \/ Dequeue(c) \/ LoadOvercommit(c) \/ Compare(c) \/ Count(c) \/ Recheck(c) \/ GiveUp(c)
  PROVE  IInv'
  <1>1. CountTypeOK /\ PoolTypeOK /\ FindTypeOK /\ CountersOK /\ StoreOK /\ HeldOK
    BY InvariantParts
  <1>2. UNCHANGED <<tailIndex, headIndex, lookup, memory, producer, index, finding>>
    BY DEF Dequeue, LoadOvercommit, Compare, Count, Recheck, GiveUp, counters
  <1>3. CountTypeOK' /\ CountersOK'
    BY <1>1, DequeueCounts, LoadOvercommitCounts, CompareCounts, CountCounts, RecheckCounts, GiveUpCounts
  <1>4. StoreOK' /\ Top' = Top
    BY <1>1, <1>2, StoreKept DEF memory
  <1>5. PoolTypeOK'
    BY <1>1, <1>2, PoolTypeKept
  <1>6. FindTypeOK'
    <2>1. answer' = answer \/ answer' = [answer EXCEPT ![c] = None]
      BY DEF Dequeue, LoadOvercommit, Compare, Count, Recheck, GiveUp, Set
    <2>2. answer' \in [Consumers -> Nat \cup {None}]
      BY <1>1, <2>1 DEF FindTypeOK
    <2> QED BY <1>1, <1>2, <2>2 DEF FindTypeOK, lookup, finding, Entries
  <1>7. /\ pc[c] \notin FindingPoints /\ pc'[c] \notin FindingPoints
        /\ \A d \in Consumers : d # c => pc'[d] = pc[d]
    <2>1. PICK l \in {"idle", "load overcommit", "compare", "count", "recheck", "claim", "give up"} :
             pc' = [pc EXCEPT ![c] = l]
      BY DEF Dequeue, LoadOvercommit, Compare, Count, Recheck, GiveUp, Goto, Set
    <2>2. pc'[c] = l /\ \A d \in Consumers : d # c => pc'[d] = pc[d]
      BY <1>1, <2>1 DEF CountTypeOK
    <2>3. pc[c] \notin FindingPoints
      BY DEF Dequeue, LoadOvercommit, Compare, Count, Recheck, GiveUp, FindingPoints
    <2> QED BY <2>2, <2>3 DEF FindingPoints
  <1>8. HeldOK'
    BY <1>1, <1>2, <1>4, <1>7, QuietStep
  <1> QED BY <1>3, <1>4, <1>5, <1>6, <1>8, InvariantParts, PTL

-----------------------------------------------------------------------------
(* The consumers' steps *)

(* The key of an entry is the base of a block. *)
LEMMA KeyBase ==
  ASSUME IndexesOK, RingOK, tailIndex \in Int, NEW e \in Entries, Valid(e)
  PROVE  \E k \in Int : keys[e] = Nth(k)
  <1>1. PICK p \in 0 .. Size - 1 : Place(p) = e
    BY DEF IndexesOK
  <1> QED BY <1>1, KeyIs

(* An index that is claimed leaves those not claimed of its block, and of no
   other.                                                                  *)
LEMMA UnclaimedIs ==
  ASSUME NEW h \in Nat, NEW k \in Int
  PROVE  LET left(i) == IF i <= Nth(k) THEN BLOCK_SIZE
                        ELSE IF i >= Nth(k) + BLOCK_SIZE THEN 0 ELSE Nth(k) + BLOCK_SIZE - i
         IN  /\ left(h) \in Nat
             /\ Base(h) = Nth(k) => left(h + 1) = left(h) - 1 /\ left(h) > 0
             /\ Base(h) # Nth(k) => left(h + 1) = left(h)
  <1>1. PICK n \in Nat, b \in Int : n = BLOCK_SIZE /\ b = Nth(k) /\ n > 1
    BY BlockSizes, NthIs
  <1>2. PICK j \in Int, a \in Int : j = h \div n /\ a = Nth(j) /\ Base(h) = a /\ a <= h /\ h < a + n
    <2>1. h \in Int
      OBVIOUS
    <2>2. h \div n \in Int /\ Base(h) = Nth(h \div n) /\ h % n \in 0 .. n - 1 /\ h = Base(h) + (h % n)
      BY <1>1, <2>1, BaseIs
    <2>3. Nth(h \div n) \in Int
      BY <2>2, NthIs
    <2> QED BY <2>2, <2>3
  <1>3. a # b => a + n <= b \/ b + n <= a
    <2>1. a # b => j < k \/ k < j
      BY <1>1, <1>2
    <2>2. /\ j < k => Nth(j) + BLOCK_SIZE <= Nth(k)
          /\ k < j => Nth(k) + BLOCK_SIZE <= Nth(j)
      BY NthIs
    <2> QED BY <1>1, <1>2, <2>1, <2>2
  <1> DEFINE left(i) == IF i <= b THEN n ELSE IF i >= b + n THEN 0 ELSE b + n - i
  <1>4. left(h) \in Nat
    BY <1>1
  <1>5. a = b => left(h + 1) = left(h) - 1 /\ left(h) > 0
    BY <1>1, <1>2
  <1>6. a # b => left(h + 1) = left(h)
    BY <1>1, <1>2, <1>3
  <1> QED BY <1>1, <1>2, <1>4, <1>5, <1>6

(* The consumers busy with a block are finitely many. *)
LEMMA BusyIs ==
  \A e : IsFiniteSet(Busy(e)) /\ Cardinality(Busy(e)) \in Nat
  <1>1. \A e : Busy(e) \subseteq Consumers
    BY DEF Busy
  <1> QED BY <1>1, FS_Subset, FS_CardinalityType, ImplicitProducerAssumption

(* Claim: the element's block counts the consumer instead of the index. *)
LEMMA ClaimStep ==
  ASSUME IInv, NEW c \in Consumers, Claim(c)
  PROVE  IInv'
  <1>1. CountTypeOK /\ PoolTypeOK /\ FindTypeOK /\ CountersOK /\ StoreOK /\ HeldOK
    BY InvariantParts
  <1>2. /\ UNCHANGED <<tailIndex, headers, keys, values, cells, completed, unused, free,
                       step, idxEntry, tailBlock, header, slot, entry, block, answer>>
        /\ pc[c] = "claim" /\ headIndex' = headIndex + 1
    BY DEF Claim, lookup, memory, producer, finding
  <1>3. CountTypeOK' /\ CountersOK'
    BY <1>1, ClaimCounts
  <1>4. StoreOK' /\ Top' = Top
    BY <1>1, <1>2, StoreKept DEF lookup, producer
  <1>5. PoolTypeOK'
    BY <1>1, <1>2, PoolTypeKept DEF lookup, memory, producer
  <1>6. index' = [index EXCEPT ![c] = headIndex] /\ pc' = [pc EXCEPT ![c] = "load header"]
    BY DEF Claim, Goto, Set
  <1>7. headIndex \in Nat /\ tailIndex \in Nat /\ headIndex < tailIndex
    BY <1>1, <1>2, CountsAre, ClaimFinds
  <1>8. FindTypeOK'
    <2>1. index' \in [Consumers -> Nat \cup {None}]
      BY <1>1, <1>6, <1>7 DEF FindTypeOK
    <2> QED BY <1>1, <1>2, <2>1 DEF FindTypeOK, Entries
  <1>9. /\ \A d \in Consumers : d # c => pc'[d] = pc[d] /\ index'[d] = index[d]
        /\ pc'[c] = "load header" /\ index'[c] = headIndex
    BY <1>1, <1>6 DEF CountTypeOK, FindTypeOK
  <1>10. index[c] = None
    BY <1>1, <1>2 DEF HeldOK, FindersOK, FinderOK, HasClaim
  <1>11. \A d \in Consumers : HasClaim(d) => index[d] \in Nat /\ index[d] < headIndex
    BY <1>1, ClaimedIs DEF HeldOK
  <1>12. FindersOK'
    <2>1. ASSUME NEW d \in Consumers, d # c PROVE FinderOK(d)'
      <3>1. FinderOK(d) /\ LookupTypeOK
        BY <1>1 DEF HeldOK, FindersOK, PoolTypeOK
      <3>2. pc[d] \in {"load slot", "find entry"} => header[d] \in DOMAIN headers
        BY <3>1 DEF FinderOK
      <3>3. Entries' = Entries /\ \A e : Valid(e)' <=> Valid(e)
        BY <1>2 DEF Entries, Valid
      <3>4. HasClaim(d) => index[d] < headIndex'
        <4>1. ASSUME HasClaim(d) PROVE index[d] < headIndex + 1
          BY <4>1, <1>7, <1>11
        <4> QED BY <4>1, <1>2
      <3> QED BY <1>2, <1>9, <2>1, <3>1, <3>2, <3>3, <3>4, FinderKept
    <2>2. FinderOK(c)'
      <3>1. headIndex # None /\ headIndex < headIndex + 1
        BY <1>7, NoneIs
      <3>2. index'[c] # None /\ HasClaim(c)' /\ index'[c] < headIndex'
        BY <1>2, <1>9, <3>1 DEF HasClaim
      <3> QED BY <3>2, <1>9 DEF FinderOK
    <2>3. \A d \in Consumers : d # c => (HasClaim(d)' <=> HasClaim(d))
      BY <1>9 DEF HasClaim
    <2>4. \A d \in Consumers : d # c => index'[d] # headIndex
      <3> SUFFICES ASSUME NEW d \in Consumers, index[d] = headIndex PROVE FALSE
        BY <1>9
      <3>1. index[d] # None
        BY <1>7, NoneIs
      <3>2. HasClaim(d)
        BY <1>1, <3>1, ClaimedIs DEF HeldOK
      <3> QED BY <3>2, <1>7, <1>11
    <2>5. \A d, f \in Consumers : (HasClaim(d) /\ index[d] = index[f])' => d = f
      BY <1>1, <1>9, <2>3, <2>4 DEF HeldOK, FindersOK
    <2>6. \A d \in Consumers : pc'[d] = "unlink" => pc[d] = "unlink"
      BY <1>9
    <2>7. \A d, f \in Consumers : (pc[d] = "unlink" /\ pc[f] = "unlink" /\ block[d] = block[f])' => d = f
      BY <1>1, <1>2, <2>6 DEF HeldOK, FindersOK
    <2> QED BY <2>1, <2>2, <2>5, <2>7 DEF FindersOK
  <1>13. ElementsOK'
    <2>1. \A x : Kept(x)' <=> Kept(x)
      BY <1>2 DEF Kept, Entries
    <2>2. ASSUME NEW x \in 0 .. MaxElems, Owed(x)' PROVE Owed(x)
      <3>1. CASE headIndex' <= x /\ x < tailIndex'
        <4>1. headIndex + 1 <= x /\ x < tailIndex
          BY <3>1, <1>2
        <4>2. x \in Int
          OBVIOUS
        <4>3. headIndex <= x
          BY <4>1, <4>2, <1>7
        <4> QED BY <4>1, <4>3 DEF Owed
      <3>2. CASE \E d \in Consumers : index'[d] = x
        <4>1. PICK d \in Consumers : index'[d] = x
          BY <3>2
        <4>2. CASE d = c
          <5>1. x = headIndex
            BY <4>1, <4>2, <1>9
          <5>2. headIndex <= headIndex
            BY <1>7
          <5> QED BY <5>1, <5>2, <1>7 DEF Owed
        <4>3. CASE d # c
          BY <4>1, <4>3, <1>9 DEF Owed
        <4> QED BY <4>2, <4>3
      <3> QED BY <2>2, <3>1, <3>2 DEF Owed
    <2> QED BY <1>1, <2>1, <2>2 DEF ElementsOK, HeldOK
  <1>14. LinkedOK'
    <2> SUFFICES ASSUME NEW e \in Entries, values[e] # None
                 PROVE  /\ Valid(e) /\ keys[e] <= Nth(Top)
                        /\ completed[values[e]] + Unclaimed(keys[e])' + Cardinality(Busy(e)') = BLOCK_SIZE
      <3>1. Entries' = Entries /\ (\A e : Valid(e)' <=> Valid(e)) /\ Nth(Top)' = Nth(Top)
        BY <1>2, <1>4 DEF Entries, Valid, Nth
      <3> QED BY <1>2, <1>4, <3>1 DEF LinkedOK
    <2>1. /\ Valid(e) /\ keys[e] <= Nth(Top)
          /\ completed[values[e]] + Unclaimed(keys[e]) + Cardinality(Busy(e)) = BLOCK_SIZE
      BY <1>1 DEF HeldOK, LinkedOK
    <2>2. PICK k \in Int : keys[e] = Nth(k)
      BY <1>1, <1>7, <2>1, KeyBase DEF StoreOK
    <2>3. completed[values[e]] \in Nat
      <3>1. values[e] \in Blocks
        BY <1>1 DEF PoolTypeOK, LookupTypeOK
      <3>2. completed[values[e]] \in 0 .. BLOCK_SIZE
        BY <1>1, <3>1 DEF PoolTypeOK, MemoryTypeOK
      <3> QED BY <3>2, BlockSizes
    <2>4. keys'[e] = keys[e]
      BY <1>2
    <2>5. CASE Base(headIndex) = keys[e]
      <3>1. Busy(e)' = Busy(e) \cup {c}
        <4>1. headIndex # None
          BY <1>7, NoneIs
        <4>2. \A d \in Consumers : Base(index[d])' = Base(index'[d])
          BY DEF Base
        <4>3. \A d \in Consumers : d # c => (d \in Busy(e)' <=> d \in Busy(e))
          BY <1>2, <1>9, <4>2 DEF Busy
        <4>4. c \in Busy(e)'
          BY <1>2, <1>9, <2>5, <4>1, <4>2 DEF Busy
        <4>5. Busy(e)' \subseteq Consumers /\ Busy(e) \subseteq Consumers
          BY DEF Busy
        <4> QED BY <4>3, <4>4, <4>5
      <3>2. c \notin Busy(e)
        BY <1>2, <1>10 DEF Busy
      <3>3. Cardinality(Busy(e)') = Cardinality(Busy(e)) + 1
        BY <3>1, <3>2, BusyIs, FS_AddElement
      <3>4. Unclaimed(keys[e])' = Unclaimed(keys[e]) - 1 /\ Unclaimed(keys[e]) \in Nat
        BY <1>2, <1>7, <2>2, <2>4, <2>5, UnclaimedIs DEF Unclaimed
      <3> QED BY <2>1, <2>3, <3>3, <3>4, BusyIs, BlockSizes
    <2>6. CASE Base(headIndex) # keys[e]
      <3>1. Busy(e)' = Busy(e)
        BY <1>2, <1>9, <1>10, <2>6 DEF Busy, Base
      <3>2. Unclaimed(keys[e])' = Unclaimed(keys[e])
        BY <1>2, <1>7, <2>2, <2>4, <2>6, UnclaimedIs DEF Unclaimed
      <3> QED BY <2>1, <3>1, <3>2
    <2> QED BY <2>1, <2>5, <2>6
  <1>15. PlacesOK'
    <2>1. \A b \in Blocks : InHand(b)' <=> InHand(b)
      BY <1>2 DEF InHand
    <2> QED BY <1>1, <1>2, <1>9, <2>1, PlacesKept DEF HeldOK
  <1>16. HeldOK'
    BY <1>12, <1>13, <1>14, <1>15 DEF HeldOK
  <1> QED BY <1>3, <1>4, <1>5, <1>8, <1>16, InvariantParts, PTL

(* What is owed is kept: the entry with the key of a claimed index holds its
   block, which holds the element.                                        *)
LEMMA ClaimedKept ==
  ASSUME CountTypeOK, FindTypeOK, PoolTypeOK, StoreOK, HeldOK,
         NEW c \in Consumers, HasClaim(c)
  PROVE  \E e \in Entries :
           /\ keys[e] = Base(index[c]) /\ Valid(e) /\ values[e] \in Blocks
           /\ cells[values[e]][index[c] % BLOCK_SIZE] = index[c]
           /\ \A f \in Entries : keys[f] = Base(index[c]) => f = e
  <1>1. index[c] \in Nat /\ index[c] < tailIndex /\ tailIndex \in 0 .. MaxElems /\ MaxElems \in Nat
    BY ClaimedIs, ImplicitProducerAssumption DEF HeldOK, CountTypeOK
  <1>2. index[c] \in 0 .. MaxElems
    BY <1>1
  <1>3. Owed(index[c])
    BY DEF Owed
  <1>4. PICK e \in Entries :
           keys[e] = Base(index[c]) /\ values[e] # None /\ cells[values[e]][index[c] % BLOCK_SIZE] = index[c]
    BY <1>2, <1>3 DEF HeldOK, ElementsOK, Kept
  <1>5. Valid(e)
    BY <1>4 DEF HeldOK, LinkedOK
  <1>6. values[e] \in Blocks
    BY <1>4 DEF PoolTypeOK, LookupTypeOK
  <1>7. \A f \in Entries : keys[f] = Base(index[c]) => f = e
    BY <1>1, <1>4, <1>5, KeysDistinct DEF StoreOK
  <1> QED BY <1>4, <1>5, <1>6, <1>7

(* Where it has an index and not its element yet. *)
SearchPoints == {"load header", "load slot", "find entry", "load value", "move"}

(* A consumer that looks for its element changes only what it holds. *)
LEMMA SearchStep ==
  ASSUME IInv, NEW c \in Consumers,
         UNCHANGED <<counters, lookup, memory, producer, counting, index, answer, excused>>,
         pc' \in [Consumers -> Points], FindTypeOK',
         pc[c] \in SearchPoints, pc'[c] \in SearchPoints,
         \A d \in Consumers : d # c => /\ pc'[d] = pc[d] /\ header'[d] = header[d] /\ slot'[d] = slot[d]
                                       /\ entry'[d] = entry[d] /\ block'[d] = block[d],
         FinderOK(c)'
  PROVE  IInv'
  <1>1. CountTypeOK /\ PoolTypeOK /\ FindTypeOK /\ CountersOK /\ StoreOK /\ HeldOK
    BY InvariantParts
  <1>2. UNCHANGED <<tailIndex, headIndex, dequeueOptimisticCount, dequeueOvercommit, tail, overcommit, myCount,
                    headers, keys, values, cells, completed, unused, free, step, idxEntry, tailBlock>>
    BY DEF counters, lookup, memory, producer, counting
  <1>3. CountTypeOK'
    BY <1>1, <1>2 DEF CountTypeOK
  <1>4. CountersOK'
    <2>1. Asking' = Asking
      BY DEF Asking, SearchPoints
    <2>2. \A d \in Consumers : \/ pc'[d] = pc[d]
                               \/ pc[d] \notin CountingPoints /\ pc'[d] \notin CountingPoints
      BY DEF SearchPoints, CountingPoints
    <2>3. tailIndex' \in Nat /\ tailIndex <= tailIndex'
      BY <1>1, <1>2, CountsAre
    <2> QED BY <1>1, <1>2, <2>1, <2>2, <2>3, CountersKept DEF counting
  <1>5. StoreOK' /\ Top' = Top
    BY <1>1, <1>2, StoreKept DEF lookup, producer
  <1>6. PoolTypeOK'
    BY <1>1, PoolTypeKept
  <1>7. FindersOK'
    <2>1. ASSUME NEW d \in Consumers, d # c PROVE FinderOK(d)'
      <3>1. FinderOK(d) /\ LookupTypeOK /\ (HasClaim(d) => index[d] < headIndex)
        BY <1>1 DEF HeldOK, FindersOK, FinderOK, PoolTypeOK
      <3>2. pc[d] \in {"load slot", "find entry"} => header[d] \in DOMAIN headers
        BY <3>1 DEF FinderOK
      <3>3. Entries' = Entries /\ \A e : Valid(e)' <=> Valid(e)
        BY <1>2 DEF Entries, Valid
      <3> QED BY <1>2, <2>1, <3>1, <3>2, <3>3, FinderKept
    <2>2. \A d \in Consumers : HasClaim(d)' <=> HasClaim(d)
      BY DEF HasClaim, SearchPoints
    <2>3. \A d \in Consumers : pc'[d] = "unlink" => d # c /\ pc[d] = "unlink"
      BY DEF SearchPoints
    <2>4. \A d, f \in Consumers : (HasClaim(d) /\ index[d] = index[f])' => d = f
      BY <1>1, <2>2 DEF HeldOK, FindersOK
    <2>5. \A d, f \in Consumers : (pc[d] = "unlink" /\ pc[f] = "unlink" /\ block[d] = block[f])' => d = f
      BY <1>1, <2>3 DEF HeldOK, FindersOK
    <2> QED BY <2>1, <2>4, <2>5 DEF FindersOK
  <1>8. ElementsOK'
    BY <1>1, <1>2, ElementsKept DEF HeldOK
  <1>9. LinkedOK'
    <2>1. \A d \in Consumers : (pc'[d] = "set empty" <=> pc[d] = "set empty")
                               /\ (pc[d] = "set empty" => entry'[d] = entry[d])
      BY DEF SearchPoints
    <2> QED BY <1>1, <1>2, <1>5, <2>1, LinkedKept DEF HeldOK
  <1>10. PlacesOK'
    <2>1. \A d \in Consumers : (pc'[d] = "release" <=> pc[d] = "release")
                               /\ (pc[d] = "release" => block'[d] = block[d])
      BY DEF SearchPoints
    <2>2. \A b \in Blocks : InHand(b)' <=> InHand(b)
      BY <1>2 DEF InHand
    <2> QED BY <1>1, <1>2, <2>1, <2>2, PlacesKept DEF HeldOK
  <1>11. HeldOK'
    BY <1>7, <1>8, <1>9, <1>10 DEF HeldOK
  <1> QED BY <1>3, <1>4, <1>5, <1>6, <1>11, InvariantParts, PTL

(* LoadHeader: the newest header has an entry for every claimed index. *)
LEMMA LoadHeaderStep ==
  ASSUME IInv, NEW c \in Consumers, LoadHeader(c)
  PROVE  IInv'
  <1>1. CountTypeOK /\ PoolTypeOK /\ FindTypeOK /\ CountersOK /\ StoreOK /\ HeldOK
    BY InvariantParts
  <1>2. /\ UNCHANGED <<counters, lookup, memory, producer, counting, index, slot, entry, block, answer, excused>>
        /\ pc[c] = "load header"
    BY DEF LoadHeader
  <1>3. UNCHANGED <<headIndex, headers, keys, values, completed>>
    BY <1>2 DEF counters, lookup, memory
  <1>4. header' = [header EXCEPT ![c] = blockIndex] /\ pc' = [pc EXCEPT ![c] = "load slot"]
    BY DEF LoadHeader, Goto, Set
  <1>5. blockIndex \in DOMAIN headers /\ blockIndex \in 0 .. Len(headers)
    BY <1>1, IndexIs DEF StoreOK, blockIndex
  <1>6. pc' \in [Consumers -> Points] /\ header' \in [Consumers -> 0 .. Len(headers)]
    BY <1>1, <1>4, <1>5 DEF CountTypeOK, FindTypeOK, Points
  <1>7. FindTypeOK'
    BY <1>1, <1>2, <1>3, <1>6 DEF FindTypeOK, Entries
  <1>8. /\ \A d \in Consumers : d # c => pc'[d] = pc[d] /\ header'[d] = header[d]
        /\ pc'[c] = "load slot" /\ header'[c] = blockIndex
    BY <1>1, <1>4 DEF CountTypeOK, FindTypeOK
  <1>9. FinderOK(c)'
    <2>1. HasClaim(c) /\ HasClaim(c)' /\ index[c] # None /\ index[c] < headIndex
      BY <1>1, <1>2, <1>8 DEF HeldOK, FindersOK, FinderOK, HasClaim
    <2>2. PICK e \in Entries : keys[e] = Base(index[c])
      BY <1>1, <2>1, ClaimedKept
    <2>3. e \in 1 .. Size
      BY <1>1 DEF StoreOK, IndexesOK
    <2>4. PICK p \in 0 .. Size - 1 : Place(p) = e
      BY <1>1, <2>3 DEF StoreOK, IndexesOK
    <2>5. p \in 0 .. Cap(blockIndex) - 1 /\ keys[headers[blockIndex].index[p]] = Base(index[c])
      BY <2>2, <2>4 DEF Size, Place, Current
    <2>6. Cap(header[c])' = Cap(blockIndex)
      BY <1>3, <1>8 DEF Cap, Capacity
    <2>7. /\ header'[c] \in DOMAIN headers'
          /\ keys'[headers'[header'[c]].index[p]] = Base(index[c])
      BY <1>3, <1>5, <1>8, <2>5
    <2>8. Base(index[c])' = Base(index[c]) /\ index'[c] = index[c]
      BY <1>2 DEF Base
    <2>9. \E r \in 0 .. Cap(header[c])' - 1 : keys'[headers'[header'[c]].index[r]] = Base(index[c])'
      BY <2>5, <2>6, <2>7, <2>8
    <2> QED BY <1>3, <1>8, <2>1, <2>7, <2>8, <2>9 DEF FinderOK
  <1> QED BY <1>2, <1>6, <1>7, <1>8, <1>9, SearchStep DEF SearchPoints

(* LoadSlot: the tail of every header, old or new, has a valid key. *)
LEMMA LoadSlotStep ==
  ASSUME IInv, NEW c \in Consumers, LoadSlot(c)
  PROVE  IInv'
  <1>1. CountTypeOK /\ PoolTypeOK /\ FindTypeOK /\ CountersOK /\ StoreOK /\ HeldOK
    BY InvariantParts
  <1>2. /\ UNCHANGED <<counters, lookup, memory, producer, counting, index, header, entry, block, answer, excused>>
        /\ pc[c] = "load slot"
    BY DEF LoadSlot
  <1>3. UNCHANGED <<headIndex, headers, keys, values, completed>>
    BY <1>2 DEF counters, lookup, memory
  <1>4. slot' = [slot EXCEPT ![c] = headers[header[c]].tail] /\ pc' = [pc EXCEPT ![c] = "find entry"]
    BY DEF LoadSlot, Goto, Set
  <1>5. /\ header[c] \in DOMAIN headers
        /\ HasClaim(c) /\ index[c] # None /\ index[c] < headIndex
        /\ \E p \in 0 .. Cap(header[c]) - 1 : keys[headers[header[c]].index[p]] = Base(index[c])
    BY <1>1, <1>2 DEF HeldOK, FindersOK, FinderOK, HasClaim
  <1>6. headers[header[c]].tail \in 0 .. Cap(header[c]) - 1 /\ Cap(header[c]) \in Nat
    BY <1>1, <1>5 DEF StoreOK, IndexesOK, HeaderOK
  <1>7. pc' \in [Consumers -> Points] /\ slot' \in [Consumers -> Nat]
    <2>1. headers[header[c]].tail \in Nat
      BY <1>6
    <2> QED BY <1>1, <1>4, <2>1 DEF CountTypeOK, FindTypeOK, Points
  <1>8. FindTypeOK'
    BY <1>1, <1>2, <1>3, <1>7 DEF FindTypeOK, Entries
  <1>9. /\ \A d \in Consumers : d # c => pc'[d] = pc[d] /\ slot'[d] = slot[d]
        /\ pc'[c] = "find entry" /\ slot'[c] = headers[header[c]].tail
    BY <1>1, <1>4 DEF CountTypeOK, FindTypeOK
  <1>10. Valid(headers[header[c]].index[headers[header[c]].tail])
    <2>1. CASE header[c] # blockIndex
      <3>1. header[c] < blockIndex
        BY <1>1, <1>5, <2>1, IndexIs DEF StoreOK
      <3> QED BY <1>1, <1>5, <3>1 DEF StoreOK, TailsOK
    <2>2. CASE header[c] = blockIndex
      <3>1. tailIndex \in Nat /\ headIndex \in Nat /\ headIndex <= tailIndex /\ index[c] \in Nat
        BY <1>1, <1>5, CountsAre, ClaimedIs DEF HeldOK
      <3>2. tailIndex - 1 \in Nat /\ tailIndex \in Nat
        BY <1>5, <3>1
      <3>3. Top >= 0
        <4>1. \A x \in Nat : x \div BLOCK_SIZE >= 0
          BY BlockSizes
        <4> QED BY <3>2, <4>1 DEF Top
      <3> QED BY <1>1, <2>2, <3>3 DEF StoreOK, TailsOK, Place, TailPlace, Current
    <2> QED BY <2>1, <2>2
  <1>11. FinderOK(c)'
    <2>1. HasClaim(c)'
      BY <1>9 DEF HasClaim
    <2>2. Cap(header[c])' = Cap(header[c])
      BY <1>2, <1>3 DEF Cap, Capacity
    <2>3. Base(index[c])' = Base(index[c])
      BY <1>2 DEF Base
    <2>4. \E r \in 0 .. Cap(header[c])' - 1 : keys'[headers'[header'[c]].index[r]] = Base(index[c])'
      BY <1>2, <1>3, <1>5, <2>2, <2>3
    <2>5. slot'[c] \in 0 .. Cap(header[c])' - 1
      BY <1>6, <1>9, <2>2
    <2>6. Valid(headers[header[c]].index[slot[c]])'
      BY <1>2, <1>3, <1>9, <1>10 DEF Valid
    <2> QED BY <1>2, <1>3, <1>5, <1>9, <2>1, <2>4, <2>5, <2>6 DEF FinderOK
  <1> QED BY <1>2, <1>7, <1>8, <1>9, <1>11, SearchStep DEF SearchPoints

(* LoadKey: the distance of the keys leads to the entry of the block. *)
LEMMA LoadKeyStep ==
  ASSUME IInv, NEW c \in Consumers, LoadKey(c)
  PROVE  IInv'
  <1>1. CountTypeOK /\ PoolTypeOK /\ FindTypeOK /\ CountersOK /\ StoreOK /\ HeldOK
    BY InvariantParts
  <1>2. /\ UNCHANGED <<counters, lookup, memory, producer, counting, index, block, answer, excused>>
        /\ pc[c] = "find entry"
    BY DEF LoadKey
  <1>3. UNCHANGED <<headIndex, headers, keys, values, completed>>
    BY <1>2 DEF counters, lookup, memory
  <1>4. /\ entry' = [entry EXCEPT ![c] = EntryOf(c)] /\ pc' = [pc EXCEPT ![c] = "load value"]
        /\ header' = [header EXCEPT ![c] = 0] /\ slot' = [slot EXCEPT ![c] = 0]
    BY DEF LoadKey, Goto, Set
  <1>5. /\ header[c] \in DOMAIN headers /\ slot[c] \in 0 .. Cap(header[c]) - 1
        /\ HasClaim(c) /\ index[c] # None /\ index[c] < headIndex
        /\ Valid(headers[header[c]].index[slot[c]])
    BY <1>1, <1>2 DEF HeldOK, FindersOK, FinderOK, HasClaim
  <1>6. PICK p \in 0 .. Cap(header[c]) - 1 : keys[headers[header[c]].index[p]] = Base(index[c])
    BY <1>1, <1>2 DEF HeldOK, FindersOK, FinderOK
  <1>7. EntryOf(c) = headers[header[c]].index[p]
    <2>1. index[c] \in Int /\ tailIndex \in Int
      BY <1>1, <1>5, CountsAre, ClaimedIs DEF HeldOK
    <2>2. (slot[c] + ((Base(index[c]) - keys[headers[header[c]].index[slot[c]]]) \div BLOCK_SIZE)) % Cap(header[c]) = p
      BY <1>1, <1>5, <1>6, <2>1, LookupIs DEF StoreOK
    <2> QED BY <2>2 DEF EntryOf, Cap
  <1>8. EntryOf(c) \in Entries
    <2>1. headers[header[c]].index \in [0 .. Cap(header[c]) - 1 -> Entries]
      BY <1>1, <1>5 DEF PoolTypeOK, LookupTypeOK, Cap
    <2> QED BY <1>6, <1>7, <2>1
  <1>9. /\ pc' \in [Consumers -> Points] /\ slot' \in [Consumers -> Nat]
        /\ header' \in [Consumers -> 0 .. Len(headers)] /\ entry' \in [Consumers -> Entries \cup {0}]
    <2>1. 0 \in 0 .. Len(headers)
      BY <1>1, IndexIs DEF StoreOK, blockIndex
    <2> QED BY <1>1, <1>4, <1>8, <2>1 DEF CountTypeOK, FindTypeOK, Points
  <1>10. FindTypeOK'
    BY <1>1, <1>2, <1>3, <1>9 DEF FindTypeOK, Entries
  <1>11. /\ \A d \in Consumers : d # c => /\ pc'[d] = pc[d] /\ slot'[d] = slot[d]
                                          /\ header'[d] = header[d] /\ entry'[d] = entry[d]
         /\ pc'[c] = "load value" /\ entry'[c] = EntryOf(c)
    BY <1>1, <1>4 DEF CountTypeOK, FindTypeOK
  <1>12. FinderOK(c)'
    <2>1. HasClaim(c)'
      BY <1>11 DEF HasClaim
    <2>2. Base(index[c])' = Base(index[c])
      BY <1>2 DEF Base
    <2>3. entry'[c] \in Entries' /\ keys'[entry'[c]] = Base(index[c])'
      BY <1>3, <1>6, <1>7, <1>8, <1>11, <2>2 DEF Entries
    <2> QED BY <1>2, <1>3, <1>5, <1>11, <2>1, <2>3 DEF FinderOK
  <1> QED BY <1>2, <1>9, <1>10, <1>11, <1>12, SearchStep DEF SearchPoints

(* LoadValue: the entry still holds the block when it is read. *)
LEMMA LoadValueStep ==
  ASSUME IInv, NEW c \in Consumers, LoadValue(c)
  PROVE  IInv'
  <1>1. CountTypeOK /\ PoolTypeOK /\ FindTypeOK /\ CountersOK /\ StoreOK /\ HeldOK
    BY InvariantParts
  <1>2. /\ UNCHANGED <<counters, lookup, memory, producer, counting, index, header, slot, entry, answer, excused>>
        /\ pc[c] = "load value"
    BY DEF LoadValue
  <1>3. UNCHANGED <<headIndex, headers, keys, values, completed>>
    BY <1>2 DEF counters, lookup, memory
  <1>4. block' = [block EXCEPT ![c] = values[entry[c]]] /\ pc' = [pc EXCEPT ![c] = "move"]
    BY DEF LoadValue, Goto, Set
  <1>5. /\ entry[c] \in Entries /\ keys[entry[c]] = Base(index[c])
        /\ HasClaim(c) /\ index[c] # None /\ index[c] < headIndex
    BY <1>1, <1>2 DEF HeldOK, FindersOK, FinderOK, HasClaim
  <1>6. values[entry[c]] \in Blocks
    BY <1>1, <1>5, ClaimedKept
  <1>7. pc' \in [Consumers -> Points] /\ block' \in [Consumers -> Blocks \cup {None}]
    BY <1>1, <1>4, <1>6 DEF CountTypeOK, FindTypeOK, Points
  <1>8. FindTypeOK'
    BY <1>1, <1>2, <1>3, <1>7 DEF FindTypeOK, Entries
  <1>9. /\ \A d \in Consumers : d # c => pc'[d] = pc[d] /\ block'[d] = block[d]
        /\ pc'[c] = "move" /\ block'[c] = values[entry[c]]
    BY <1>1, <1>4 DEF CountTypeOK, FindTypeOK
  <1>10. FinderOK(c)'
    <2>1. HasClaim(c)'
      BY <1>9 DEF HasClaim
    <2>2. Base(index[c])' = Base(index[c])
      BY <1>2 DEF Base
    <2>3. entry'[c] \in Entries' /\ keys'[entry'[c]] = Base(index[c])'
      BY <1>2, <1>3, <1>5, <2>2 DEF Entries
    <2>4. block'[c] \in Blocks /\ values'[entry'[c]] = block'[c]
      BY <1>2, <1>3, <1>6, <1>9
    <2> QED BY <1>2, <1>3, <1>5, <1>9, <2>1, <2>3, <2>4 DEF FinderOK
  <1> QED BY <1>2, <1>7, <1>8, <1>9, <1>10, SearchStep DEF SearchPoints

(* What the producer relies on is kept by what leaves its block, and the
   entries that are free, alone.                                          *)
LEMMA StepKept ==
  ASSUME StoreOK, CountTypeOK, UNCHANGED <<headers, keys, tailIndex, step, idxEntry, tailBlock>>,
         DOMAIN values' = DOMAIN values,
         \A e \in Entries : values[e] = None => values'[e] = None,
         InBlock => \A e \in Entries : values[e] = tailBlock /\ keys[e] = Base(tailIndex) => values'[e] = tailBlock,
         step = "store value" => completed'[tailBlock] = completed[tailBlock],
         step = "publish" => cells'[tailBlock][tailIndex % BLOCK_SIZE] = cells[tailBlock][tailIndex % BLOCK_SIZE]
  PROVE  StoreOK' /\ Top' = Top
  <1>1. IndexesOK' /\ RingOK' /\ TailsOK' /\ Top' = Top
    BY IndexKept DEF StoreOK
  <1>2. /\ Entries' = Entries /\ InBlock' = InBlock /\ Place(TailPlace)' = Place(TailPlace)
        /\ Place(NextPlace)' = Place(NextPlace) /\ Base(tailIndex)' = Base(tailIndex)
        /\ Nth(Top)' = Nth(Top) /\ \A e : Valid(e)' <=> Valid(e)
    BY <1>1 DEF blockIndex, Current, TailPlace, NextPlace, NextSlot, Entries, Place, Capacity, Valid, InBlock,
                Base, Nth
  <1>3. Place(NextPlace) \in Entries /\ Place(TailPlace) \in Entries
    BY IndexIs, AgeIs DEF StoreOK
  <1>4. /\ step' \notin {"idle", "write", "publish"} => tailIndex' % BLOCK_SIZE = 0
        /\ step' # "idle" => tailIndex' < MaxElems
        /\ step' = "grow" => Valid(Place(NextPlace))' /\ keys'[Place(NextPlace)'] <= Nth(Top)'
    BY <1>2 DEF StoreOK, StepOK
  <1>5. /\ step' \in {"store key", "store tail", "clear value"} =>
             idxEntry' = Place(NextPlace)' /\ values'[idxEntry'] = None
        /\ step' \in {"store tail", "clear value"} => keys'[idxEntry'] = tailIndex'
        /\ step' \in {"find block", "rewind", "store value"} =>
             idxEntry' = Place(TailPlace)' /\ values'[idxEntry'] = None /\ keys'[idxEntry'] = tailIndex'
    BY <1>2, <1>3 DEF StoreOK, StepOK
  <1>6. /\ step' = "store value" => tailBlock' \in Blocks /\ completed'[tailBlock'] = 0
        /\ step' = "publish" => cells'[tailBlock'][tailIndex' % BLOCK_SIZE] = tailIndex'
    BY DEF StoreOK, StepOK
  <1>7. InBlock' => /\ tailBlock' \in Blocks
                    /\ \E e \in Entries' : keys'[e] = Base(tailIndex)' /\ values'[e] = tailBlock'
    BY <1>2 DEF StoreOK, StepOK
  <1>8. StepOK'
    BY <1>4, <1>5, <1>6, <1>7 DEF StepOK
  <1> QED BY <1>1, <1>8 DEF StoreOK

(* A consumer that has its element leaves the counters alone. *)
LEMMA LeavingCounts ==
  ASSUME CountTypeOK, CountersOK, NEW c \in Consumers,
         pc[c] \in {"move", "set empty", "unlink", "release"},
         pc' \in [Consumers -> Points], pc'[c] \in {"set empty", "unlink", "release", "idle"},
         \A d \in Consumers : d # c => pc'[d] = pc[d],
         UNCHANGED <<counters, counting, excused>>
  PROVE  CountTypeOK' /\ CountersOK'
  <1>1. UNCHANGED <<tailIndex, headIndex, dequeueOptimisticCount, dequeueOvercommit, tail, overcommit, myCount>>
    BY DEF counters, counting
  <1>2. CountTypeOK'
    BY <1>1 DEF CountTypeOK
  <1>3. Asking' \subseteq Asking
    BY DEF Asking
  <1>4. \A d \in Consumers : \/ pc'[d] = pc[d]
                             \/ pc[d] \notin CountingPoints /\ pc'[d] \notin CountingPoints
    BY DEF CountingPoints
  <1>5. tailIndex' \in Nat /\ tailIndex <= tailIndex'
    <2>1. tailIndex \in Nat
      BY CountsAre
    <2>2. tailIndex <= tailIndex
      BY ONLY <2>1, AtMostItself
    <2>3. tailIndex' = tailIndex
      BY <1>1
    <2> QED BY ONLY <2>1, <2>2, <2>3
  <1>6. CountersOK'
    BY <1>1, <1>3, <1>4, <1>5, CountersKept
  <1> QED BY <1>2, <1>6

(* Move: the element leaves its cell and is owed no more. *)
LEMMA MoveStep ==
  ASSUME IInv, NEW c \in Consumers, Move(c)
  PROVE  IInv'
  <1> DEFINE i == index[c] % BLOCK_SIZE
             b == block[c]
  <1>1. CountTypeOK /\ PoolTypeOK /\ FindTypeOK /\ CountersOK /\ StoreOK /\ HeldOK
    BY InvariantParts
  <1>2. /\ UNCHANGED <<counters, counting, excused, headers, keys, values, completed, unused, free,
                       step, idxEntry, tailBlock, tailIndex, headIndex, header, slot, entry, block>>
        /\ pc[c] = "move"
    BY DEF Move, counters, lookup, producer, finding
  <1>3. /\ pc' = [pc EXCEPT ![c] = "set empty"] /\ index' = [index EXCEPT ![c] = None]
        /\ answer' = [answer EXCEPT ![c] = cells[b][i]]
        /\ cells' = [cells EXCEPT ![b][i] = None]
    BY DEF Move, Goto, Set
  <1>4. /\ entry[c] \in Entries /\ keys[entry[c]] = Base(index[c]) /\ b \in Blocks /\ values[entry[c]] = b
        /\ HasClaim(c) /\ index[c] # None /\ index[c] \in Nat /\ index[c] < headIndex /\ index[c] < tailIndex
    BY <1>1, <1>2, ClaimedIs DEF HeldOK, FindersOK, FinderOK, HasClaim
  <1>5. i \in 0 .. BLOCK_SIZE - 1 /\ index[c] = Base(index[c]) + i
    BY <1>4, BaseIs
  <1> HIDE DEF i, b
  <1>6. /\ pc' \in [Consumers -> Points] /\ index' \in [Consumers -> Nat \cup {None}]
        /\ pc'[c] = "set empty" /\ index'[c] = None
        /\ \A d \in Consumers : d # c => pc'[d] = pc[d] /\ index'[d] = index[d]
    BY <1>1, <1>3 DEF CountTypeOK, FindTypeOK, Points
  <1>7. CountTypeOK' /\ CountersOK'
    BY <1>1, <1>2, <1>6, LeavingCounts
  <1>8. /\ cells' \in [Blocks -> [0 .. BLOCK_SIZE - 1 -> Nat \cup {None}]]
        /\ \A a \in Blocks, j \in 0 .. BLOCK_SIZE - 1 : ~(a = b /\ j = i) => cells'[a][j] = cells[a][j]
        /\ cells[b][i] \in Nat \cup {None}
    BY <1>1, <1>3, <1>4, <1>5 DEF PoolTypeOK, MemoryTypeOK
  <1>9. PoolTypeOK'
    BY <1>1, <1>2, <1>8 DEF PoolTypeOK, LookupTypeOK, MemoryTypeOK, StepTypeOK, Entries, Capacity
  <1>10. FindTypeOK'
    <2>1. answer' \in [Consumers -> Nat \cup {None}]
      BY <1>1, <1>3, <1>8 DEF FindTypeOK
    <2> QED BY <1>1, <1>2, <1>6, <2>1 DEF FindTypeOK, Entries
  (* No other index of the block has the cell. *)
  <1>11. \A x \in Nat : Base(x) = Base(index[c]) /\ x % BLOCK_SIZE = i => x = index[c]
    <2> SUFFICES ASSUME NEW x \in Nat, Base(x) = Base(index[c]), x % BLOCK_SIZE = i PROVE x = index[c]
      OBVIOUS
    <2>1. x = Base(x) + (x % BLOCK_SIZE)
      BY BaseIs
    <2> QED BY <2>1, <1>5
  <1>12. \A e \in Entries : values[e] = b => keys[e] = Base(index[c]) /\ e = entry[c]
    BY <1>1, <1>4 DEF HeldOK, PlacesOK, PlaceOK
  <1>13. StoreOK' /\ Top' = Top
    <2>1. ASSUME step = "publish"
          PROVE  cells'[tailBlock][tailIndex % BLOCK_SIZE] = cells[tailBlock][tailIndex % BLOCK_SIZE]
      <3>1. /\ tailBlock \in Blocks
            /\ \E e \in Entries : keys[e] = Base(tailIndex) /\ values[e] = tailBlock
        BY <1>1, <2>1 DEF StoreOK, StepOK, InBlock
      <3>2. tailIndex \in Nat /\ tailIndex % BLOCK_SIZE \in 0 .. BLOCK_SIZE - 1
        BY <1>1, CountsAre, BaseIs
      <3>3. ~(tailBlock = b /\ tailIndex % BLOCK_SIZE = i)
        <4>1. ASSUME tailBlock = b, tailIndex % BLOCK_SIZE = i PROVE FALSE
          <5>1. tailIndex = index[c]
            BY <1>11, <1>12, <3>1, <3>2, <4>1
          <5> QED BY <5>1, <1>4, <3>2
        <4> QED BY <4>1
      <3> QED BY <1>8, <3>1, <3>2, <3>3
    <2> QED BY <1>1, <1>2, <2>1, StepKept
  <1>14. FindersOK'
    <2>1. ASSUME NEW d \in Consumers, d # c PROVE FinderOK(d)'
      <3>1. FinderOK(d) /\ LookupTypeOK /\ (HasClaim(d) => index[d] < headIndex)
        BY <1>1 DEF HeldOK, FindersOK, FinderOK, PoolTypeOK
      <3>2. pc[d] \in {"load slot", "find entry"} => header[d] \in DOMAIN headers
        BY <3>1 DEF FinderOK
      <3>3. Entries' = Entries /\ \A e : Valid(e)' <=> Valid(e)
        BY <1>2 DEF Entries, Valid
      <3> QED BY <1>2, <1>6, <2>1, <3>1, <3>2, <3>3, FinderKept
    <2>2. FinderOK(c)'
      <3>1. block'[c] \in Blocks /\ entry'[c] \in Entries' /\ values'[entry'[c]] = block'[c]
        BY <1>2, <1>4 DEF b, Entries
      <3> QED BY <1>6, <3>1 DEF FinderOK, HasClaim
    <2>3. \A d \in Consumers : HasClaim(d)' => d # c /\ HasClaim(d)
      BY <1>6 DEF HasClaim
    <2>4. \A d, f \in Consumers : (HasClaim(d) /\ index[d] = index[f])' => d = f
      <3> SUFFICES ASSUME NEW d \in Consumers, NEW f \in Consumers, HasClaim(d)', index'[d] = index'[f]
                   PROVE  d = f
        OBVIOUS
      <3>1. d # c /\ HasClaim(d) /\ index[d] # None
        BY <1>1, <2>3, ClaimedIs DEF HeldOK
      <3>2. f # c
        BY <1>6, <3>1
      <3> QED BY <1>1, <1>6, <3>1, <3>2 DEF HeldOK, FindersOK
    <2>5. \A d \in Consumers : pc'[d] = "unlink" => pc[d] = "unlink"
      BY <1>6
    <2>6. \A d, f \in Consumers : (pc[d] = "unlink" /\ pc[f] = "unlink" /\ block[d] = block[f])' => d = f
      BY <1>1, <1>2, <2>5 DEF HeldOK, FindersOK
    <2> QED BY <2>1, <2>2, <2>4, <2>6 DEF FindersOK
  <1>15. ElementsOK'
    <2> SUFFICES ASSUME NEW x \in 0 .. MaxElems, Owed(x)' PROVE Kept(x)'
      BY DEF ElementsOK
    <2>1. x \in Nat
      BY ImplicitProducerAssumption
    <2>2. Owed(x) /\ x # index[c]
      <3>1. CASE headIndex <= x /\ x < tailIndex
        <4>1. headIndex \in Nat
          BY <1>1, CountsAre
        <4>2. x # index[c]
          BY <1>4, <2>1, <3>1, <4>1
        <4> QED BY <3>1, <4>2 DEF Owed
      <3>2. CASE \E d \in Consumers : index'[d] = x
        <4>1. PICK d \in Consumers : index'[d] = x
          BY <3>2
        <4>2. d # c
          <5>1. x # None
            BY <2>1, NoneIs
          <5> QED BY <1>6, <4>1, <5>1
        <4>3. index[d] = x
          BY <1>6, <4>1, <4>2
        <4>4. x # index[c]
          BY <1>1, <1>4, <4>2, <4>3 DEF HeldOK, FindersOK
        <4> QED BY <4>3, <4>4 DEF Owed
      <3> QED BY <1>2, <3>1, <3>2 DEF Owed
    <2>3. PICK e \in Entries : /\ keys[e] = Base(x) /\ values[e] # None
                               /\ cells[values[e]][x % BLOCK_SIZE] = x
      BY <1>1, <2>2 DEF HeldOK, ElementsOK, Kept
    <2>4. values[e] \in Blocks /\ x % BLOCK_SIZE \in 0 .. BLOCK_SIZE - 1
      BY <1>1, <2>1, <2>3, BaseIs DEF PoolTypeOK, LookupTypeOK
    <2>5. ~(values[e] = b /\ x % BLOCK_SIZE = i)
      BY <1>11, <1>12, <2>1, <2>2, <2>3
    <2>6. cells'[values[e]][x % BLOCK_SIZE] = x
      BY <1>8, <2>3, <2>4, <2>5
    <2> QED BY <1>2, <2>3, <2>6 DEF Kept, Entries
  <1>16. LinkedOK'
    <2>1. ASSUME NEW e \in Entries, values[e] # None PROVE Busy(e)' = Busy(e)
      <3>1. Valid(e)
        BY <1>1, <2>1 DEF HeldOK, LinkedOK
      <3>2. keys[e] = Base(index[c]) <=> e = entry[c]
        <4>1. tailIndex \in Int
          BY <1>1, CountsAre
        <4> QED BY <1>1, <1>4, <3>1, <4>1, KeysDistinct DEF StoreOK
      <3>3. \A d \in Consumers : Base(index[d])' = Base(index'[d])
        BY DEF Base
      <3>4. c \in Busy(e)' <=> c \in Busy(e)
        BY <1>2, <1>4, <1>6, <3>2 DEF Busy
      <3>5. \A d \in Consumers : d # c => (d \in Busy(e)' <=> d \in Busy(e))
        BY <1>2, <1>6, <3>3 DEF Busy
      <3>6. Busy(e) \subseteq Consumers /\ Busy(e)' \subseteq Consumers
        BY DEF Busy
      <3> QED BY <3>4, <3>5, <3>6
    <2>2. /\ Entries' = Entries /\ (\A e : Valid(e)' <=> Valid(e)) /\ Nth(Top)' = Nth(Top)
          /\ \A k : Unclaimed(k)' = Unclaimed(k)
      BY <1>2, <1>13 DEF Entries, Valid, Nth, Unclaimed
    <2> QED BY <1>1, <1>2, <2>1, <2>2 DEF HeldOK, LinkedOK
  <1>17. PlacesOK'
    <2>1. \A a \in Blocks : InHand(a)' <=> InHand(a)
      BY <1>2 DEF InHand
    <2> QED BY <1>1, <1>2, <1>6, <2>1, PlacesKept DEF HeldOK
  <1>18. HeldOK'
    BY <1>14, <1>15, <1>16, <1>17 DEF HeldOK
  <1> QED BY <1>7, <1>9, <1>10, <1>13, <1>18, InvariantParts, PTL

(* An entry with a block has its key's elements unclaimed, on their way or
   counted, and the block is in no other entry.                           *)
LEMMA LinkedIs ==
  ASSUME CountTypeOK, PoolTypeOK, StoreOK, HeldOK, NEW e \in Entries, values[e] # None
  PROVE  /\ values[e] \in Blocks /\ Valid(e)
         /\ completed[values[e]] \in Nat /\ Unclaimed(keys[e]) \in Nat
         /\ completed[values[e]] + Unclaimed(keys[e]) + Cardinality(Busy(e)) = BLOCK_SIZE
         /\ \A f \in Entries : values[f] = values[e] => f = e
         /\ ~Idle(values[e]) /\ ~InHand(values[e]) /\ \A c \in Consumers : ~Leaves(c, values[e])
  <1>1. values[e] \in Blocks
    BY DEF PoolTypeOK, LookupTypeOK
  <1>2. /\ Valid(e)
        /\ completed[values[e]] + Unclaimed(keys[e]) + Cardinality(Busy(e)) = BLOCK_SIZE
    BY DEF HeldOK, LinkedOK
  <1>3. completed[values[e]] \in Nat
    <2>1. completed[values[e]] \in 0 .. BLOCK_SIZE
      BY <1>1 DEF PoolTypeOK, MemoryTypeOK
    <2> QED BY <2>1, BlockSizes
  <1>4. Unclaimed(keys[e]) \in Nat
    <2>1. tailIndex \in Int /\ headIndex \in Nat
      BY CountsAre
    <2>2. PICK k \in Int : keys[e] = Nth(k)
      BY <1>2, <2>1, KeyBase DEF StoreOK
    <2> QED BY <2>1, <2>2, UnclaimedIs DEF Unclaimed
  <1>5. PlaceOK(values[e])
    BY <1>1 DEF HeldOK, PlacesOK
  <1> QED BY <1>1, <1>2, <1>3, <1>4, <1>5 DEF PlaceOK

(* SetEmpty: who counts the last element of a block is alone in doing so. *)
LEMMA SetEmptyStep ==
  ASSUME IInv, NEW c \in Consumers, SetEmpty(c)
  PROVE  IInv'
  <1>1. CountTypeOK /\ PoolTypeOK /\ FindTypeOK /\ CountersOK /\ StoreOK /\ HeldOK
    BY InvariantParts
  <1>2. /\ UNCHANGED <<counters, counting, excused, headers, keys, values, cells, unused, free,
                       step, idxEntry, tailBlock, tailIndex, headIndex, header, slot, index, answer>>
        /\ pc[c] = "set empty"
    BY DEF SetEmpty, counters, lookup, producer
  <1>4. PICK b \in Blocks, e \in Entries : /\ b = block[c] /\ e = entry[c]
                                         /\ values[e] = b /\ index[c] = None
    BY <1>1, <1>2 DEF HeldOK, FindersOK, FinderOK, HasClaim
  <1>3. /\ completed' = [completed EXCEPT ![b] = @ + 1]
        /\ \/ /\ completed[b] = BLOCK_SIZE - 1
              /\ pc' = [pc EXCEPT ![c] = "unlink"] /\ entry' = entry /\ block' = block
           \/ /\ pc' = [pc EXCEPT ![c] = "idle"] /\ entry' = [entry EXCEPT ![c] = 0]
              /\ block' = [block EXCEPT ![c] = None]
    BY <1>4 DEF SetEmpty, Goto, Set, LastOfBlock
  <1>5. values[e] # None
    BY <1>4, NoneIs
  <1>6. /\ completed[b] \in Nat /\ Unclaimed(keys[e]) \in Nat
        /\ completed[b] + Unclaimed(keys[e]) + Cardinality(Busy(e)) = BLOCK_SIZE
        /\ \A f \in Entries : values[f] = b => f = e
        /\ ~InHand(b)
    BY <1>1, <1>4, <1>5, LinkedIs
  <1>7. c \in Busy(e) /\ Cardinality(Busy(e) \ {c}) = Cardinality(Busy(e)) - 1
        /\ Cardinality(Busy(e) \ {c}) \in Nat
    <2>1. c \in Busy(e)
      BY <1>2, <1>4 DEF Busy
    <2>2. IsFiniteSet(Busy(e) \ {c})
      BY BusyIs, FS_Difference
    <2> QED BY <2>1, <2>2, BusyIs, FS_RemoveElement, FS_CardinalityType
  <1>8. completed[b] < BLOCK_SIZE
    BY <1>6, <1>7, BusyIs, BlockSizes
  <1>9. /\ pc' \in [Consumers -> Points]
        /\ entry' \in [Consumers -> Entries \cup {0}] /\ block' \in [Consumers -> Blocks \cup {None}]
    BY <1>1, <1>3 DEF CountTypeOK, FindTypeOK, Points
  <1>10. /\ \A d \in Consumers : d # c => pc'[d] = pc[d] /\ entry'[d] = entry[d] /\ block'[d] = block[d]
         /\ \/ pc'[c] = "idle"
            \/ pc'[c] = "unlink" /\ completed[b] = BLOCK_SIZE - 1 /\ entry'[c] = e /\ block'[c] = b
    BY <1>1, <1>3, <1>4 DEF CountTypeOK, FindTypeOK
  <1>11. /\ completed' \in [Blocks -> 0 .. BLOCK_SIZE] /\ completed'[b] = completed[b] + 1
         /\ \A a \in Blocks : a # b => completed'[a] = completed[a]
    <2>1. completed[b] + 1 \in 0 .. BLOCK_SIZE
      BY <1>6, <1>8, BlockSizes
    <2> QED BY <1>1, <1>3, <1>4, <2>1 DEF PoolTypeOK, MemoryTypeOK
  <1>12. CountTypeOK' /\ CountersOK'
    BY <1>1, <1>2, <1>9, <1>10, LeavingCounts
  <1>13. PoolTypeOK'
    BY <1>1, <1>2, <1>11 DEF PoolTypeOK, LookupTypeOK, MemoryTypeOK, StepTypeOK, Entries, Capacity
  <1>14. FindTypeOK'
    BY <1>1, <1>2, <1>9 DEF FindTypeOK, Entries
  <1>15. StoreOK' /\ Top' = Top
    <2>1. step = "store value" => completed'[tailBlock] = completed[tailBlock]
      BY <1>1, <1>6, <1>11 DEF StoreOK, StepOK, InHand
    <2> QED BY <1>1, <1>2, <2>1, StepKept
  <1>16. \A d \in Consumers : pc[d] = "unlink" => block[d] \in Blocks /\ block[d] # b
    <2>1. \A d \in Consumers : pc[d] = "unlink" => block[d] \in Blocks /\ completed[block[d]] = BLOCK_SIZE
      BY <1>1 DEF HeldOK, FindersOK, FinderOK
    <2> QED BY <2>1, <1>6, <1>8, BlockSizes
  <1>17. FindersOK'
    <2>1. ASSUME NEW d \in Consumers, d # c PROVE FinderOK(d)'
      <3>1. FinderOK(d) /\ LookupTypeOK /\ (HasClaim(d) => index[d] < headIndex)
        BY <1>1 DEF HeldOK, FindersOK, FinderOK, PoolTypeOK
      <3>2. pc[d] \in {"load slot", "find entry"} => header[d] \in DOMAIN headers
        BY <3>1 DEF FinderOK
      <3>3. Entries' = Entries /\ \A f : Valid(f)' <=> Valid(f)
        BY <1>2 DEF Entries, Valid
      <3>4. pc[d] = "unlink" => completed'[block[d]] = completed[block[d]]
        BY <1>11, <1>16
      <3> QED BY <1>2, <1>10, <2>1, <3>1, <3>2, <3>3, <3>4, FinderKept
    <2>2. FinderOK(c)'
      <3>1. CASE pc'[c] = "idle"
        BY <1>2, <1>4, <3>1 DEF FinderOK, HasClaim
      <3>2. CASE pc'[c] = "unlink"
        <4>1. completed[b] = BLOCK_SIZE - 1 /\ entry'[c] = e /\ block'[c] = b
          BY <1>10, <3>2
        <4>2. completed'[b] = BLOCK_SIZE
          BY <1>11, <4>1, BlockSizes
        <4>3. e \in Entries' /\ values'[e] = b
          BY <1>2, <1>4 DEF Entries
        <4> QED BY <1>2, <1>4, <3>2, <4>1, <4>2, <4>3 DEF FinderOK, HasClaim
      <3> QED BY <1>10, <3>1, <3>2
    <2>3. \A d \in Consumers : HasClaim(d)' <=> HasClaim(d)
      BY <1>2, <1>10 DEF HasClaim
    <2>4. \A d, f \in Consumers : (HasClaim(d) /\ index[d] = index[f])' => d = f
      BY <1>1, <1>2, <2>3 DEF HeldOK, FindersOK
    <2>5. \A d, f \in Consumers : (pc[d] = "unlink" /\ pc[f] = "unlink" /\ block[d] = block[f])' => d = f
      <3> SUFFICES ASSUME NEW d \in Consumers, NEW f \in Consumers, pc'[d] = "unlink", pc'[f] = "unlink",
                          block'[d] = block'[f]
                   PROVE  d = f
        OBVIOUS
      <3>1. \A g \in Consumers : g # c /\ pc'[g] = "unlink" => pc[g] = "unlink" /\ block'[g] # b
        BY <1>10, <1>16
      <3>2. pc'[c] = "unlink" => block'[c] = b
        BY <1>10
      <3>3. CASE d # c /\ f # c
        BY <1>1, <1>10, <3>1, <3>3 DEF HeldOK, FindersOK
      <3> QED BY <3>1, <3>2, <3>3
    <2> QED BY <2>1, <2>2, <2>4, <2>5 DEF FindersOK
  <1>18. ElementsOK'
    BY <1>1, <1>2, ElementsKept DEF HeldOK
  <1>19. LinkedOK'
    <2>1. \A f : Base(index[f])' = Base(index[f])
      BY <1>2 DEF Base
    <2>2. ASSUME NEW f \in Entries, values[f] # None, f # e
          PROVE  Busy(f)' = Busy(f) /\ completed'[values[f]] = completed[values[f]]
      <3>1. c \notin Busy(f) /\ c \notin Busy(f)'
        BY <1>2, <1>4, <1>10, <2>2 DEF Busy
      <3>2. \A d \in Consumers : d # c => (d \in Busy(f)' <=> d \in Busy(f))
        BY <1>2, <1>10, <2>1 DEF Busy
      <3>3. Busy(f) \subseteq Consumers /\ Busy(f)' \subseteq Consumers
        BY DEF Busy
      <3>4. values[f] \in Blocks /\ values[f] # b
        BY <1>1, <1>6, <2>2, LinkedIs
      <3>5. completed'[values[f]] = completed[values[f]]
        BY <1>11, <3>4
      <3>6. Busy(f)' = Busy(f)
        BY <3>1, <3>2, <3>3
      <3> QED BY <3>5, <3>6
    <2>3. Busy(e)' = Busy(e) \ {c}
      <3>1. c \notin Busy(e)'
        BY <1>2, <1>4, <1>10 DEF Busy
      <3>2. \A d \in Consumers : d # c => (d \in Busy(e)' <=> d \in Busy(e))
        BY <1>2, <1>10, <2>1 DEF Busy
      <3>3. Busy(e) \subseteq Consumers /\ Busy(e)' \subseteq Consumers
        BY DEF Busy
      <3> QED BY <3>1, <3>2, <3>3
    <2>4. completed'[values[e]] + Unclaimed(keys[e]) + Cardinality(Busy(e)') = BLOCK_SIZE
      <3>1. completed'[values[e]] = completed[b] + 1 /\ Cardinality(Busy(e)') = Cardinality(Busy(e)) - 1
        BY <1>4, <1>7, <1>11, <2>3
      <3>2. Cardinality(Busy(e)) \in Nat
        BY BusyIs
      <3> QED BY <1>6, <3>1, <3>2, BlockSizes
    <2>5. /\ Entries' = Entries /\ (\A f : Valid(f)' <=> Valid(f)) /\ Nth(Top)' = Nth(Top)
          /\ \A k : Unclaimed(k)' = Unclaimed(k)
      BY <1>2, <1>15 DEF Entries, Valid, Nth, Unclaimed
    <2>6. ASSUME NEW f \in Entries, values[f] # None
          PROVE  /\ Valid(f) /\ keys[f] <= Nth(Top)
                 /\ completed'[values[f]] + Unclaimed(keys[f]) + Cardinality(Busy(f)') = BLOCK_SIZE
      <3>1. /\ Valid(f) /\ keys[f] <= Nth(Top)
            /\ completed[values[f]] + Unclaimed(keys[f]) + Cardinality(Busy(f)) = BLOCK_SIZE
        BY <1>1, <2>6 DEF HeldOK, LinkedOK
      <3>2. CASE f = e
        BY <2>4, <3>1, <3>2
      <3>3. CASE f # e
        <4>1. Busy(f)' = Busy(f) /\ completed'[values[f]] = completed[values[f]]
          BY <2>2, <2>6, <3>3
        <4> QED BY <3>1, <4>1
      <3> QED BY <3>2, <3>3
    <2> QED BY <1>2, <2>5, <2>6 DEF LinkedOK
  <1>20. PlacesOK'
    <2>1. \A a \in Blocks : InHand(a)' <=> InHand(a)
      BY <1>2 DEF InHand
    <2>2. \A d \in Consumers : (pc'[d] = "release" <=> pc[d] = "release") /\ (pc[d] = "release" => block'[d] = block[d])
      BY <1>2, <1>10
    <2> QED BY <1>1, <1>2, <2>1, <2>2, PlacesKept DEF HeldOK
  <1>21. HeldOK'
    BY <1>17, <1>18, <1>19, <1>20 DEF HeldOK
  <1> QED BY <1>12, <1>13, <1>14, <1>15, <1>21, InvariantParts, PTL

(* A block that holds indexes not yet claimed is not empty. *)
LEMMA UnclaimedLeft ==
  ASSUME NEW x \in Int, headIndex \in Nat, headIndex <= x
  PROVE  Unclaimed(Base(x)) # 0
  <1>1. x = Base(x) + (x % BLOCK_SIZE) /\ x % BLOCK_SIZE \in 0 .. BLOCK_SIZE - 1
        /\ Base(x) = Nth(x \div BLOCK_SIZE) /\ x \div BLOCK_SIZE \in Int
    BY BaseIs
  <1>2. Base(x) \in Int
    BY <1>1, NthIs
  <1> HIDE DEF Base
  <1>3. headIndex < Base(x) + BLOCK_SIZE
    BY <1>1, <1>2, BlockSizes
  <1> QED BY <1>2, <1>3, BlockSizes DEF Unclaimed

(* Unlink: the block leaves the index, and only this consumer has it. *)
LEMMA UnlinkStep ==
  ASSUME IInv, NEW c \in Consumers, Unlink(c)
  PROVE  IInv'
  <1>1. CountTypeOK /\ PoolTypeOK /\ FindTypeOK /\ CountersOK /\ StoreOK /\ HeldOK
    BY InvariantParts
  <1>2. /\ UNCHANGED <<counters, counting, excused, headers, keys, cells, completed, unused, free,
                       step, idxEntry, tailBlock, tailIndex, headIndex, header, slot, index, block, answer>>
        /\ pc[c] = "unlink"
    BY DEF Unlink, counters, memory, producer
  <1>3. PICK b \in Blocks, e \in Entries : /\ b = block[c] /\ e = entry[c] /\ values[e] = b
                                           /\ index[c] = None /\ completed[b] = BLOCK_SIZE
    BY <1>1, <1>2 DEF HeldOK, FindersOK, FinderOK, HasClaim
  <1>4. /\ values' = [values EXCEPT ![e] = None] /\ entry' = [entry EXCEPT ![c] = 0]
        /\ pc' = [pc EXCEPT ![c] = "release"]
    BY <1>3 DEF Unlink, Goto, Set
  <1>5. values[e] # None
    BY <1>3, NoneIs
  <1>6. /\ Unclaimed(keys[e]) \in Nat
        /\ BLOCK_SIZE + Unclaimed(keys[e]) + Cardinality(Busy(e)) = BLOCK_SIZE
        /\ \A f \in Entries : values[f] = b => f = e
        /\ ~Idle(b) /\ ~InHand(b) /\ \A d \in Consumers : ~Leaves(d, b)
    BY <1>1, <1>3, <1>5, LinkedIs
  <1>7. Unclaimed(keys[e]) = 0 /\ Busy(e) = {}
    <2>1. Cardinality(Busy(e)) \in Nat /\ IsFiniteSet(Busy(e))
      BY BusyIs
    <2>2. Unclaimed(keys[e]) = 0 /\ Cardinality(Busy(e)) = 0
      BY <1>6, <2>1, BlockSizes
    <2> QED BY <2>1, <2>2, FS_EmptySet
  <1>8. /\ pc' \in [Consumers -> Points] /\ entry' \in [Consumers -> Entries \cup {0}]
        /\ values' \in [Entries -> Blocks \cup {None}] /\ DOMAIN values' = DOMAIN values
    BY <1>1, <1>3, <1>4 DEF CountTypeOK, FindTypeOK, PoolTypeOK, LookupTypeOK, Points
  <1>9. /\ \A d \in Consumers : d # c => pc'[d] = pc[d] /\ entry'[d] = entry[d]
        /\ pc'[c] = "release"
        /\ values'[e] = None /\ \A f \in Entries : f # e => values'[f] = values[f]
    BY <1>1, <1>3, <1>4 DEF CountTypeOK, FindTypeOK, PoolTypeOK, LookupTypeOK
  <1>10. CountTypeOK' /\ CountersOK'
    BY <1>1, <1>2, <1>8, <1>9, LeavingCounts
  <1>11. PoolTypeOK'
    BY <1>1, <1>2, <1>8 DEF PoolTypeOK, LookupTypeOK, MemoryTypeOK, StepTypeOK, Entries, Capacity
  <1>12. FindTypeOK'
    BY <1>1, <1>2, <1>8 DEF FindTypeOK, Entries
  (* Nobody is owed an element of the block. *)
  <1>13. \A x \in 0 .. MaxElems : Owed(x) => Base(x) # keys[e]
    <2> SUFFICES ASSUME NEW x \in 0 .. MaxElems, Owed(x), Base(x) = keys[e] PROVE FALSE
      OBVIOUS
    <2>1. x \in Int /\ headIndex \in Nat
      BY <1>1, CountsAre
    <2>2. CASE headIndex <= x
      BY <1>7, <2>1, <2>2, UnclaimedLeft
    <2>3. CASE \E d \in Consumers : index[d] = x
      <3>1. x # None
        BY <2>1, NoneIs
      <3> QED BY <1>7, <2>3, <3>1 DEF Busy
    <2> QED BY <2>2, <2>3 DEF Owed
  <1>14. StoreOK' /\ Top' = Top
    <2>1. \A f \in Entries : keys[f] = Base(tailIndex) => f # e
      <3>1. tailIndex \in Int /\ headIndex \in Nat /\ headIndex <= tailIndex
        BY <1>1, CountsAre
      <3>2. Unclaimed(Base(tailIndex)) # 0
        BY <3>1, UnclaimedLeft
      <3> QED BY <3>2, <1>7
    <2>2. \A f \in Entries : values[f] = None => values'[f] = None
      BY <1>9
    <2>3. \A f \in Entries : values[f] = tailBlock /\ keys[f] = Base(tailIndex) => values'[f] = tailBlock
      BY <1>9, <2>1
    <2> QED BY <1>1, <1>2, <1>8, <2>2, <2>3, StepKept
  <1>15. FindersOK'
    <2>1. ASSUME NEW d \in Consumers, d # c PROVE FinderOK(d)'
      <3>1. FinderOK(d) /\ LookupTypeOK /\ (HasClaim(d) => index[d] < headIndex)
        BY <1>1 DEF HeldOK, FindersOK, FinderOK, PoolTypeOK
      <3>2. pc[d] \in {"load slot", "find entry"} => header[d] \in DOMAIN headers
        BY <3>1 DEF FinderOK
      <3>3. Entries' = Entries /\ \A f : Valid(f)' <=> Valid(f)
        BY <1>2 DEF Entries, Valid
      <3>4. pc[d] \in {"move", "set empty", "unlink"} => entry[d] \in Entries /\ entry[d] # e
        <4>1. d \notin Busy(e)
          BY <1>7
        <4>2. pc[d] = "unlink" => block[d] # b
          BY <1>1, <1>2, <1>3, <2>1 DEF HeldOK, FindersOK
        <4> QED BY <1>3, <3>1, <4>1, <4>2 DEF FinderOK, Busy, HasClaim
      <3> QED BY <1>2, <1>9, <2>1, <3>1, <3>2, <3>3, <3>4, FinderKept
    <2>2. FinderOK(c)'
      BY <1>2, <1>3, <1>9 DEF FinderOK, HasClaim
    <2>3. \A d \in Consumers : HasClaim(d)' <=> HasClaim(d)
      BY <1>2, <1>9 DEF HasClaim
    <2>4. \A d, f \in Consumers : (HasClaim(d) /\ index[d] = index[f])' => d = f
      BY <1>1, <1>2, <2>3 DEF HeldOK, FindersOK
    <2>5. \A d \in Consumers : pc'[d] = "unlink" => pc[d] = "unlink"
      BY <1>2, <1>9
    <2>6. \A d, f \in Consumers : (pc[d] = "unlink" /\ pc[f] = "unlink" /\ block[d] = block[f])' => d = f
      BY <1>1, <1>2, <2>5 DEF HeldOK, FindersOK
    <2> QED BY <2>1, <2>2, <2>4, <2>6 DEF FindersOK
  <1>16. ElementsOK'
    <2> SUFFICES ASSUME NEW x \in 0 .. MaxElems, Owed(x)' PROVE Kept(x)'
      BY DEF ElementsOK
    <2>1. Owed(x)
      BY <1>2 DEF Owed
    <2>2. PICK f \in Entries : /\ keys[f] = Base(x) /\ values[f] # None
                               /\ cells[values[f]][x % BLOCK_SIZE] = x
      BY <1>1, <2>1 DEF HeldOK, ElementsOK, Kept
    <2>3. f # e
      BY <1>13, <2>1, <2>2
    <2> QED BY <1>2, <1>9, <2>2, <2>3 DEF Kept, Entries
  <1>17. LinkedOK'
    <2>1. \A f : Busy(f)' = Busy(f)
      <3>1. \A d : Base(index[d])' = Base(index[d])
        BY <1>2 DEF Base
      <3>2. \A f : \A d \in Consumers : (pc'[d] = "set empty" /\ entry'[d] = f) <=> (pc[d] = "set empty" /\ entry[d] = f)
        BY <1>2, <1>9
      <3>3. UNCHANGED <<keys, index>>
        BY <1>2
      <3> QED BY <3>1, <3>2, <3>3 DEF Busy
    <2>2. /\ Entries' = Entries /\ (\A f : Valid(f)' <=> Valid(f)) /\ Nth(Top)' = Nth(Top)
          /\ \A k : Unclaimed(k)' = Unclaimed(k)
      BY <1>2, <1>14 DEF Entries, Valid, Nth, Unclaimed
    <2>3. \A f \in Entries : values'[f] # None => values'[f] = values[f]
      BY <1>9
    <2> QED BY <1>1, <1>2, <2>1, <2>2, <2>3 DEF HeldOK, LinkedOK
  <1>18. PlacesOK'
    <2> SUFFICES ASSUME NEW a \in Blocks PROVE PlaceOK(a)'
      BY DEF PlacesOK
    <2>1. /\ Entries' = Entries /\ (Idle(a)' <=> Idle(a)) /\ (InHand(a)' <=> InHand(a))
          /\ a # None
      BY <1>2, NoneIs DEF Entries, Idle, InHand
    <2>2. \A d \in Consumers : d # c => (Leaves(d, a)' <=> Leaves(d, a))
      BY <1>2, <1>9 DEF Leaves
    <2>3. ~Leaves(c, a) /\ (Leaves(c, a)' <=> a = b)
      BY <1>2, <1>3, <1>9 DEF Leaves
    <2>4. PlaceOK(a)
      BY <1>1 DEF HeldOK, PlacesOK
    <2>5. CASE a = b
      <3>1. \A f \in Entries : values'[f] # b
        BY <1>6, <1>9, <2>1, <2>5
      <3>2. \A d \in Consumers : Leaves(d, a)' <=> d = c
        BY <1>6, <2>2, <2>3, <2>5
      <3>3. ~Idle(a)' /\ ~InHand(a)' /\ ~(a \in unused' /\ a \in free')
        BY <1>2, <1>6, <2>1, <2>4, <2>5 DEF PlaceOK
      <3> QED BY <2>1, <2>5, <3>1, <3>2, <3>3 DEF PlaceOK
    <2>6. CASE a # b
      <3>1. \A f \in Entries : values'[f] = a <=> values[f] = a
        BY <1>3, <1>9, <2>1, <2>6
      <3>2. \A d \in Consumers : Leaves(d, a)' <=> Leaves(d, a)
        BY <2>2, <2>3, <2>6
      <3>3. UNCHANGED <<unused, free>>
        BY <1>2
      <3> QED BY <2>1, <2>4, <3>1, <3>2, <3>3 DEF PlaceOK
    <2> QED BY <2>5, <2>6
  <1>19. HeldOK'
    BY <1>15, <1>16, <1>17, <1>18 DEF HeldOK
  <1> QED BY <1>10, <1>11, <1>12, <1>14, <1>19, InvariantParts, PTL

(* Release: the block returns to the free list. *)
LEMMA ReleaseStep ==
  ASSUME IInv, NEW c \in Consumers, Release(c)
  PROVE  IInv'
  <1>1. CountTypeOK /\ PoolTypeOK /\ FindTypeOK /\ CountersOK /\ StoreOK /\ HeldOK
    BY InvariantParts
  <1>2. /\ UNCHANGED <<counters, counting, excused, headers, keys, values, cells, completed, unused,
                       step, idxEntry, tailBlock, tailIndex, headIndex, header, slot, index, entry, answer>>
        /\ pc[c] = "release"
    BY DEF Release, counters, lookup, producer
  <1>3. PICK b \in Blocks : b = block[c] /\ index[c] = None
    BY <1>1, <1>2 DEF HeldOK, FindersOK, FinderOK, HasClaim
  <1>4. /\ free' = free \cup {b} /\ block' = [block EXCEPT ![c] = None]
        /\ pc' = [pc EXCEPT ![c] = "idle"]
    BY <1>3 DEF Release, Goto, Set
  <1>5. pc' \in [Consumers -> Points] /\ block' \in [Consumers -> Blocks \cup {None}]
    BY <1>1, <1>4 DEF CountTypeOK, FindTypeOK, Points
  <1>6. /\ \A d \in Consumers : d # c => pc'[d] = pc[d] /\ block'[d] = block[d]
        /\ pc'[c] = "idle"
    BY <1>1, <1>4 DEF CountTypeOK, FindTypeOK
  <1>7. CountTypeOK' /\ CountersOK'
    BY <1>1, <1>2, <1>5, <1>6, LeavingCounts
  <1>8. PoolTypeOK'
    <2>1. free' \subseteq Blocks
      BY <1>1, <1>4 DEF PoolTypeOK, MemoryTypeOK
    <2> QED BY <1>1, <1>2, <2>1 DEF PoolTypeOK, LookupTypeOK, MemoryTypeOK, StepTypeOK, Entries, Capacity
  <1>9. FindTypeOK'
    BY <1>1, <1>2, <1>5 DEF FindTypeOK, Entries
  <1>10. StoreOK' /\ Top' = Top
    BY <1>1, <1>2, StepKept
  <1>11. FindersOK'
    <2>1. ASSUME NEW d \in Consumers, d # c PROVE FinderOK(d)'
      <3>1. FinderOK(d) /\ LookupTypeOK /\ (HasClaim(d) => index[d] < headIndex)
        BY <1>1 DEF HeldOK, FindersOK, FinderOK, PoolTypeOK
      <3>2. pc[d] \in {"load slot", "find entry"} => header[d] \in DOMAIN headers
        BY <3>1 DEF FinderOK
      <3>3. Entries' = Entries /\ \A f : Valid(f)' <=> Valid(f)
        BY <1>2 DEF Entries, Valid
      <3> QED BY <1>2, <1>6, <2>1, <3>1, <3>2, <3>3, FinderKept
    <2>2. FinderOK(c)'
      BY <1>2, <1>3, <1>6 DEF FinderOK, HasClaim
    <2>3. \A d \in Consumers : HasClaim(d)' <=> HasClaim(d)
      BY <1>2, <1>6 DEF HasClaim
    <2>4. \A d, f \in Consumers : (HasClaim(d) /\ index[d] = index[f])' => d = f
      BY <1>1, <1>2, <2>3 DEF HeldOK, FindersOK
    <2>5. \A d \in Consumers : pc'[d] = "unlink" => pc[d] = "unlink" /\ block'[d] = block[d]
      BY <1>2, <1>6
    <2>6. \A d, f \in Consumers : (pc[d] = "unlink" /\ pc[f] = "unlink" /\ block[d] = block[f])' => d = f
      BY <1>1, <1>2, <2>5 DEF HeldOK, FindersOK
    <2> QED BY <2>1, <2>2, <2>4, <2>6 DEF FindersOK
  <1>12. ElementsOK'
    BY <1>1, <1>2, ElementsKept DEF HeldOK
  <1>13. LinkedOK'
    <2>1. \A d \in Consumers : pc'[d] = "set empty" <=> pc[d] = "set empty"
      BY <1>2, <1>6
    <2> QED BY <1>1, <1>2, <1>10, <2>1, LinkedKept DEF HeldOK
  <1>14. PlacesOK'
    <2> SUFFICES ASSUME NEW a \in Blocks PROVE PlaceOK(a)'
      BY DEF PlacesOK
    <2>1. Entries' = Entries /\ (InHand(a)' <=> InHand(a)) /\ UNCHANGED <<values, unused>>
      BY <1>2 DEF Entries, InHand
    <2>2. \A d \in Consumers : d # c => (Leaves(d, a)' <=> Leaves(d, a))
      BY <1>6 DEF Leaves
    <2>3. ~Leaves(c, a)' /\ (Leaves(c, a) <=> a = b)
      BY <1>2, <1>3, <1>6 DEF Leaves
    <2>4. PlaceOK(a)
      BY <1>1 DEF HeldOK, PlacesOK
    <2>5. a \in free' <=> a \in free \/ a = b
      BY <1>4
    <2>6. CASE a = b
      <3>1. Leaves(c, a)
        BY <2>3, <2>6
      <3>2. a \notin unused /\ ~InHand(a) /\ (\A f \in Entries : values[f] # a)
            /\ \A d \in Consumers : Leaves(d, a) => d = c
        BY <2>4, <3>1 DEF PlaceOK, Idle
      <3>3. \A d \in Consumers : ~Leaves(d, a)'
        BY <2>2, <2>3, <3>2
      <3> QED BY <2>1, <2>5, <2>6, <3>2, <3>3 DEF PlaceOK, Idle
    <2>7. CASE a # b
      <3>1. \A d \in Consumers : Leaves(d, a)' <=> Leaves(d, a)
        BY <2>2, <2>3, <2>7
      <3>2. (Idle(a)' <=> Idle(a)) /\ (a \in free' <=> a \in free)
        BY <2>1, <2>5, <2>7 DEF Idle
      <3> QED BY <2>1, <2>4, <3>1, <3>2 DEF PlaceOK
    <2> QED BY <2>6, <2>7
  <1>15. HeldOK'
    BY <1>11, <1>12, <1>13, <1>14 DEF HeldOK
  <1> QED BY <1>7, <1>8, <1>9, <1>10, <1>15, InvariantParts, PTL

-----------------------------------------------------------------------------
(* The producer's steps *)

(* The producer leaves the counters alone, or publishes an element. *)
LEMMA ProduceCounts ==
  ASSUME CountTypeOK, CountersOK, UNCHANGED consumer,
         UNCHANGED <<headIndex, dequeueOptimisticCount, dequeueOvercommit>>,
         \/ tailIndex' = tailIndex
         \/ tailIndex' = tailIndex + 1 /\ tailIndex < MaxElems
  PROVE  CountTypeOK' /\ CountersOK'
  <1>1. UNCHANGED <<pc, tail, overcommit, myCount, excused>>
    BY DEF consumer, counting
  <1>2. tailIndex \in 0 .. MaxElems /\ tailIndex \in Nat /\ headIndex \in 0 .. tailIndex /\ MaxElems \in Nat
    BY ImplicitProducerAssumption DEF CountTypeOK
  <1>3. tailIndex' \in 0 .. MaxElems /\ tailIndex' \in Nat /\ tailIndex <= tailIndex' /\ headIndex \in 0 .. tailIndex'
    BY <1>2
  <1>4. CountTypeOK'
    BY <1>1, <1>3 DEF CountTypeOK
  <1>5. Asking' \subseteq Asking
    BY <1>1 DEF Asking
  <1>6. CountersOK'
    BY <1>1, <1>3, <1>5, CountersKept DEF counting
  <1> QED BY <1>4, <1>6

(* What the consumers hold stays of its kind when the index grows or stays. *)
LEMMA FindTypeKept ==
  ASSUME FindTypeOK, UNCHANGED consumer, Entries \subseteq Entries',
         Len(headers) \in Nat, Len(headers') \in Nat, Len(headers) <= Len(headers')
  PROVE  FindTypeOK'
  <1>1. UNCHANGED <<index, header, slot, entry, block, answer>>
    BY DEF consumer, finding
  <1>2. 0 .. Len(headers) \subseteq 0 .. Len(headers')
    OBVIOUS
  <1>3. header' \in [Consumers -> 0 .. Len(headers')]
    BY <1>1, <1>2 DEF FindTypeOK
  <1>4. entry' \in [Consumers -> Entries' \cup {0}]
    BY <1>1 DEF FindTypeOK
  <1> QED BY <1>1, <1>3, <1>4 DEF FindTypeOK

(* Every consumer still finds its element when its entry keeps its key. *)
LEMMA FindersKept ==
  ASSUME FindersOK, LookupTypeOK, UNCHANGED consumer, headIndex' = headIndex,
         \A n \in DOMAIN headers : n \in DOMAIN headers' /\ headers'[n].index = headers[n].index,
         \A e \in Entries : e \in Entries' /\ (Valid(e) => Valid(e)'),
         \A c \in Consumers, e \in Entries : HasClaim(c) /\ keys[e] = Base(index[c]) => keys'[e] = keys[e],
         \A e \in Entries : values[e] # None => values'[e] = values[e],
         \A c \in Consumers : pc[c] = "unlink" => completed'[block[c]] = completed[block[c]]
  PROVE  FindersOK'
  <1>1. UNCHANGED <<pc, index, header, slot, entry, block>>
    BY DEF consumer, finding
  <1>2. ASSUME NEW c \in Consumers PROVE FinderOK(c)'
    <2>1. FinderOK(c)
      BY DEF FindersOK
    <2>2. /\ HasClaim(c) => index[c] < headIndex
          /\ pc[c] \in {"load slot", "find entry"} => header[c] \in DOMAIN headers
          /\ pc[c] \in {"move", "set empty", "unlink"} =>
               block[c] \in Blocks /\ entry[c] \in Entries /\ values[entry[c]] = block[c]
      BY <2>1 DEF FinderOK
    <2>3. pc[c] \in {"move", "set empty", "unlink"} => values'[entry[c]] = values[entry[c]]
      <3>1. block[c] \in Blocks => block[c] # None
        BY NoneIs
      <3> QED BY <2>2, <3>1
    <2> QED BY <1>1, <2>1, <2>2, <2>3, FinderKept
  <1>3. \A c \in Consumers : HasClaim(c)' <=> HasClaim(c)
    BY <1>1 DEF HasClaim
  <1> QED BY <1>1, <1>2, <1>3 DEF FindersOK

(* A step of the producer that writes nothing the consumers read. *)
LEMMA QuietProduce ==
  ASSUME IInv, UNCHANGED <<counters, lookup, memory, tailBlock, consumer>>,
         step # "store value", step' # "store value", step' \in Steps, idxEntry' \in Entries \cup {0},
         step' \in {"find block", "rewind"} => step \in {"find block", "rewind"},
         Top' = Top, StepOK'
  PROVE  IInv'
  <1>1. CountTypeOK /\ PoolTypeOK /\ FindTypeOK /\ CountersOK /\ StoreOK /\ HeldOK
    BY InvariantParts
  <1>2. UNCHANGED <<tailIndex, headIndex, dequeueOptimisticCount, dequeueOvercommit, headers, keys, values,
                    cells, completed, unused, free, pc, index, header, slot, entry, block>>
    BY DEF counters, lookup, memory, consumer, finding
  <1>3. CountTypeOK' /\ CountersOK'
    BY <1>1, <1>2, ProduceCounts
  <1>4. Entries' = Entries
    BY <1>2 DEF Entries
  <1>5. PoolTypeOK'
    <2>1. LookupTypeOK' /\ MemoryTypeOK'
      BY <1>1, <1>2, <1>4 DEF PoolTypeOK, LookupTypeOK, MemoryTypeOK, Capacity
    <2>2. StepTypeOK'
      BY <1>1, <1>4 DEF PoolTypeOK, StepTypeOK
    <2> QED BY <2>1, <2>2 DEF PoolTypeOK
  <1>6. FindTypeOK'
    <2>1. UNCHANGED <<index, header, slot, entry, block, answer>>
      BY DEF consumer, finding
    <2> QED BY <1>1, <1>2, <1>4, <2>1 DEF FindTypeOK
  <1>7. StoreOK'
    <2>1. IndexesOK' /\ RingOK' /\ TailsOK'
      <3>1. DOMAIN values' = DOMAIN values
        BY <1>2
      <3> QED BY <1>1, <1>2, <3>1, IndexStays DEF StoreOK
    <2> QED BY <2>1 DEF StoreOK
  <1>8. HeldOK'
    <2>1. FindersOK'
      <3>1. \A e : Valid(e)' <=> Valid(e)
        BY <1>2 DEF Valid
      <3> QED BY <1>1, <1>2, <1>4, <3>1, FindersKept DEF HeldOK, PoolTypeOK
    <2>2. ElementsOK'
      BY <1>1, <1>2, ElementsKept DEF HeldOK
    <2>3. LinkedOK'
      BY <1>1, <1>2, LinkedKept DEF HeldOK
    <2>4. PlacesOK'
      <3>1. \A b \in Blocks : InHand(b)' <=> InHand(b)
        BY DEF InHand
      <3> QED BY <1>1, <1>2, <3>1, PlacesKept DEF HeldOK
    <2> QED BY <2>1, <2>2, <2>3, <2>4 DEF HeldOK
  <1> QED BY <1>3, <1>5, <1>6, <1>7, <1>8, InvariantParts, PTL

(* Enqueue: the producer goes on in its block, or needs another. *)
LEMMA EnqueueStep ==
  ASSUME IInv, Enqueue
  PROVE  IInv'
  <1>1. CountTypeOK /\ PoolTypeOK /\ FindTypeOK /\ CountersOK /\ StoreOK /\ HeldOK
    BY InvariantParts
  <1>2. /\ UNCHANGED <<counters, lookup, memory, idxEntry, tailBlock, consumer>>
        /\ step = "idle" /\ tailIndex < MaxElems
        /\ step' = IF tailIndex % BLOCK_SIZE = 0 THEN "find entry" ELSE "write"
    BY DEF Enqueue
  <1>3. UNCHANGED <<tailIndex, keys, values>>
    BY <1>2 DEF counters, lookup
  <1>4. Top' = Top
    <2>1. tailIndex \in Int
      BY <1>1, CountsAre
    <2>2. tailIndex % BLOCK_SIZE # 0 => (tailIndex - 1) \div BLOCK_SIZE = tailIndex \div BLOCK_SIZE
      BY <2>1, BaseIs
    <2> QED BY <1>2, <1>3, <2>2 DEF Top
  <1>5. StepOK'
    <2>1. tailIndex % BLOCK_SIZE # 0 => /\ tailBlock \in Blocks
                                        /\ \E e \in Entries : keys[e] = Base(tailIndex) /\ values[e] = tailBlock
      BY <1>1, <1>2 DEF StoreOK, StepOK, InBlock
    <2>2. Base(tailIndex)' = Base(tailIndex) /\ Entries' = Entries
      BY <1>3 DEF Base, Entries
    <2>3. CASE tailIndex % BLOCK_SIZE = 0
      BY <1>2, <1>3, <2>3 DEF StepOK, InBlock
    <2>4. CASE tailIndex % BLOCK_SIZE # 0
      BY <1>2, <1>3, <2>1, <2>2, <2>4 DEF StepOK, InBlock
    <2> QED BY <2>3, <2>4
  <1>6. idxEntry' \in Entries \cup {0}
    BY <1>1, <1>2 DEF PoolTypeOK, StepTypeOK
  <1> QED BY <1>2, <1>4, <1>5, <1>6, QuietProduce DEF Steps

(* FindEntry: the entry behind the tail is free, or the index is full. *)
LEMMA FindEntryStep ==
  ASSUME IInv, FindEntry
  PROVE  IInv'
  <1> DEFINE e == Place(NextPlace)
  <1>1. CountTypeOK /\ PoolTypeOK /\ FindTypeOK /\ CountersOK /\ StoreOK /\ HeldOK
    BY InvariantParts
  <1>2. /\ UNCHANGED <<counters, lookup, memory, tailBlock, consumer>>
        /\ step = "find entry"
        /\ IF EntryFree(e) THEN step' = "store key" /\ idxEntry' = e
                           ELSE step' = "grow" /\ UNCHANGED idxEntry
    BY DEF FindEntry, Place, NextPlace
  <1>3. UNCHANGED <<tailIndex, headers, keys, values>>
    BY <1>2 DEF counters, lookup
  <1>4. Top' = Top
    BY <1>2, <1>3 DEF Top
  <1>5. e \in Entries
    BY <1>1, IndexIs, AgeIs DEF StoreOK
  <1>6. Place(NextPlace)' = e /\ (Valid(e)' <=> Valid(e)) /\ Nth(Top)' = Nth(Top)
    BY <1>3, <1>4 DEF Place, NextPlace, NextSlot, Current, blockIndex, Capacity, Valid, Nth
  <1>7. values[e] # None => Valid(e) /\ keys[e] <= Nth(Top)
    BY <1>1, <1>5 DEF HeldOK, LinkedOK
  <1>8. tailIndex % BLOCK_SIZE = 0 /\ tailIndex < MaxElems
    BY <1>1, <1>2 DEF StoreOK, StepOK
  <1> HIDE DEF e
  <1>9. StepOK'
    <2>1. CASE EntryFree(e)
      <3>1. values[e] = None
        BY <1>7, <2>1 DEF EntryFree, Valid
      <3> QED BY <1>2, <1>3, <1>6, <1>8, <2>1, <3>1 DEF StepOK, InBlock
    <2>2. CASE ~EntryFree(e)
      <3>1. Valid(Place(NextPlace))' /\ keys'[Place(NextPlace)'] <= Nth(Top)'
        BY <1>3, <1>6, <1>7, <2>2 DEF EntryFree, Valid
      <3> QED BY <1>2, <1>3, <1>8, <2>2, <3>1 DEF StepOK, InBlock
    <2> QED BY <2>1, <2>2
  <1>10. idxEntry' \in Entries \cup {0}
    BY <1>1, <1>2, <1>5 DEF PoolTypeOK, StepTypeOK
  <1>11. step' \in {"store key", "grow"}
    BY <1>2
  <1> QED BY <1>2, <1>4, <1>9, <1>10, <1>11, QuietProduce DEF Steps

(* NoBlockIndex: nothing was changed yet. *)
LEMMA NoBlockIndexStep ==
  ASSUME IInv, NoBlockIndex
  PROVE  IInv'
  <1>1. CountTypeOK /\ PoolTypeOK /\ FindTypeOK /\ CountersOK /\ StoreOK /\ HeldOK
    BY InvariantParts
  <1>2. /\ UNCHANGED <<counters, lookup, memory, idxEntry, tailBlock, consumer>>
        /\ step = "grow" /\ step' = "idle"
    BY DEF NoBlockIndex
  <1>3. tailIndex' = tailIndex
    BY <1>2 DEF counters
  <1>4. Top' = Top
    BY <1>2, <1>3 DEF Top
  <1>5. tailIndex % BLOCK_SIZE = 0
    BY <1>1, <1>2 DEF StoreOK, StepOK
  <1>6. StepOK'
    BY <1>2, <1>3, <1>5 DEF StepOK, InBlock
  <1>7. idxEntry' \in Entries \cup {0}
    BY <1>1, <1>2 DEF PoolTypeOK, StepTypeOK
  <1> QED BY <1>2, <1>4, <1>6, <1>7, QuietProduce DEF Steps

(* NoBlock: the entry is to be taken back. *)
LEMMA NoBlockStep ==
  ASSUME IInv, NoBlock
  PROVE  IInv'
  <1>1. CountTypeOK /\ PoolTypeOK /\ FindTypeOK /\ CountersOK /\ StoreOK /\ HeldOK
    BY InvariantParts
  <1>2. /\ UNCHANGED <<counters, lookup, memory, idxEntry, tailBlock, consumer>>
        /\ step = "find block" /\ step' = "rewind"
    BY DEF NoBlock
  <1>3. UNCHANGED <<tailIndex, headers, keys, values>>
    BY <1>2 DEF counters, lookup
  <1>4. Top' = Top
    BY <1>2, <1>3 DEF Top
  <1>5. Place(TailPlace)' = Place(TailPlace)
    BY <1>3 DEF Place, TailPlace, Current, blockIndex
  <1>6. StepOK'
    <2>1. /\ tailIndex % BLOCK_SIZE = 0 /\ tailIndex < MaxElems
          /\ idxEntry = Place(TailPlace) /\ values[idxEntry] = None /\ keys[idxEntry] = tailIndex
      BY <1>1, <1>2 DEF StoreOK, StepOK
    <2> QED BY <1>2, <1>3, <1>5, <2>1 DEF StepOK, InBlock
  <1>7. idxEntry' \in Entries \cup {0}
    BY <1>1, <1>2 DEF PoolTypeOK, StepTypeOK
  <1> QED BY <1>2, <1>4, <1>6, <1>7, QuietProduce DEF Steps

(* ClearValue: the entry taken back is empty, behind the tail. *)
LEMMA ClearValueStep ==
  ASSUME IInv, ClearValue
  PROVE  IInv'
  <1>1. CountTypeOK /\ PoolTypeOK /\ FindTypeOK /\ CountersOK /\ StoreOK /\ HeldOK
    BY InvariantParts
  <1>2. /\ UNCHANGED <<counters, headers, keys, memory, idxEntry, tailBlock, consumer>>
        /\ step = "clear value" /\ step' = "idle"
    BY DEF ClearValue
  <1>3. tailIndex % BLOCK_SIZE = 0 /\ values[idxEntry] = None
    BY <1>1, <1>2 DEF StoreOK, StepOK
  <1>4. values' = values
    <2>1. values' = [values EXCEPT ![idxEntry] = None]
      BY DEF ClearValue
    <2>2. values \in [Entries -> Blocks \cup {None}]
      BY <1>1 DEF PoolTypeOK, LookupTypeOK
    <2> QED BY <1>3, <2>1, <2>2
  <1>5. UNCHANGED lookup /\ tailIndex' = tailIndex
    BY <1>2, <1>4 DEF lookup, counters
  <1>6. Top' = Top
    BY <1>2, <1>5 DEF Top
  <1>7. StepOK'
    BY <1>2, <1>3, <1>5 DEF StepOK, InBlock
  <1>8. idxEntry' \in Entries \cup {0}
    BY <1>1, <1>2 DEF PoolTypeOK, StepTypeOK
  <1> QED BY <1>2, <1>5, <1>6, <1>7, <1>8, QuietProduce DEF Steps

(* Publish: the element written can be claimed, and is there. *)
LEMMA PublishStep ==
  ASSUME IInv, Publish
  PROVE  IInv'
  <1>1. CountTypeOK /\ PoolTypeOK /\ FindTypeOK /\ CountersOK /\ StoreOK /\ HeldOK
    BY InvariantParts
  <1>2. /\ UNCHANGED <<headIndex, dequeueOptimisticCount, dequeueOvercommit, headers, keys, values,
                       cells, completed, unused, free, idxEntry, tailBlock, consumer>>
        /\ step = "publish" /\ step' = "idle" /\ tailIndex' = tailIndex + 1
    BY DEF Publish, lookup, memory
  <1>3. UNCHANGED <<pc, index, header, slot, entry, block, answer>>
    BY <1>2 DEF consumer, finding
  <1>4. /\ tailIndex < MaxElems /\ tailBlock \in Blocks
        /\ cells[tailBlock][tailIndex % BLOCK_SIZE] = tailIndex
        /\ \E e \in Entries : keys[e] = Base(tailIndex) /\ values[e] = tailBlock
    BY <1>1, <1>2 DEF StoreOK, StepOK, InBlock
  <1>5. tailIndex \in Nat /\ MaxElems \in Nat
    BY <1>1, CountsAre, ImplicitProducerAssumption
  <1>6. CountTypeOK' /\ CountersOK'
    BY <1>1, <1>2, <1>4, ProduceCounts
  <1>7. Entries' = Entries /\ \A e : Valid(e)' <=> Valid(e)
    BY <1>2 DEF Entries, Valid
  <1>8. PoolTypeOK' /\ FindTypeOK'
    <2>1. LookupTypeOK' /\ MemoryTypeOK'
      BY <1>1, <1>2, <1>7 DEF PoolTypeOK, LookupTypeOK, MemoryTypeOK, Capacity
    <2>2. StepTypeOK'
      BY <1>1, <1>2, <1>7 DEF PoolTypeOK, StepTypeOK, Steps
    <2>3. FindTypeOK'
      BY <1>1, <1>2, <1>3, <1>7 DEF FindTypeOK
    <2> QED BY <2>1, <2>2, <2>3 DEF PoolTypeOK
  <1>9. Top = tailIndex \div BLOCK_SIZE /\ Top' = Top
    <2>1. tailIndex' - 1 = tailIndex
      BY <1>2, <1>5
    <2>2. Top = tailIndex \div BLOCK_SIZE
      BY <1>2 DEF Top
    <2>3. Top' = (tailIndex' - 1) \div BLOCK_SIZE
      BY <1>2 DEF Top
    <2> QED BY <2>1, <2>2, <2>3
  <1>10. StoreOK'
    <2>1. /\ blockIndex' = blockIndex /\ Current' = Current /\ Size' = Size
          /\ TailPlace' = TailPlace /\ NextPlace' = NextPlace
          /\ (\A n : Cap(n)' = Cap(n)) /\ (\A p : Place(p)' = Place(p) /\ Age(p)' = Age(p))
      BY <1>2 DEF blockIndex, Current, Size, Cap, TailPlace, NextPlace, NextSlot, Place, Age, Capacity
    <2>2. IndexesOK'
      <3>1. \A n : HeaderOK(n)' <=> HeaderOK(n)
        BY <1>2, HeadersKept
      <3>2. headers' \in Seq({headers'[n] : n \in DOMAIN headers'}) /\ headers' # <<>>
        <4>1. headers \in Seq({headers[n] : n \in DOMAIN headers}) /\ headers # <<>>
          BY <1>1 DEF StoreOK, IndexesOK
        <4>2. headers' = headers
          BY <1>2
        <4> QED BY ONLY <4>1, <4>2
      <3>3. \A n \in DOMAIN headers' : HeaderOK(n)'
        BY <1>1, <1>2, <3>1 DEF StoreOK, IndexesOK
      <3>4. Entries' = 1 .. Size' /\ DOMAIN values' = 1 .. Size'
        BY <1>1, <1>2, <1>7, <2>1 DEF StoreOK, IndexesOK
      <3>5. /\ \A p, q \in 0 .. Size' - 1 : Place(p)' = Place(q)' => p = q
            /\ \A e \in 1 .. Size' : \E p \in 0 .. Size' - 1 : Place(p)' = e
        BY <1>1, <2>1 DEF StoreOK, IndexesOK
      <3> QED BY <3>2, <3>3, <3>4, <3>5 DEF IndexesOK
    <2>3. RingOK'
      <3>1. tailIndex # Nth(Top + 1)
        <4>1. Top \in Int /\ Top + 1 \in Int
          BY <1>5, TopIs
        <4>2. Nth(Top + 1) \div BLOCK_SIZE = Top + 1
          BY <4>1, NthIs
        <4> QED BY <1>9, <4>1, <4>2
      <3>2. \A p \in 0 .. Size - 1 : \/ keys[Place(p)] = INVALID_BLOCK_BASE
                                     \/ keys[Place(p)] = Nth(Top - Age(p))
        BY <1>1, <3>1 DEF StoreOK, RingOK
      <3>3. \A p : Nth(Top - Age(p))' = Nth(Top - Age(p))
        BY <1>9, <2>1 DEF Nth
      <3> QED BY <1>2, <2>1, <3>2, <3>3 DEF RingOK
    <2>4. TailsOK'
      BY <1>1, <1>2, <1>7, <1>9, <2>1 DEF StoreOK, TailsOK
    <2>5. StepOK'
      <3>1. (tailIndex + 1) % BLOCK_SIZE # 0 => Base(tailIndex + 1) = Base(tailIndex)
        BY <1>5, BaseIs
      <3>2. Base(tailIndex)' = Base(tailIndex + 1)
        BY <1>2 DEF Base
      <3>3. InBlock' => /\ tailBlock' \in Blocks
                        /\ \E e \in Entries' : keys'[e] = Base(tailIndex)' /\ values'[e] = tailBlock'
        BY <1>2, <1>4, <1>7, <3>1, <3>2 DEF InBlock
      <3> QED BY <1>2, <3>3 DEF StepOK
    <2> QED BY <2>2, <2>3, <2>4, <2>5 DEF StoreOK
  <1>11. HeldOK'
    <2>1. FindersOK'
      BY <1>1, <1>2, <1>7, FindersKept DEF HeldOK, PoolTypeOK
    <2>2. ElementsOK'
      <3> SUFFICES ASSUME NEW x \in 0 .. MaxElems, Owed(x)' PROVE Kept(x)'
        BY DEF ElementsOK
      <3>1. Kept(x)' <=> Kept(x)
        BY <1>2 DEF Kept, Entries
      <3>2. CASE x = tailIndex
        <4>1. tailBlock # None
          BY <1>4, NoneIs
        <4> QED BY <1>4, <3>1, <3>2, <4>1 DEF Kept
      <3>3. CASE x # tailIndex
        <4>1. x < tailIndex + 1 => x < tailIndex
          BY <1>5, <3>3
        <4>2. Owed(x)
          BY <1>2, <1>3, <4>1 DEF Owed
        <4> QED BY <1>1, <3>1, <4>2 DEF HeldOK, ElementsOK
      <3> QED BY <3>2, <3>3
    <2>3. LinkedOK'
      BY <1>1, <1>2, <1>3, <1>9, LinkedKept DEF HeldOK
    <2>4. PlacesOK'
      <3>1. \A b \in Blocks : InHand(b)' <=> InHand(b)
        BY <1>2 DEF InHand
      <3> QED BY <1>1, <1>2, <1>3, <3>1, PlacesKept DEF HeldOK
    <2> QED BY <2>1, <2>2, <2>3, <2>4 DEF HeldOK
  <1> QED BY <1>6, <1>8, <1>10, <1>11, InvariantParts, PTL

(* Write: the cell belongs to no element that is owed. *)
LEMMA WriteStep ==
  ASSUME IInv, Write
  PROVE  IInv'
  <1>1. CountTypeOK /\ PoolTypeOK /\ FindTypeOK /\ CountersOK /\ StoreOK /\ HeldOK
    BY InvariantParts
  <1>2. /\ UNCHANGED <<counters, headers, keys, values, completed, unused, free, idxEntry, tailBlock, consumer,
                       tailIndex, headIndex, dequeueOptimisticCount, dequeueOvercommit>>
        /\ step = "write" /\ step' = "publish"
    BY DEF Write, lookup, counters
  <1>3. cells' = [cells EXCEPT ![tailBlock][tailIndex % BLOCK_SIZE] = tailIndex]
    BY DEF Write
  <1>4. UNCHANGED <<pc, index, header, slot, entry, block, answer>>
    BY <1>2 DEF consumer, finding
  <1>5. /\ tailIndex < MaxElems /\ tailBlock \in Blocks
        /\ \E e \in Entries : keys[e] = Base(tailIndex) /\ values[e] = tailBlock
    BY <1>1, <1>2 DEF StoreOK, StepOK, InBlock
  <1>6. tailIndex \in Nat /\ headIndex \in Nat /\ headIndex <= tailIndex
        /\ tailIndex % BLOCK_SIZE \in 0 .. BLOCK_SIZE - 1
    BY <1>1, CountsAre, BaseIs
  <1>7. CountTypeOK' /\ CountersOK'
    BY <1>1, <1>2, ProduceCounts
  <1>8. Entries' = Entries /\ \A e : Valid(e)' <=> Valid(e)
    BY <1>2 DEF Entries, Valid
  <1>9. /\ cells' \in [Blocks -> [0 .. BLOCK_SIZE - 1 -> Nat \cup {None}]]
        /\ cells'[tailBlock][tailIndex % BLOCK_SIZE] = tailIndex
        /\ \A a \in Blocks, j \in 0 .. BLOCK_SIZE - 1 :
             ~(a = tailBlock /\ j = tailIndex % BLOCK_SIZE) => cells'[a][j] = cells[a][j]
    BY <1>1, <1>3, <1>5, <1>6 DEF PoolTypeOK, MemoryTypeOK
  <1>10. PoolTypeOK' /\ FindTypeOK'
    <2>1. LookupTypeOK' /\ MemoryTypeOK'
      BY <1>1, <1>2, <1>8, <1>9 DEF PoolTypeOK, LookupTypeOK, MemoryTypeOK, Capacity
    <2>2. StepTypeOK'
      BY <1>1, <1>2, <1>8 DEF PoolTypeOK, StepTypeOK, Steps
    <2>3. FindTypeOK'
      BY <1>1, <1>2, <1>4, <1>8 DEF FindTypeOK
    <2> QED BY <2>1, <2>2, <2>3 DEF PoolTypeOK
  <1>11. Top' = Top
    BY <1>2 DEF Top
  <1>12. StoreOK'
    <2>1. IndexesOK' /\ RingOK' /\ TailsOK'
      BY <1>1, <1>2, <1>11, IndexStays DEF StoreOK
    <2>2. Base(tailIndex)' = Base(tailIndex)
      BY <1>2 DEF Base
    <2>3. StepOK'
      BY <1>2, <1>5, <1>8, <1>9, <2>2 DEF StepOK, InBlock
    <2> QED BY <2>1, <2>3 DEF StoreOK
  <1>13. HeldOK'
    <2>1. FindersOK'
      BY <1>1, <1>2, <1>8, FindersKept DEF HeldOK, PoolTypeOK
    <2>2. ElementsOK'
      <3> SUFFICES ASSUME NEW x \in 0 .. MaxElems, Owed(x)' PROVE Kept(x)'
        BY DEF ElementsOK
      <3>1. Owed(x)
        BY <1>2, <1>4 DEF Owed
      <3>2. x \in Nat /\ x < tailIndex
        <4>1. x \in Nat
          BY ImplicitProducerAssumption
        <4>2. ASSUME NEW c \in Consumers, index[c] = x PROVE x < tailIndex
          <5>1. index[c] # None
            BY <4>1, <4>2, NoneIs
          <5> QED BY <1>1, <4>2, <5>1, ClaimedIs DEF HeldOK
        <4> QED BY <3>1, <4>1, <4>2 DEF Owed
      <3>3. PICK e \in Entries : /\ keys[e] = Base(x) /\ values[e] # None
                                 /\ cells[values[e]][x % BLOCK_SIZE] = x
        BY <1>1, <3>1 DEF HeldOK, ElementsOK, Kept
      <3>4. values[e] \in Blocks /\ x % BLOCK_SIZE \in 0 .. BLOCK_SIZE - 1
        BY <1>1, <3>2, <3>3, BaseIs DEF PoolTypeOK, LookupTypeOK
      <3>5. ~(values[e] = tailBlock /\ x % BLOCK_SIZE = tailIndex % BLOCK_SIZE)
        <4>1. ASSUME values[e] = tailBlock, x % BLOCK_SIZE = tailIndex % BLOCK_SIZE PROVE FALSE
          <5>1. PICK f \in Entries : keys[f] = Base(tailIndex) /\ values[f] = tailBlock
            BY <1>5
          <5>2. f = e
            BY <1>1, <3>3, <4>1, <5>1, LinkedIs
          <5>3. x = Base(x) + (x % BLOCK_SIZE) /\ tailIndex = Base(tailIndex) + (tailIndex % BLOCK_SIZE)
            BY <1>6, <3>2, BaseIs
          <5>4. x = tailIndex
            BY <3>3, <4>1, <5>1, <5>2, <5>3
          <5> QED BY <3>2, <5>4
        <4> QED BY <4>1
      <3>6. cells'[values[e]][x % BLOCK_SIZE] = x
        BY <1>9, <3>3, <3>4, <3>5
      <3> QED BY <1>2, <3>3, <3>6 DEF Kept, Entries
    <2>3. LinkedOK'
      BY <1>1, <1>2, <1>4, <1>11, LinkedKept DEF HeldOK
    <2>4. PlacesOK'
      <3>1. \A b \in Blocks : InHand(b)' <=> InHand(b)
        BY <1>2 DEF InHand
      <3> QED BY <1>1, <1>2, <1>4, <3>1, PlacesKept DEF HeldOK
    <2> QED BY <2>1, <2>2, <2>3, <2>4 DEF HeldOK
  <1> QED BY <1>7, <1>10, <1>12, <1>13, InvariantParts, PTL

(* StoreValue: the block that was taken is linked, with all its elements to
   come. *)
LEMMA StoreValueStep ==
  ASSUME IInv, StoreValue
  PROVE  IInv'
  <1>1. CountTypeOK /\ PoolTypeOK /\ FindTypeOK /\ CountersOK /\ StoreOK /\ HeldOK
    BY InvariantParts
  <1>2. /\ UNCHANGED <<counters, headers, keys, cells, completed, unused, free, idxEntry, tailBlock, consumer,
                       tailIndex, headIndex, dequeueOptimisticCount, dequeueOvercommit>>
        /\ step = "store value" /\ step' = "write"
    BY DEF StoreValue, memory, counters
  <1>3. UNCHANGED <<pc, index, header, slot, entry, block, answer>>
    BY <1>2 DEF consumer, finding
  <1>4. /\ tailIndex % BLOCK_SIZE = 0 /\ tailIndex < MaxElems
        /\ idxEntry = Place(TailPlace) /\ values[idxEntry] = None /\ keys[idxEntry] = tailIndex
        /\ tailBlock \in Blocks /\ completed[tailBlock] = 0 /\ InHand(tailBlock)
    BY <1>1, <1>2 DEF StoreOK, StepOK, InHand
  <1>5. PICK e \in Entries, b \in Blocks : e = idxEntry /\ b = tailBlock
    BY <1>1, <1>4, IndexIs DEF StoreOK
  <1>6. values' = [values EXCEPT ![e] = b]
    BY <1>5 DEF StoreValue
  <1>7. /\ values' \in [Entries -> Blocks \cup {None}] /\ DOMAIN values' = DOMAIN values
        /\ values'[e] = b /\ \A f \in Entries : f # e => values'[f] = values[f]
    BY <1>1, <1>5, <1>6 DEF PoolTypeOK, LookupTypeOK
  <1>8. tailIndex \in Nat /\ headIndex \in Nat /\ headIndex <= tailIndex
    BY <1>1, CountsAre
  <1>9. CountTypeOK' /\ CountersOK'
    BY <1>1, <1>2, ProduceCounts
  <1>10. Entries' = Entries /\ \A f : Valid(f)' <=> Valid(f)
    BY <1>2 DEF Entries, Valid
  <1>11. PoolTypeOK' /\ FindTypeOK'
    <2>1. LookupTypeOK' /\ MemoryTypeOK'
      BY <1>1, <1>2, <1>7, <1>10 DEF PoolTypeOK, LookupTypeOK, MemoryTypeOK, Capacity
    <2>2. StepTypeOK'
      BY <1>1, <1>2, <1>10 DEF PoolTypeOK, StepTypeOK, Steps
    <2>3. FindTypeOK'
      BY <1>1, <1>2, <1>3, <1>10 DEF FindTypeOK
    <2> QED BY <2>1, <2>2, <2>3 DEF PoolTypeOK
  <1>12. Top' = Top /\ Top = tailIndex \div BLOCK_SIZE
    BY <1>2 DEF Top
  <1>13. Base(tailIndex) = tailIndex /\ Nth(Top) = tailIndex /\ tailIndex # INVALID_BLOCK_BASE
    <2>1. /\ tailIndex \div BLOCK_SIZE \in Int /\ Base(tailIndex) = Nth(tailIndex \div BLOCK_SIZE)
          /\ tailIndex = Base(tailIndex) + (tailIndex % BLOCK_SIZE)
      BY <1>8, BaseIs
    <2>2. Base(tailIndex) \in Int /\ Base(tailIndex) # INVALID_BLOCK_BASE
      BY <2>1, NthIs
    <2> QED BY <1>4, <1>8, <1>12, <2>1, <2>2
  <1>14. StoreOK'
    <2>1. IndexesOK' /\ RingOK' /\ TailsOK'
      BY <1>1, <1>2, <1>7, <1>12, IndexStays DEF StoreOK
    <2>2. Base(tailIndex)' = Base(tailIndex)
      BY <1>2 DEF Base
    <2>3. tailBlock' \in Blocks /\ \E f \in Entries' : keys'[f] = Base(tailIndex)' /\ values'[f] = tailBlock'
      BY <1>2, <1>4, <1>5, <1>7, <1>10, <1>13, <2>2
    <2>4. StepOK'
      BY <1>2, <1>4, <2>3 DEF StepOK, InBlock
    <2> QED BY <2>1, <2>4 DEF StoreOK
  (* Before: the block is in no entry, and there is none in this one. *)
  <1>15. values[e] = None /\ keys[e] = tailIndex /\ \A f \in Entries : values[f] # b
    BY <1>1, <1>4, <1>5 DEF HeldOK, PlacesOK, PlaceOK
  <1>16. \A f \in Entries : values[f] # None => values'[f] = values[f] /\ f # e
    BY <1>7, <1>15
  <1>17. FindersOK'
    BY <1>1, <1>2, <1>10, <1>16, FindersKept DEF HeldOK, PoolTypeOK
  <1>18. ElementsOK'
    <2> SUFFICES ASSUME NEW x \in 0 .. MaxElems, Owed(x)' PROVE Kept(x)'
      BY DEF ElementsOK
    <2>1. Owed(x)
      BY <1>2, <1>3 DEF Owed
    <2>2. PICK f \in Entries : /\ keys[f] = Base(x) /\ values[f] # None
                               /\ cells[values[f]][x % BLOCK_SIZE] = x
      BY <1>1, <2>1 DEF HeldOK, ElementsOK, Kept
    <2> QED BY <1>2, <1>16, <2>2 DEF Kept, Entries
  <1>19. LinkedOK'
    <2>1. /\ \A f : Busy(f)' = Busy(f)
          /\ \A k : Unclaimed(k)' = Unclaimed(k)
          /\ Nth(Top)' = Nth(Top)
      BY <1>2, <1>3, <1>12 DEF Busy, Unclaimed, Base, Nth
    <2>2. Busy(e) = {}
      <3> SUFFICES ASSUME NEW c \in Consumers, c \in Busy(e) PROVE FALSE
        BY DEF Busy
      <3>1. CASE index[c] # None /\ Base(index[c]) = keys[e]
        <4>1. index[c] \in Nat /\ index[c] < tailIndex
          BY <1>1, <3>1, ClaimedIs DEF HeldOK
        <4>2. index[c] = Base(index[c]) + (index[c] % BLOCK_SIZE) /\ index[c] % BLOCK_SIZE \in 0 .. BLOCK_SIZE - 1
          BY <4>1, BaseIs
        <4> QED BY <1>8, <1>15, <3>1, <4>1, <4>2
      <3>2. CASE pc[c] = "set empty" /\ entry[c] = e
        <4>1. block[c] \in Blocks /\ values[e] = block[c]
          BY <1>1, <3>2 DEF HeldOK, FindersOK, FinderOK
        <4> QED BY <1>15, <4>1, NoneIs
      <3> QED BY <3>1, <3>2 DEF Busy
    <2>3. completed[b] + Unclaimed(keys[e]) + Cardinality(Busy(e)) = BLOCK_SIZE
      <3>1. Unclaimed(keys[e]) = BLOCK_SIZE
        BY <1>8, <1>15 DEF Unclaimed
      <3>2. Cardinality(Busy(e)) = 0
        BY <2>2, FS_EmptySet
      <3> QED BY <1>4, <1>5, <3>1, <3>2, BlockSizes
    <2>4. Valid(e) /\ keys[e] <= Nth(Top)
      BY <1>8, <1>13, <1>15 DEF Valid
    <2>5. ASSUME NEW f \in Entries, values'[f] # None
          PROVE  /\ Valid(f) /\ keys[f] <= Nth(Top)
                 /\ completed[values'[f]] + Unclaimed(keys[f]) + Cardinality(Busy(f)) = BLOCK_SIZE
      <3>1. CASE f = e
        BY <1>7, <2>3, <2>4, <3>1
      <3>2. CASE f # e
        <4>1. values'[f] = values[f] /\ values[f] # None
          BY <1>7, <2>5, <3>2
        <4> QED BY <1>1, <4>1 DEF HeldOK, LinkedOK
      <3> QED BY <3>1, <3>2
    <2> QED BY <1>2, <1>10, <2>1, <2>5 DEF LinkedOK
  <1>20. PlacesOK'
    <2> SUFFICES ASSUME NEW a \in Blocks PROVE PlaceOK(a)'
      BY DEF PlacesOK
    <2>1. (\A c \in Consumers : Leaves(c, a)' <=> Leaves(c, a)) /\ (Idle(a)' <=> Idle(a)) /\ a # None
      BY <1>2, <1>3, NoneIs DEF Leaves, Idle
    <2>2. ~InHand(a)' /\ (InHand(a) <=> a = b) /\ UNCHANGED <<unused, free>>
      BY <1>2, <1>5 DEF InHand
    <2>3. PlaceOK(a)
      BY <1>1 DEF HeldOK, PlacesOK
    <2>4. CASE a = b
      <3>1. \A f \in Entries : values'[f] = a <=> f = e
        BY <1>7, <1>15, <2>4
      <3> QED BY <1>10, <2>1, <2>2, <2>3, <2>4, <3>1 DEF PlaceOK
    <2>5. CASE a # b
      <3>1. \A f \in Entries : values'[f] = a <=> values[f] = a
        BY <1>7, <1>15, <2>1, <2>5
      <3> QED BY <1>10, <2>1, <2>2, <2>3, <2>5, <3>1 DEF PlaceOK
    <2> QED BY <2>4, <2>5
  <1>21. HeldOK'
    BY <1>17, <1>18, <1>19, <1>20 DEF HeldOK
  <1> QED BY <1>9, <1>11, <1>14, <1>21, InvariantParts, PTL

(* RequisitionBlock: the producer alone has the block it takes. *)
LEMMA RequisitionBlockStep ==
  ASSUME IInv, NEW b \in Blocks, RequisitionBlock(b)
  PROVE  IInv'
  <1>1. CountTypeOK /\ PoolTypeOK /\ FindTypeOK /\ CountersOK /\ StoreOK /\ HeldOK
    BY InvariantParts
  <1>2. /\ UNCHANGED <<counters, headers, keys, values, cells, idxEntry, consumer,
                       tailIndex, headIndex, dequeueOptimisticCount, dequeueOvercommit>>
        /\ step = "find block" /\ step' = "store value"
        /\ b \in unused \cup free /\ unused' = unused \ {b} /\ free' = free \ {b} /\ tailBlock' = b
    BY DEF RequisitionBlock, lookup, counters
  <1>3. completed' = [completed EXCEPT ![b] = 0]
    BY DEF RequisitionBlock, ResetEmpty
  <1>4. UNCHANGED <<pc, index, header, slot, entry, block, answer>>
    BY <1>2 DEF consumer, finding
  <1>5. /\ completed' \in [Blocks -> 0 .. BLOCK_SIZE] /\ completed'[b] = 0
        /\ \A a \in Blocks : a # b => completed'[a] = completed[a]
    <2>1. 0 \in 0 .. BLOCK_SIZE
      BY BlockSizes
    <2> QED BY <1>1, <1>3, <2>1 DEF PoolTypeOK, MemoryTypeOK
  <1>6. CountTypeOK' /\ CountersOK'
    BY <1>1, <1>2, ProduceCounts
  <1>7. Entries' = Entries /\ \A f : Valid(f)' <=> Valid(f)
    BY <1>2 DEF Entries, Valid
  <1>8. PoolTypeOK' /\ FindTypeOK'
    <2>1. LookupTypeOK'
      BY <1>1, <1>2, <1>7 DEF PoolTypeOK, LookupTypeOK, Capacity
    <2>2. MemoryTypeOK'
      BY <1>1, <1>2, <1>5 DEF PoolTypeOK, MemoryTypeOK
    <2>3. StepTypeOK'
      BY <1>1, <1>2, <1>7 DEF PoolTypeOK, StepTypeOK, Steps
    <2>4. FindTypeOK'
      BY <1>1, <1>2, <1>4, <1>7 DEF FindTypeOK
    <2> QED BY <2>1, <2>2, <2>3, <2>4 DEF PoolTypeOK
  <1>9. Top' = Top
    BY <1>2 DEF Top
  <1>10. StoreOK'
    <2>1. IndexesOK' /\ RingOK' /\ TailsOK'
      BY <1>1, <1>2, <1>9, IndexStays DEF StoreOK
    <2>2. Place(TailPlace)' = Place(TailPlace)
      BY <1>2 DEF Place, TailPlace, Current, blockIndex
    <2>3. /\ tailIndex % BLOCK_SIZE = 0 /\ tailIndex < MaxElems
          /\ idxEntry = Place(TailPlace) /\ values[idxEntry] = None /\ keys[idxEntry] = tailIndex
      BY <1>1, <1>2 DEF StoreOK, StepOK
    <2>4. StepOK'
      BY <1>2, <1>5, <2>2, <2>3 DEF StepOK, InBlock
    <2> QED BY <2>1, <2>4 DEF StoreOK
  (* Nobody else has the block. *)
  <1>11. /\ \A f \in Entries : values[f] # b
         /\ \A c \in Consumers : ~Leaves(c, b)
    BY <1>1, <1>2 DEF HeldOK, PlacesOK, PlaceOK, Idle
  <1>12. FindersOK'
    <2>1. ASSUME NEW c \in Consumers, pc[c] = "unlink" PROVE completed'[block[c]] = completed[block[c]]
      <3>1. block[c] \in Blocks /\ entry[c] \in Entries /\ values[entry[c]] = block[c]
        BY <1>1, <2>1 DEF HeldOK, FindersOK, FinderOK
      <3> QED BY <1>5, <1>11, <3>1
    <2> QED BY <1>1, <1>2, <1>7, <2>1, FindersKept DEF HeldOK, PoolTypeOK
  <1>13. ElementsOK'
    BY <1>1, <1>2, <1>4, ElementsKept DEF HeldOK
  <1>14. LinkedOK'
    <2>1. /\ \A f : Busy(f)' = Busy(f)
          /\ \A k : Unclaimed(k)' = Unclaimed(k)
          /\ Nth(Top)' = Nth(Top)
      BY <1>2, <1>4, <1>9 DEF Busy, Unclaimed, Base, Nth
    <2>2. \A f \in Entries : values[f] # None => completed'[values[f]] = completed[values[f]]
      BY <1>1, <1>5, <1>11 DEF PoolTypeOK, LookupTypeOK
    <2> QED BY <1>1, <1>2, <1>7, <2>1, <2>2 DEF HeldOK, LinkedOK
  <1>15. PlacesOK'
    <2> SUFFICES ASSUME NEW a \in Blocks PROVE PlaceOK(a)'
      BY DEF PlacesOK
    <2>1. (\A c \in Consumers : Leaves(c, a)' <=> Leaves(c, a)) /\ UNCHANGED values
      BY <1>2, <1>4 DEF Leaves
    <2>2. ~InHand(a) /\ (InHand(a)' <=> a = b)
      BY <1>2 DEF InHand
    <2>3. PlaceOK(a)
      BY <1>1 DEF HeldOK, PlacesOK
    <2>4. /\ a \in unused' <=> a \in unused /\ a # b
          /\ a \in free' <=> a \in free /\ a # b
      BY <1>2
    <2>5. CASE a = b
      BY <1>7, <1>11, <2>1, <2>2, <2>4, <2>5 DEF PlaceOK, Idle
    <2>6. CASE a # b
      BY <1>7, <2>1, <2>2, <2>3, <2>4, <2>6 DEF PlaceOK, Idle
    <2> QED BY <2>5, <2>6
  <1>16. HeldOK'
    BY <1>12, <1>13, <1>14, <1>15 DEF HeldOK
  <1> QED BY <1>6, <1>8, <1>10, <1>16, InvariantParts, PTL

(* StoreKey: no consumer looks for the key that is overwritten. *)
LEMMA StoreKeyStep ==
  ASSUME IInv, StoreKey
  PROVE  IInv'
  <1>1. CountTypeOK /\ PoolTypeOK /\ FindTypeOK /\ CountersOK /\ StoreOK /\ HeldOK
    BY InvariantParts
  <1>2. /\ UNCHANGED <<counters, headers, values, cells, completed, unused, free, idxEntry, tailBlock, consumer,
                       tailIndex, headIndex, dequeueOptimisticCount, dequeueOvercommit>>
        /\ step = "store key" /\ step' = "store tail"
    BY DEF StoreKey, memory, counters
  <1>3. UNCHANGED <<pc, index, header, slot, entry, block, answer>>
    BY <1>2 DEF consumer, finding
  <1>4. /\ tailIndex % BLOCK_SIZE = 0 /\ tailIndex < MaxElems
        /\ idxEntry = Place(NextPlace) /\ values[idxEntry] = None
    BY <1>1, <1>2 DEF StoreOK, StepOK
  <1>5. PICK e \in Entries : e = idxEntry
    BY <1>1, <1>4, IndexIs, AgeIs DEF StoreOK
  <1>6. keys' = [keys EXCEPT ![e] = tailIndex]
    BY <1>5 DEF StoreKey
  <1>7. tailIndex \in Nat
    BY <1>1, CountsAre
  <1>8. /\ keys' \in [Entries -> Nat] /\ DOMAIN keys' = DOMAIN keys
        /\ keys'[e] = tailIndex /\ \A f \in Entries : f # e => keys'[f] = keys[f]
    BY <1>1, <1>5, <1>6, <1>7 DEF PoolTypeOK, LookupTypeOK
  <1>9. CountTypeOK' /\ CountersOK'
    BY <1>1, <1>2, ProduceCounts
  <1>10. Entries' = Entries
    BY <1>8 DEF Entries
  <1>11. PoolTypeOK' /\ FindTypeOK'
    <2>1. LookupTypeOK' /\ MemoryTypeOK'
      BY <1>1, <1>2, <1>8, <1>10 DEF PoolTypeOK, LookupTypeOK, MemoryTypeOK, Capacity
    <2>2. StepTypeOK'
      BY <1>1, <1>2, <1>10 DEF PoolTypeOK, StepTypeOK, Steps
    <2>3. FindTypeOK'
      BY <1>1, <1>2, <1>3, <1>10 DEF FindTypeOK
    <2> QED BY <2>1, <2>2, <2>3 DEF PoolTypeOK
  <1>12. Top' = Top /\ Top = (tailIndex - 1) \div BLOCK_SIZE
    BY <1>2 DEF Top
  <1>13. tailIndex = Nth(Top + 1) /\ Top \in Int /\ tailIndex # INVALID_BLOCK_BASE
    <2>1. /\ tailIndex \div BLOCK_SIZE \in Int /\ Base(tailIndex) = Nth(tailIndex \div BLOCK_SIZE)
          /\ tailIndex = Base(tailIndex) + (tailIndex % BLOCK_SIZE)
          /\ (tailIndex - 1) \div BLOCK_SIZE = tailIndex \div BLOCK_SIZE - 1
      BY <1>4, <1>7, BaseIs
    <2>2. Base(tailIndex) \in Int /\ Base(tailIndex) # INVALID_BLOCK_BASE
      BY <2>1, NthIs
    <2>3. Top \in Int /\ Top + 1 = tailIndex \div BLOCK_SIZE
      BY <1>12, <2>1
    <2> QED BY <1>4, <1>7, <2>1, <2>2, <2>3
  <1>14. \A f \in Entries : Valid(f) => Valid(f)'
    BY <1>8, <1>13 DEF Valid
  <1>15. StoreOK'
    <2>1. /\ blockIndex' = blockIndex /\ Current' = Current /\ Size' = Size
          /\ TailPlace' = TailPlace /\ NextPlace' = NextPlace
          /\ (\A n : Cap(n)' = Cap(n)) /\ (\A p : Place(p)' = Place(p) /\ Age(p)' = Age(p))
      BY <1>2 DEF blockIndex, Current, Size, Cap, TailPlace, NextPlace, NextSlot, Place, Age, Capacity
    <2>2. IndexesOK'
      <3>1. \A n : HeaderOK(n)' <=> HeaderOK(n)
        BY <1>2, HeadersKept
      <3>2. headers' \in Seq({headers'[n] : n \in DOMAIN headers'}) /\ headers' # <<>>
        <4>1. headers \in Seq({headers[n] : n \in DOMAIN headers}) /\ headers # <<>>
          BY <1>1 DEF StoreOK, IndexesOK
        <4>2. headers' = headers
          BY <1>2
        <4> QED BY ONLY <4>1, <4>2
      <3>3. \A n \in DOMAIN headers' : HeaderOK(n)'
        BY <1>1, <1>2, <3>1 DEF StoreOK, IndexesOK
      <3>4. Entries' = 1 .. Size' /\ DOMAIN values' = 1 .. Size'
        BY <1>1, <1>2, <1>10, <2>1 DEF StoreOK, IndexesOK
      <3>5. /\ \A p, q \in 0 .. Size' - 1 : Place(p)' = Place(q)' => p = q
            /\ \A f \in 1 .. Size' : \E p \in 0 .. Size' - 1 : Place(p)' = f
        BY <1>1, <2>1 DEF StoreOK, IndexesOK
      <3> QED BY <3>2, <3>3, <3>4, <3>5 DEF IndexesOK
    <2>3. RingOK'
      <3> SUFFICES ASSUME NEW p \in 0 .. Size - 1
                   PROVE  \/ keys'[Place(p)] = INVALID_BLOCK_BASE
                          \/ keys'[Place(p)] = Nth(Top - Age(p))
                          \/ p = NextPlace /\ keys'[Place(p)] = tailIndex /\ tailIndex = Nth(Top + 1)
        <4>1. Nth(Top + 1)' = Nth(Top + 1) /\ \A p : Nth(Top - Age(p))' = Nth(Top - Age(p))
          BY <1>12, <2>1 DEF Nth
        <4> QED BY <1>2, <2>1, <4>1 DEF RingOK
      <3>1. CASE p = NextPlace
        <4>1. Place(p) = e
          BY <1>4, <1>5, <3>1
        <4> QED BY <1>8, <1>13, <3>1, <4>1
      <3>2. CASE p # NextPlace
        <4>1. Place(p) # e /\ Place(p) \in Entries
          BY <1>1, <1>4, <1>5, <3>2, AgeIs, IndexIs DEF StoreOK, IndexesOK
        <4> QED BY <1>1, <1>8, <3>2, <4>1 DEF StoreOK, RingOK
      <3> QED BY <3>1, <3>2
    <2>4. TailsOK'
      <3>1. ASSUME NEW n \in DOMAIN headers, n < blockIndex
            PROVE  Valid(headers[n].index[headers[n].tail])'
        <4>1. Valid(headers[n].index[headers[n].tail])
          BY <1>1, <3>1 DEF StoreOK, TailsOK
        <4>2. headers[n].index[headers[n].tail] \in Entries
          BY <1>1 DEF PoolTypeOK, LookupTypeOK
        <4>3. keys'[headers[n].index[headers[n].tail]] # INVALID_BLOCK_BASE
          BY <1>14, <4>1, <4>2 DEF Valid
        <4> QED BY <1>2, <4>3 DEF Valid
      <3>2. Top >= 0 => Valid(Place(TailPlace))'
        <4>1. Place(TailPlace) \in Entries /\ Place(TailPlace)' = Place(TailPlace)
          BY <1>1, <2>1, IndexIs DEF StoreOK, Place
        <4>2. Top >= 0 => keys'[Place(TailPlace)] # INVALID_BLOCK_BASE
          BY <1>1, <1>14, <4>1 DEF StoreOK, TailsOK, Valid
        <4> QED BY <4>1, <4>2 DEF Valid
      <3> QED BY <1>2, <1>12, <2>1, <3>1, <3>2 DEF TailsOK
    <2>5. StepOK'
      <3>1. Place(NextPlace)' = Place(NextPlace)
        BY <1>2 DEF Place, NextPlace, NextSlot, Current, blockIndex, Capacity
      <3> QED BY <1>2, <1>4, <1>5, <1>8, <3>1 DEF StepOK, InBlock
    <2> QED BY <2>2, <2>3, <2>4, <2>5 DEF StoreOK
  (* The key that is overwritten is nobody's. *)
  <1>16. \A f \in Entries : values[f] # None => f # e /\ keys'[f] = keys[f]
    BY <1>4, <1>5, <1>8
  <1>17. FindersOK'
    <2>1. ASSUME NEW c \in Consumers, NEW f \in Entries, HasClaim(c), keys[f] = Base(index[c])
          PROVE  keys'[f] = keys[f]
      <3>1. values[f] \in Blocks
        BY <1>1, <2>1, ClaimedKept
      <3> QED BY <1>16, <3>1, NoneIs
    <2> QED BY <1>1, <1>2, <1>10, <1>14, <2>1, FindersKept DEF HeldOK, PoolTypeOK
  <1>18. ElementsOK'
    <2> SUFFICES ASSUME NEW x \in 0 .. MaxElems, Owed(x)' PROVE Kept(x)'
      BY DEF ElementsOK
    <2>1. Owed(x)
      BY <1>2, <1>3 DEF Owed
    <2>2. PICK f \in Entries : /\ keys[f] = Base(x) /\ values[f] # None
                               /\ cells[values[f]][x % BLOCK_SIZE] = x
      BY <1>1, <2>1 DEF HeldOK, ElementsOK, Kept
    <2> QED BY <1>2, <1>10, <1>16, <2>2 DEF Kept
  <1>19. LinkedOK'
    <2>1. /\ \A f \in Entries : values[f] # None => Busy(f)' = Busy(f)
          /\ \A k : Unclaimed(k)' = Unclaimed(k)
          /\ Nth(Top)' = Nth(Top)
      <3>1. \A d : Base(index[d])' = Base(index[d])
        BY <1>3 DEF Base
      <3> QED BY <1>2, <1>3, <1>12, <1>16, <3>1 DEF Busy, Unclaimed, Nth
    <2>2. \A f \in Entries : values[f] # None => Unclaimed(keys[f])' = Unclaimed(keys[f])
      BY <1>2, <1>16 DEF Unclaimed
    <2> QED BY <1>1, <1>2, <1>10, <1>14, <1>16, <2>1, <2>2 DEF HeldOK, LinkedOK
  <1>20. PlacesOK'
    <2> SUFFICES ASSUME NEW a \in Blocks PROVE PlaceOK(a)'
      BY DEF PlacesOK
    <2>1. /\ \A c \in Consumers : Leaves(c, a)' <=> Leaves(c, a)
          /\ (Idle(a)' <=> Idle(a)) /\ ~InHand(a) /\ ~InHand(a)'
          /\ UNCHANGED <<unused, free, values>>
      BY <1>2, <1>3 DEF Leaves, Idle, InHand
    <2>2. PlaceOK(a)
      BY <1>1 DEF HeldOK, PlacesOK
    <2> QED BY <1>10, <2>1, <2>2 DEF PlaceOK
  <1>21. HeldOK'
    BY <1>17, <1>18, <1>19, <1>20 DEF HeldOK
  <1> QED BY <1>9, <1>11, <1>15, <1>21, InvariantParts, PTL

(* A function on 1 .. n is a sequence of length n. *)
LEMMA FunctionIsSeq ==
  ASSUME NEW n \in Nat, NEW S, NEW f \in [1 .. n -> S]
  PROVE  f \in Seq(S) /\ Len(f) = n
  <1>1. f \in Seq(S)
    BY SeqDef
  <1>2. Len(f) \in Nat /\ DOMAIN f = 1 .. Len(f) /\ DOMAIN f = 1 .. n
    BY <1>1, LenProperties
  <1>3. ~(Len(f) < n) /\ ~(n < Len(f))
    <2>1. 1 .. Len(f) = 1 .. n
      BY <1>2
    <2> HIDE <1>1
    <2>2. ASSUME Len(f) < n PROVE FALSE
      <3>1. n \in 1 .. n /\ n \notin 1 .. Len(f)
        BY <1>2, <2>2
      <3> QED BY <2>1, <3>1
    <2>3. ASSUME n < Len(f) PROVE FALSE
      <3>1. Len(f) \in 1 .. Len(f) /\ Len(f) \notin 1 .. n
        BY <1>2, <2>3
      <3> QED BY <2>1, <3>1
    <2> QED BY <2>2, <2>3
  <1> QED BY <1>1, <1>2, <1>3

(* Storing the tail of the current index changes no entry's place. *)
LEMMA MoveTailIs ==
  ASSUME IndexesOK, NEW s \in 0 .. Size - 1, MoveTail(s), DOMAIN keys' = DOMAIN keys, UNCHANGED values
  PROVE  /\ IndexesOK' /\ blockIndex' = blockIndex /\ DOMAIN headers' = DOMAIN headers
         /\ TailPlace' = s /\ Size' = Size /\ (\A p : Place(p)' = Place(p))
         /\ \A n \in DOMAIN headers : /\ headers'[n].index = headers[n].index
                                      /\ n # blockIndex => headers'[n] = headers[n]
  <1> DEFINE S == {headers[n] : n \in DOMAIN headers}
             T == {headers'[n] : n \in DOMAIN headers'}
             H == [tail |-> s, index |-> headers[blockIndex].index]
  <1>1. blockIndex \in Nat \ {0} /\ DOMAIN headers = 1 .. blockIndex /\ Size \in Nat
    BY IndexIs
  <1>2. HeaderOK(blockIndex)
    BY <1>1 DEF IndexesOK
  <1>3. headers' = [headers EXCEPT ![blockIndex] = H]
    <2>1. headers' = [headers EXCEPT ![blockIndex].tail = s]
      BY DEF MoveTail
    <2>2. headers[blockIndex] = [tail |-> headers[blockIndex].tail, index |-> headers[blockIndex].index]
      BY <1>2 DEF HeaderOK
    <2>3. [headers[blockIndex] EXCEPT !.tail = s] = H
      BY <2>2
    <2> QED BY <2>1, <2>3
  <1>4. headers \in [1 .. blockIndex -> S]
    BY LenProperties DEF IndexesOK, blockIndex
  <1> HIDE DEF S, H
  <1>5. /\ DOMAIN headers' = 1 .. blockIndex
        /\ headers'[blockIndex] = H /\ \A n \in 1 .. blockIndex : n # blockIndex => headers'[n] = headers[n]
        /\ headers' = [n \in 1 .. blockIndex |-> headers'[n]]
    <2> HIDE DEF T
    <2>1. blockIndex \in 1 .. blockIndex
      BY <1>1
    <2>2. DOMAIN headers' = 1 .. blockIndex
      BY <1>1, <1>3
    <2>3. headers'[blockIndex] = H /\ \A n \in 1 .. blockIndex : n # blockIndex => headers'[n] = headers[n]
      BY <1>3, <1>4, <2>1
    <2>4. headers' = [n \in 1 .. blockIndex |-> headers'[n]]
      BY <1>3, <1>4, <2>2
    <2> QED BY <2>2, <2>3, <2>4
  <1>6. headers' \in [1 .. blockIndex -> T]
    BY <1>5
  <1> HIDE DEF T
  <1>7. headers' \in Seq(T) /\ blockIndex' = blockIndex
    BY <1>1, <1>6, FunctionIsSeq DEF blockIndex
  <1>8. headers' # <<>>
    <2>1. 1 \in DOMAIN headers'
      BY <1>1, <1>5
    <2> QED BY <2>1
  <1>9. \A n \in DOMAIN headers : headers'[n].index = headers[n].index
    BY <1>1, <1>5 DEF H
  <1>10. TailPlace' = s /\ Current'.index = Current.index
    BY <1>5, <1>7 DEF TailPlace, Current, H
  <1>11. \A n \in DOMAIN headers : Cap(n)' = Cap(n)
    BY <1>9 DEF Cap, Capacity
  <1>12. Size' = Size /\ \A p : Place(p)' = Place(p)
    <2>1. Cap(blockIndex)' = Cap(blockIndex)
      BY <1>7, <1>10 DEF Cap, Capacity, Current
    <2> QED BY <1>10, <2>1 DEF Size, Place
  <1>13. ASSUME NEW n \in DOMAIN headers PROVE HeaderOK(n)'
    <2>1. HeaderOK(n)
      BY DEF IndexesOK
    <2>2. Coherent(n)'
      BY <1>9, <1>11, <1>12, <2>1 DEF HeaderOK, Coherent
    <2>3. Cap(n)' = Cap(n) /\ headers'[n].index = headers[n].index
      BY <1>9, <1>11
    <2>4. headers'[n] = [tail |-> headers'[n].tail, index |-> headers'[n].index]
      BY <1>1, <1>5, <2>1 DEF HeaderOK, H
    <2>5. headers'[n].tail \in 0 .. Cap(n) - 1
      <3>1. CASE n = blockIndex
        BY <1>5, <3>1 DEF H, Size
      <3>2. CASE n # blockIndex
        BY <1>1, <1>5, <2>1, <3>2 DEF HeaderOK
      <3> QED BY <3>1, <3>2
    <2> QED BY <1>12, <2>1, <2>2, <2>3, <2>4, <2>5 DEF HeaderOK
  <1>14. IndexesOK'
    <2>1. headers' \in Seq({headers'[n] : n \in DOMAIN headers'}) /\ headers' # <<>>
      BY <1>7, <1>8 DEF T
    <2>2. \A n \in DOMAIN headers' : HeaderOK(n)'
      BY <1>1, <1>5, <1>13
    <2>3. Entries' = 1 .. Size' /\ DOMAIN values' = 1 .. Size'
      BY <1>12 DEF IndexesOK, Entries
    <2>4. /\ \A p, q \in 0 .. Size' - 1 : Place(p)' = Place(q)' => p = q
          /\ \A f \in 1 .. Size' : \E p \in 0 .. Size' - 1 : Place(p)' = f
      BY <1>12 DEF IndexesOK
    <2> QED BY <2>1, <2>2, <2>3, <2>4 DEF IndexesOK
  <1> QED BY <1>1, <1>5, <1>7, <1>9, <1>10, <1>12, <1>14

(* What the consumers and the pool have is kept when only the tail of the
   index moves.                                                          *)
LEMMA MoveTailKeeps ==
  ASSUME IInv, NEW s \in 0 .. Size - 1, MoveTail(s),
         UNCHANGED <<counters, keys, values, memory, idxEntry, tailBlock, consumer>>,
         step # "store value", step' # "store value", step' \in Steps, LinkedOK'
  PROVE  /\ CountTypeOK' /\ CountersOK' /\ PoolTypeOK' /\ FindTypeOK' /\ IndexesOK' /\ HeldOK'
  <1>1. CountTypeOK /\ PoolTypeOK /\ FindTypeOK /\ CountersOK /\ StoreOK /\ HeldOK
    BY InvariantParts
  <1>2. UNCHANGED <<tailIndex, headIndex, dequeueOptimisticCount, dequeueOvercommit, cells, completed,
                    unused, free, pc, index, header, slot, entry, block, answer>>
    BY DEF counters, memory, consumer, finding
  <1>3. CountTypeOK' /\ CountersOK'
    BY <1>1, <1>2, ProduceCounts
  <1>4. /\ IndexesOK' /\ blockIndex' = blockIndex /\ DOMAIN headers' = DOMAIN headers
        /\ \A n \in DOMAIN headers : headers'[n].index = headers[n].index
    BY <1>1, MoveTailIs DEF StoreOK
  <1>5. Entries' = Entries /\ \A f : Valid(f)' <=> Valid(f)
    BY DEF Entries, Valid
  <1>6. LookupTypeOK'
    <2> SUFFICES ASSUME NEW n \in DOMAIN headers'
                 PROVE  /\ headers'[n].tail \in DOMAIN headers'[n].index
                        /\ headers'[n].index \in [0 .. Capacity(headers'[n]) - 1 -> Entries']
      BY <1>1, <1>5 DEF PoolTypeOK, LookupTypeOK, Capacity
    <2>1. HeaderOK(n)' /\ Entries' = 1 .. Size'
      BY <1>4 DEF IndexesOK
    <2>2. Cap(n)' = Capacity(headers'[n])
      BY DEF Cap, Capacity
    <2>3. /\ Cap(n)' \in Nat /\ Cap(n)' <= Size' /\ headers'[n].tail \in 0 .. Cap(n)' - 1
          /\ headers'[n].index \in [0 .. Cap(n)' - 1 -> 1 .. Cap(n)']
      BY <2>1 DEF HeaderOK
    <2>4. Size' \in Nat
      <3>1. Size \in Nat /\ Size' = Size
        BY <1>1, IndexIs, MoveTailIs DEF StoreOK
      <3> QED BY <3>1
    <2>5. 1 .. Cap(n)' \subseteq 1 .. Size'
      BY <2>3, <2>4, RangesIn
    <2> QED BY <2>1, <2>2, <2>3, <2>5
  <1>7. PoolTypeOK'
    <2>1. MemoryTypeOK' /\ StepTypeOK'
      BY <1>1, <1>2, <1>5 DEF PoolTypeOK, MemoryTypeOK, StepTypeOK
    <2> QED BY <1>6, <2>1 DEF PoolTypeOK
  <1>8. FindTypeOK'
    BY <1>1, <1>2, <1>4, <1>5 DEF FindTypeOK, blockIndex
  <1>9. FindersOK'
    BY <1>1, <1>2, <1>4, <1>5, FindersKept DEF HeldOK, PoolTypeOK
  <1>10. ElementsOK'
    BY <1>1, <1>2, ElementsKept DEF HeldOK
  <1>11. PlacesOK'
    <2>1. \A b \in Blocks : InHand(b)' <=> InHand(b)
      BY DEF InHand
    <2> QED BY <1>1, <1>2, <2>1, PlacesKept DEF HeldOK
  <1> QED BY <1>3, <1>4, <1>7, <1>8, <1>9, <1>10, <1>11 DEF HeldOK

(* StoreTail: the newest key is at the tail, and the oldest one behind it
   is gone. *)
LEMMA StoreTailStep ==
  ASSUME IInv, StoreTail
  PROVE  IInv'
  <1>1. CountTypeOK /\ PoolTypeOK /\ FindTypeOK /\ CountersOK /\ StoreOK /\ HeldOK
    BY InvariantParts
  <1>2. /\ UNCHANGED <<counters, keys, values, memory, idxEntry, tailBlock, consumer,
                       tailIndex, headIndex, completed, pc, index, entry>>
        /\ step = "store tail" /\ step' = "find block"
    BY DEF StoreTail, counters, memory, consumer, finding
  <1>3. /\ Size \in Nat \ {0} /\ Size >= 2 /\ TailPlace \in 0 .. Size - 1
        /\ NextPlace \in 0 .. Size - 1 /\ NextPlace = IF TailPlace = Size - 1 THEN 0 ELSE TailPlace + 1
    BY <1>1, IndexIs, AgeIs DEF StoreOK
  <1>4. PICK n \in Nat, t \in 0 .. Size - 1, s \in 0 .. Size - 1 : n = Size /\ t = TailPlace /\ s = NextPlace
    BY <1>3
  <1>5. MoveTail(s)
    BY <1>4 DEF StoreTail, MoveTail, NextPlace
  <1>6. /\ blockIndex' = blockIndex /\ DOMAIN headers' = DOMAIN headers
        /\ TailPlace' = s /\ Size' = Size /\ (\A p : Place(p)' = Place(p))
        /\ \A m \in DOMAIN headers : /\ headers'[m].index = headers[m].index
                                     /\ m # blockIndex => headers'[m] = headers[m]
    BY <1>1, <1>2, <1>5, MoveTailIs DEF StoreOK
  <1>7. /\ tailIndex % BLOCK_SIZE = 0 /\ tailIndex < MaxElems
        /\ idxEntry = Place(s) /\ values[idxEntry] = None /\ keys[idxEntry] = tailIndex
    BY <1>1, <1>2, <1>4 DEF StoreOK, StepOK
  <1>8. Top \in Int /\ Top' = Top + 1 /\ Nth(Top + 1) = tailIndex /\ tailIndex # INVALID_BLOCK_BASE
    <2>1. tailIndex \in Int
      BY <1>1, CountsAre
    <2>2. /\ tailIndex \div BLOCK_SIZE \in Int /\ Base(tailIndex) = Nth(tailIndex \div BLOCK_SIZE)
          /\ tailIndex = Base(tailIndex) + (tailIndex % BLOCK_SIZE)
          /\ (tailIndex - 1) \div BLOCK_SIZE = tailIndex \div BLOCK_SIZE - 1
      BY <1>7, <2>1, BaseIs
    <2>3. Base(tailIndex) \in Int /\ Base(tailIndex) # INVALID_BLOCK_BASE
      BY <2>2, NthIs
    <2>4. Top = (tailIndex - 1) \div BLOCK_SIZE /\ Top' = tailIndex \div BLOCK_SIZE
      BY <1>2 DEF Top
    <2>5. Top \in Int /\ Top' = Top + 1 /\ Top + 1 = tailIndex \div BLOCK_SIZE
      BY <2>2, <2>4
    <2> QED BY <1>7, <2>1, <2>2, <2>3, <2>5
  <1>9. Age(s)' = 0 /\ \A p \in 0 .. Size - 1 : p # s => Age(p)' = Age(p) + 1
    <2>1. Age(s)' = 0
      BY <1>3, <1>6 DEF Age
    <2>2. ASSUME NEW p \in 0 .. Size - 1, p # s PROVE Age(p)' = Age(p) + 1
      BY <1>3, <1>4, <1>6, <2>2 DEF Age
    <2> QED BY <2>1, <2>2
  <1>10. \A f : Valid(f)' <=> Valid(f)
    BY <1>2 DEF Valid
  <1>11. RingOK'
    <2> SUFFICES ASSUME NEW p \in 0 .. Size - 1
                 PROVE  \/ keys[Place(p)] = INVALID_BLOCK_BASE
                        \/ keys[Place(p)] = Nth(Top - Age(p))'
      BY <1>2, <1>6 DEF RingOK
    <2>1. Nth(Top - Age(p))' = Nth((Top + 1) - Age(p)')
      BY <1>8 DEF Nth
    <2>2. CASE p = s
      <3>1. (Top + 1) - Age(p)' = Top + 1
        BY <1>8, <1>9, <2>2
      <3> QED BY <1>7, <1>8, <2>1, <2>2, <3>1
    <2>3. CASE p # s
      <3>1. Age(p) \in Int
        BY <1>1, AgeIs DEF StoreOK
      <3>2. (Top + 1) - Age(p)' = Top - Age(p)
        BY <1>8, <1>9, <2>3, <3>1
      <3> QED BY <1>1, <1>4, <2>1, <2>3, <3>2 DEF StoreOK, RingOK
    <2> QED BY <2>2, <2>3
  <1>12. TailsOK'
    <2>1. ASSUME NEW m \in DOMAIN headers', m < blockIndex'
          PROVE  Valid(headers[m].index[headers[m].tail])'
      <3>1. headers'[m] = headers[m] /\ m \in DOMAIN headers /\ m < blockIndex
        <4>1. blockIndex \in Nat /\ m \in Nat
          BY <1>1, <1>6, IndexIs DEF StoreOK
        <4> QED BY <1>6, <2>1, <4>1
      <3>2. Valid(headers[m].index[headers[m].tail])
        BY <1>1, <3>1 DEF StoreOK, TailsOK
      <3> QED BY <1>2, <3>1, <3>2 DEF Valid
    <2>2. Valid(Place(TailPlace))'
      <3>1. Place(TailPlace)' = Place(s)
        BY <1>6 DEF Place
      <3> QED BY <1>2, <1>7, <1>8, <3>1 DEF Valid
    <2>3. Top' >= 1 => Valid(Place((TailPlace - 1) % Size))'
      <3>1. (s - 1) % n = t
        <4>1. CASE t = n - 1
          <5>1. s = 0 /\ s - 1 \in -n .. -1
            BY <1>3, <1>4, <4>1
          <5>2. (s - 1) % n = s - 1 + n
            BY <1>3, <1>4, <5>1, RoundIs
          <5> QED BY <1>4, <4>1, <5>1, <5>2
        <4>2. CASE t # n - 1
          <5>1. s = t + 1 /\ s - 1 \in 0 .. n - 1
            BY <1>3, <1>4, <4>2
          <5>2. (s - 1) % n = s - 1
            BY <1>3, <1>4, <5>1, RoundIs
          <5> QED BY <1>4, <5>1, <5>2
        <4> QED BY <4>1, <4>2
      <3>2. Place((TailPlace - 1) % Size)' = Place(t)
        BY <1>4, <1>6, <3>1 DEF Place
      <3>3. Top' >= 1 => Top >= 0
        BY <1>8
      <3>4. Top >= 0 => Valid(Place(t))
        BY <1>1, <1>4 DEF StoreOK, TailsOK
      <3> QED BY <1>2, <3>2, <3>3, <3>4 DEF Valid
    <2> QED BY <1>2, <2>1, <2>2, <2>3 DEF TailsOK
  <1>13. StepOK'
    <2>1. Place(TailPlace)' = Place(s)
      BY <1>6 DEF Place
    <2> QED BY <1>2, <1>7, <2>1 DEF StepOK, InBlock
  <1>14. LinkedOK'
    <2>1. Entries' = Entries /\ (\A f : Busy(f)' = Busy(f)) /\ (\A k : Unclaimed(k)' = Unclaimed(k))
      BY <1>2 DEF Entries, Busy, Base, Unclaimed
    <2>2. ASSUME NEW f \in Entries, values[f] # None PROVE keys[f] <= Nth(Top)'
      <3>1. keys[f] <= Nth(Top) /\ keys[f] \in Nat
        BY <1>1, <2>2 DEF HeldOK, LinkedOK, PoolTypeOK, LookupTypeOK
      <3>2. Nth(Top) \in Int /\ Nth(Top + 1) \in Int /\ Nth(Top) < Nth(Top + 1)
        BY <1>8, NthIs
      <3>3. Nth(Top)' = Nth(Top + 1)
        BY <1>8 DEF Nth
      <3> QED BY <3>1, <3>2, <3>3
    <2> QED BY <1>1, <1>2, <1>10, <2>1, <2>2 DEF HeldOK, LinkedOK
  <1>15. CountTypeOK' /\ CountersOK' /\ PoolTypeOK' /\ FindTypeOK' /\ IndexesOK' /\ HeldOK'
    BY <1>2, <1>5, <1>14, MoveTailKeeps DEF Steps
  <1>16. StoreOK'
    BY <1>11, <1>12, <1>13, <1>15 DEF StoreOK
  <1> QED BY <1>15, <1>16, InvariantParts, PTL

(* RewindTail: the tail goes back to the block before, which is valid. *)
LEMMA RewindTailStep ==
  ASSUME IInv, RewindTail
  PROVE  IInv'
  <1>1. CountTypeOK /\ PoolTypeOK /\ FindTypeOK /\ CountersOK /\ StoreOK /\ HeldOK
    BY InvariantParts
  <1>2. /\ UNCHANGED <<counters, keys, values, memory, idxEntry, tailBlock, consumer,
                       tailIndex, headIndex, completed, pc, index, entry>>
        /\ step = "rewind" /\ step' = "clear value"
    BY DEF RewindTail, counters, memory, consumer, finding
  <1>3. /\ Size \in Nat \ {0} /\ Size >= 2 /\ TailPlace \in 0 .. Size - 1
    BY <1>1, IndexIs, AgeIs DEF StoreOK
  <1>4. PICK n \in Nat, t \in 0 .. Size - 1 : n = Size /\ t = TailPlace
    BY <1>3
  <1>5. (t - 1) % n = IF t = 0 THEN n - 1 ELSE t - 1
    <2>1. CASE t = 0
      <3>1. t - 1 \in -n .. -1
        BY <1>3, <1>4, <2>1
      <3>2. (t - 1) % n = t - 1 + n
        BY <1>3, <1>4, <3>1, RoundIs
      <3> QED BY <1>3, <1>4, <2>1, <3>2
    <2>2. CASE t # 0
      <3>1. t - 1 \in 0 .. n - 1
        BY <1>3, <1>4, <2>2
      <3> QED BY <1>3, <1>4, <2>2, <3>1, RoundIs
    <2> QED BY <2>1, <2>2
  <1>6. PICK s \in 0 .. Size - 1 : s = (t - 1) % n
    BY <1>3, <1>4, <1>5
  <1>7. MoveTail(s)
    BY <1>4, <1>6 DEF RewindTail, MoveTail, TailPlace, Size, Cap, Current
  <1>8. /\ blockIndex' = blockIndex /\ DOMAIN headers' = DOMAIN headers
        /\ TailPlace' = s /\ Size' = Size /\ (\A p : Place(p)' = Place(p))
        /\ \A m \in DOMAIN headers : /\ headers'[m].index = headers[m].index
                                     /\ m # blockIndex => headers'[m] = headers[m]
    BY <1>1, <1>2, <1>7, MoveTailIs DEF StoreOK
  <1>9. /\ tailIndex % BLOCK_SIZE = 0 /\ tailIndex < MaxElems
        /\ idxEntry = Place(t) /\ values[idxEntry] = None /\ keys[idxEntry] = tailIndex
    BY <1>1, <1>2, <1>4 DEF StoreOK, StepOK
  <1>10. Top \in Int /\ Top' = Top - 1 /\ Nth(Top) = tailIndex /\ tailIndex # INVALID_BLOCK_BASE
    <2>1. tailIndex \in Int
      BY <1>1, CountsAre
    <2>2. /\ tailIndex \div BLOCK_SIZE \in Int /\ Base(tailIndex) = Nth(tailIndex \div BLOCK_SIZE)
          /\ tailIndex = Base(tailIndex) + (tailIndex % BLOCK_SIZE)
          /\ (tailIndex - 1) \div BLOCK_SIZE = tailIndex \div BLOCK_SIZE - 1
      BY <1>9, <2>1, BaseIs
    <2>3. Base(tailIndex) \in Int /\ Base(tailIndex) # INVALID_BLOCK_BASE
      BY <2>2, NthIs
    <2>4. Top = tailIndex \div BLOCK_SIZE /\ Top' = (tailIndex - 1) \div BLOCK_SIZE
      BY <1>2 DEF Top
    <2>5. Top \in Int /\ Top' = Top - 1
      BY <2>2, <2>4
    <2> QED BY <1>9, <2>1, <2>2, <2>3, <2>4, <2>5
  <1>11. NextPlace' = t
    <2>1. NextPlace' = (s + 1) % n
      <3>1. NextPlace' = (TailPlace' + 1) % Size'
        BY DEF NextPlace, NextSlot, TailPlace, Size, Cap, Current
      <3> QED BY <1>4, <1>8, <3>1
    <2>2. CASE t = 0
      <3>1. s + 1 = n /\ s + 1 \in n .. n + n - 1
        BY <1>3, <1>4, <1>5, <1>6, <2>2
      <3>2. (s + 1) % n = s + 1 - n
        BY <1>3, <1>4, <3>1, RoundIs
      <3> QED BY <1>3, <1>4, <2>1, <2>2, <3>1, <3>2
    <2>3. CASE t # 0
      <3>1. s + 1 = t /\ t \in 0 .. n - 1
        BY <1>3, <1>4, <1>5, <1>6, <2>3
      <3>2. t % n = t
        BY <1>3, <1>4, <3>1, RoundIs
      <3> QED BY <2>1, <3>1, <3>2
    <2> QED BY <2>2, <2>3
  <1>12. \A p \in 0 .. Size - 1 : p # t => Age(p)' = Age(p) - 1
    <2>1. ASSUME NEW p \in 0 .. Size - 1, p # t PROVE Age(p)' = Age(p) - 1
      BY <1>3, <1>4, <1>5, <1>6, <1>8, <2>1 DEF Age
    <2> QED BY <2>1
  <1>13. \A f : Valid(f)' <=> Valid(f)
    BY <1>2 DEF Valid
  <1>14. RingOK'
    <2> SUFFICES ASSUME NEW p \in 0 .. Size - 1
                 PROVE  \/ keys[Place(p)] = INVALID_BLOCK_BASE
                        \/ keys[Place(p)] = Nth(Top - Age(p))'
                        \/ p = t /\ keys[Place(p)] = tailIndex /\ tailIndex = Nth(Top + 1)'
      BY <1>2, <1>8, <1>11 DEF RingOK
    <2>1. Nth(Top - Age(p))' = Nth((Top - 1) - Age(p)') /\ Nth(Top + 1)' = Nth((Top - 1) + 1)
      BY <1>10 DEF Nth
    <2>2. CASE p = t
      <3>1. (Top - 1) + 1 = Top
        BY <1>10
      <3> QED BY <1>9, <1>10, <2>1, <2>2, <3>1
    <2>3. CASE p # t
      <3>1. Age(p) \in Int
        BY <1>1, AgeIs DEF StoreOK
      <3>2. (Top - 1) - Age(p)' = Top - Age(p)
        BY <1>10, <1>12, <2>3, <3>1
      <3>3. tailIndex # Nth(Top + 1)
        <4>1. Top + 1 \in Int /\ Top < Top + 1
          BY <1>10
        <4>2. Nth(Top) < Nth(Top + 1) /\ Nth(Top) \in Int /\ Nth(Top + 1) \in Int
          BY <1>10, <4>1, NthIs
        <4> QED BY <1>10, <4>2
      <3>4. keys[Place(p)] = INVALID_BLOCK_BASE \/ keys[Place(p)] = Nth(Top - Age(p))
        BY <1>1, <3>3 DEF StoreOK, RingOK
      <3> QED BY <2>1, <3>2, <3>4
    <2> QED BY <2>2, <2>3
  <1>15. TailsOK'
    <2>1. ASSUME NEW m \in DOMAIN headers', m < blockIndex'
          PROVE  Valid(headers[m].index[headers[m].tail])'
      <3>1. headers'[m] = headers[m] /\ m \in DOMAIN headers /\ m < blockIndex
        <4>1. blockIndex \in Nat /\ m \in Nat
          BY <1>1, <1>8, IndexIs DEF StoreOK
        <4> QED BY <1>8, <2>1, <4>1
      <3>2. Valid(headers[m].index[headers[m].tail])
        BY <1>1, <3>1 DEF StoreOK, TailsOK
      <3> QED BY <1>2, <3>1, <3>2 DEF Valid
    <2>2. Top' >= 0 => Valid(Place(TailPlace))'
      <3>1. Place(TailPlace)' = Place(s)
        BY <1>8 DEF Place
      <3>2. Top' >= 0 => Top >= 1
        BY <1>10
      <3>3. Top >= 1 => Valid(Place(s))
        BY <1>1, <1>2, <1>4, <1>6 DEF StoreOK, TailsOK
      <3> QED BY <1>2, <3>1, <3>2, <3>3 DEF Valid
    <2> QED BY <1>2, <2>1, <2>2 DEF TailsOK
  <1>16. StepOK'
    <2>1. Place(NextPlace)' = Place(t)
      BY <1>8, <1>11 DEF Place
    <2> QED BY <1>2, <1>9, <2>1 DEF StepOK, InBlock
  <1>17. LinkedOK'
    <2>1. Entries' = Entries /\ (\A f : Busy(f)' = Busy(f)) /\ (\A k : Unclaimed(k)' = Unclaimed(k))
      BY <1>2 DEF Entries, Busy, Base, Unclaimed
    <2>2. ASSUME NEW f \in Entries, values[f] # None PROVE keys[f] <= Nth(Top)'
      <3>1. keys[f] <= Nth(Top) /\ Valid(f)
        BY <1>1, <2>2 DEF HeldOK, LinkedOK
      <3>2. tailIndex \in Int
        BY <1>1, CountsAre
      <3>3. PICK k \in Int : keys[f] = Nth(k)
        BY <1>1, <3>1, <3>2, KeyBase DEF StoreOK
      <3>4. keys[f] # Nth(Top)
        <4>1. idxEntry \in Entries
          BY <1>1, <1>4, <1>9, IndexIs DEF StoreOK
        <4>2. keys[f] = keys[idxEntry] => f = idxEntry
          BY <1>1, <3>1, <3>2, <4>1, KeysDistinct DEF StoreOK
        <4> QED BY <1>9, <1>10, <2>2, <4>2
      <3>5. k < Top
        <4>1. Top < k => Nth(Top) < Nth(k)
          BY <1>10, NthIs
        <4>2. Nth(Top) \in Int /\ Nth(k) \in Int
          BY <1>10, NthIs
        <4>3. ~(Top < k)
          BY <3>1, <3>3, <4>1, <4>2
        <4> QED BY <1>10, <3>3, <3>4, <4>3
      <3>6. Nth(k) <= Nth(Top - 1)
        <4>1. Top - 1 \in Int /\ (k = Top - 1 \/ k < Top - 1)
          BY <1>10, <3>5
        <4>2. Nth(k) \in Int /\ Nth(Top - 1) \in Int /\ (k < Top - 1 => Nth(k) < Nth(Top - 1))
          BY <4>1, NthIs
        <4>3. CASE k = Top - 1
          BY <4>2, <4>3
        <4>4. CASE k < Top - 1
          BY <4>2, <4>4
        <4> QED BY <4>1, <4>3, <4>4
      <3>7. Nth(Top)' = Nth(Top - 1)
        BY <1>10 DEF Nth
      <3> QED BY <3>3, <3>6, <3>7
    <2> QED BY <1>1, <1>2, <1>13, <2>1, <2>2 DEF HeldOK, LinkedOK
  <1>18. CountTypeOK' /\ CountersOK' /\ PoolTypeOK' /\ FindTypeOK' /\ IndexesOK' /\ HeldOK'
    BY <1>2, <1>7, <1>17, MoveTailKeeps DEF Steps
  <1>19. StoreOK'
    BY <1>14, <1>15, <1>16, <1>18 DEF StoreOK
  <1> QED BY <1>18, <1>19, InvariantParts, PTL

-----------------------------------------------------------------------------
(* A larger block index *)

(* Where an entry at place r of the new index was in the old one, of n places
   with its tail at t.                                                      *)
OldPlace(n, t, r) == IF t + 1 + r < n THEN t + 1 + r ELSE t + 1 + r - n

(* OldPlace is a permutation that keeps distances, up to the capacity. *)
Rotation(n, t) ==
  /\ \A r \in 0 .. n - 1 : OldPlace(n, t, r) \in 0 .. n - 1
  /\ OldPlace(n, t, n - 1) = t
  /\ \A r, s \in 0 .. n - 1 :
       /\ OldPlace(n, t, r) = OldPlace(n, t, s) => r = s
       /\ (r - s) - (OldPlace(n, t, r) - OldPlace(n, t, s)) \in {0, n, 0 - n}
  /\ \A p \in 0 .. n - 1 : \E r \in 0 .. n - 1 : OldPlace(n, t, r) = p

(* The old places come round once, in the same order. *)
LEMMA OldPlaceIs ==
  ASSUME NEW n \in Nat, n >= 2, NEW t \in 0 .. n - 1
  PROVE  Rotation(n, t)
  <1>1. ASSUME NEW r \in 0 .. n - 1
        PROVE  OldPlace(n, t, r) \in 0 .. n - 1
    BY DEF OldPlace
  <1>2. OldPlace(n, t, n - 1) = t
    BY DEF OldPlace
  <1>3. ASSUME NEW r \in 0 .. n - 1, NEW s \in 0 .. n - 1
        PROVE  /\ OldPlace(n, t, r) = OldPlace(n, t, s) => r = s
               /\ (r - s) - (OldPlace(n, t, r) - OldPlace(n, t, s)) \in {0, n, 0 - n}
    BY DEF OldPlace
  <1>4. ASSUME NEW p \in 0 .. n - 1
        PROVE  \E r \in 0 .. n - 1 : OldPlace(n, t, r) = p
    <2>1. CASE p > t
      <3>1. p - t - 1 \in 0 .. n - 1 /\ OldPlace(n, t, p - t - 1) = p
        BY <2>1 DEF OldPlace
      <3> QED BY <3>1
    <2>2. CASE ~(p > t)
      <3>1. p - t - 1 + n \in 0 .. n - 1 /\ OldPlace(n, t, p - t - 1 + n) = p
        BY <2>2 DEF OldPlace
      <3> QED BY <3>1
    <2> QED BY <2>1, <2>2
  <1> QED BY <1>1, <1>2, <1>3, <1>4 DEF Rotation

(* ... and is the one the loop computes. *)
LEMMA OldPlaceMod ==
  ASSUME NEW n \in Nat, n >= 2, NEW t \in 0 .. n - 1, NEW r \in 0 .. n - 1
  PROVE  (t + 1 + r) % n = OldPlace(n, t, r)
  <1>1. CASE t + 1 + r < n
    <2>1. t + 1 + r \in 0 .. n - 1 /\ t + 1 + r \in Int /\ n \in Nat \ {0}
      BY <1>1
    <2>2. (t + 1 + r) % n = t + 1 + r
      BY <2>1, RoundIs
    <2> QED BY <1>1, <2>1, <2>2 DEF OldPlace
  <1>2. CASE ~(t + 1 + r < n)
    <2>1. /\ t + 1 + r \in n .. n + n - 1 /\ t + 1 + r - n \in 0 .. n - 1
          /\ t + 1 + r \in Int /\ n \in Nat \ {0}
      BY <1>2
    <2>2. (t + 1 + r) % n = t + 1 + r - n
      BY <2>1, RoundIs
    <2> QED BY <1>2, <2>1, <2>2 DEF OldPlace
  <1> QED BY <1>1, <1>2

(* The new header has the old entries, the oldest first, then new ones. *)
GrownTo(n, t, m) ==
  /\ m >= 1 /\ DOMAIN headers = 1 .. m /\ DOMAIN headers' = 1 .. m + 1 /\ blockIndex' = m + 1
  /\ \A k \in 1 .. m : headers'[k] = headers[k]
  /\ headers'[m + 1] = [tail |-> n - 1, index |-> headers'[m + 1].index]
  /\ headers'[m + 1].index \in [0 .. n + n - 1 -> 1 .. n + n]
  /\ Size' = n + n /\ TailPlace' = n - 1
  /\ \A r \in 0 .. n - 1 : Place(r)' = Place(OldPlace(n, t, r))
  /\ \A r \in n .. n + n - 1 : Place(r)' = r + 1
  /\ headers' \in Seq({headers'[k] : k \in DOMAIN headers'}) /\ headers' # <<>>

(* The loop that fills the new index does so: NewBlockIndex. *)
LEMMA GrowIs ==
  ASSUME IndexesOK, NewBlockIndex,
         NEW n \in Nat, NEW t \in Nat, NEW m \in Nat, n = Size, t = TailPlace, m = blockIndex
  PROVE  GrownTo(n, t, m)
  <1> DEFINE S == {headers[k] : k \in DOMAIN headers}
             G == [i \in 0 .. n + n - 1 |-> IF i < n THEN Current.index[(t + 1 + i) % n] ELSE i + 1]
             H == [tail |-> n - 1, index |-> G]
  <1>1. /\ n >= 2 /\ t \in 0 .. n - 1 /\ m >= 1 /\ DOMAIN headers = 1 .. m
        /\ Current.index \in [0 .. n - 1 -> 1 .. n]
    BY IndexIs
  <1>2. headers' = Append(headers, H)
    <2>1. 2 * n - 1 = n + n - 1
      OBVIOUS
    <2>2. /\ headers' = Append(headers, [tail |-> Capacity(Current) - 1, index |-> Grown(Current)])
          /\ Capacity(Current) = n /\ Current.tail = t
      BY DEF NewBlockIndex, Size, Cap, Current, TailPlace
    <2>3. Grown(Current) = G
      BY <2>1, <2>2 DEF Grown
    <2> QED BY <2>2, <2>3
  <1>3. G \in [0 .. n + n - 1 -> 1 .. n + n]
    <2> SUFFICES ASSUME NEW i \in 0 .. n + n - 1
                 PROVE  (IF i < n THEN Current.index[(t + 1 + i) % n] ELSE i + 1) \in 1 .. n + n
      OBVIOUS
    <2>1. CASE i < n
      <3>3. i \in 0 .. n - 1
        BY <2>1
      <3>4. OldPlace(n, t, i) \in 0 .. n - 1
        BY <1>1, <3>3, OldPlaceIs DEF Rotation
      <3>5. (t + 1 + i) % n = OldPlace(n, t, i)
        BY <1>1, <3>3, OldPlaceMod
      <3>1. (t + 1 + i) % n \in 0 .. n - 1
        BY <3>4, <3>5
      <3>2. Current.index[(t + 1 + i) % n] \in 1 .. n
        BY <1>1, <3>1
      <3> QED BY <2>1, <3>2
    <2>2. CASE ~(i < n)
      BY <2>2
    <2> QED BY <2>1, <2>2
  <1>4. \A r \in 0 .. n - 1 : G[r] = Place(OldPlace(n, t, r))
    <2> SUFFICES ASSUME NEW r \in 0 .. n - 1 PROVE G[r] = Place(OldPlace(n, t, r))
      OBVIOUS
    <2>1. r \in 0 .. n + n - 1 /\ r < n
      OBVIOUS
    <2>2. (t + 1 + r) % n = OldPlace(n, t, r)
      BY <1>1, OldPlaceMod
    <2> QED BY <2>1, <2>2 DEF Place
  <1>5. \A r \in n .. n + n - 1 : G[r] = r + 1
    OBVIOUS
  <1>6. headers \in Seq(S) /\ Len(headers) = m
    BY DEF IndexesOK, blockIndex
  <1> HIDE DEF G, S
  <1>7. headers \in Seq(S \cup {H}) /\ H \in S \cup {H}
    BY <1>6, SeqMonotonic
  <1> HIDE DEF H
  <1>8. /\ headers' \in Seq(S \cup {H}) /\ headers' # <<>> /\ Len(headers') = m + 1
        /\ \A k \in 1 .. m : headers'[k] = headers[k]
        /\ headers'[m + 1] = H
    BY <1>2, <1>6, <1>7, AppendProperties
  <1>9. headers' \in [1 .. m + 1 -> S \cup {H}]
    BY <1>8, LenProperties
  <1>10. headers' \in Seq({headers'[k] : k \in DOMAIN headers'})
    <2> DEFINE T == {headers'[k] : k \in DOMAIN headers'}
    <2>1. headers' \in [1 .. m + 1 -> T]
      BY <1>9
    <2> HIDE DEF T
    <2>2. headers' \in Seq(T)
      BY <2>1, FunctionIsSeq
    <2> QED BY <2>2 DEF T
  <1>11. blockIndex' = m + 1 /\ Current' = H
    BY <1>8 DEF blockIndex, Current
  <1>12. H.tail = n - 1 /\ H.index = G
    BY DEF H
  <1>13. Size' = n + n
    <2>1. DOMAIN G = 0 .. n + n - 1
      BY <1>3
    <2>2. Cardinality(0 .. n + n - 1) = n + n
      <3>1. 0 \in Int /\ n + n - 1 \in Int /\ ~(0 > n + n - 1) /\ n + n - 1 - 0 + 1 = n + n
        BY <1>1
      <3>2. Cardinality(0 .. n + n - 1) = IF 0 > n + n - 1 THEN 0 ELSE n + n - 1 - 0 + 1
        BY <3>1, FS_Interval
      <3> QED BY <3>1, <3>2
    <2>3. Size' = Cardinality(DOMAIN Current'.index)
      BY DEF Size, Cap, Capacity, Current
    <2> QED BY <1>11, <1>12, <2>1, <2>2, <2>3
  <1>14. TailPlace' = n - 1 /\ \A r : Place(r)' = G[r]
    BY <1>11, <1>12 DEF TailPlace, Place
  <1>15. headers'[m + 1] = [tail |-> n - 1, index |-> headers'[m + 1].index] /\ headers'[m + 1].index = G
    BY <1>8, <1>12 DEF H
  <1>16. DOMAIN headers' = 1 .. m + 1
    BY <1>9
  <1> QED BY <1>1, <1>3, <1>4, <1>5, <1>8, <1>10, <1>11, <1>13, <1>14, <1>15, <1>16 DEF GrownTo

(* NewBlockIndex: old and new headers lead to the same entries. *)
LEMMA NewBlockIndexStep ==
  ASSUME IInv, NewBlockIndex
  PROVE  IInv'
  <1>1. CountTypeOK /\ PoolTypeOK /\ FindTypeOK /\ CountersOK /\ StoreOK /\ HeldOK
    BY InvariantParts
  <1>2. /\ UNCHANGED <<counters, memory, tailBlock, consumer, tailIndex, headIndex,
                       dequeueOptimisticCount, dequeueOvercommit, cells, completed, unused, free,
                       pc, index, header, slot, entry, block, answer>>
        /\ step = "grow" /\ step' = "store key"
    BY DEF NewBlockIndex, counters, memory, consumer, finding
  <1>3. PICK n \in Nat, t \in Nat, m \in Nat : n = Size /\ t = TailPlace /\ m = blockIndex
    <2>1. Size \in Nat /\ TailPlace \in Nat /\ blockIndex \in Nat
      BY <1>1, IndexIs DEF StoreOK
    <2> QED BY <2>1
  <1>4. n >= 2 /\ t \in 0 .. n - 1 /\ Entries = 1 .. n /\ n - 1 \in 0 .. n - 1
    <2>1. IndexesOK
      BY <1>1 DEF StoreOK
    <2>2. Size >= 2 /\ TailPlace \in 0 .. Size - 1
      BY <2>1, IndexIs
    <2>3. Entries = 1 .. Size
      BY <2>1 DEF IndexesOK
    <2>4. n - 1 \in 0 .. n - 1
      BY <1>3, <2>2
    <2> QED BY <1>3, <2>2, <2>3, <2>4
  <1>5. /\ m >= 1 /\ DOMAIN headers = 1 .. m /\ DOMAIN headers' = 1 .. m + 1 /\ blockIndex' = m + 1
        /\ \A k \in 1 .. m : headers'[k] = headers[k]
        /\ headers'[m + 1] = [tail |-> n - 1, index |-> headers'[m + 1].index]
        /\ headers'[m + 1].index \in [0 .. n + n - 1 -> 1 .. n + n]
        /\ Size' = n + n /\ TailPlace' = n - 1
        /\ \A r \in 0 .. n - 1 : Place(r)' = Place(OldPlace(n, t, r))
        /\ \A r \in n .. n + n - 1 : Place(r)' = r + 1
        /\ headers' \in Seq({headers'[k] : k \in DOMAIN headers'}) /\ headers' # <<>>
    <2>1. IndexesOK
      BY <1>1 DEF StoreOK
    <2>2. NewBlockIndex
      OBVIOUS
    <2>3. GrownTo(n, t, m)
      BY <1>3, <2>1, <2>2, GrowIs
    <2> QED BY <2>3 DEF GrownTo
  <1>6. /\ \A r \in 0 .. n - 1 : OldPlace(n, t, r) \in 0 .. n - 1
        /\ OldPlace(n, t, n - 1) = t
        /\ \A r, s \in 0 .. n - 1 :
             /\ OldPlace(n, t, r) = OldPlace(n, t, s) => r = s
             /\ (r - s) - (OldPlace(n, t, r) - OldPlace(n, t, s)) \in {0, n, 0 - n}
        /\ \A p \in 0 .. n - 1 : \E r \in 0 .. n - 1 : OldPlace(n, t, r) = p
    <2>1. Rotation(n, t)
      BY <1>3, <1>4, OldPlaceIs
    <2> QED BY <2>1 DEF Rotation
  <1>7. /\ keys' = [i \in 1 .. n + n |-> IF i <= n THEN keys[i] ELSE INVALID_BLOCK_BASE]
        /\ values' = [i \in 1 .. n + n |-> IF i <= n THEN values[i] ELSE None]
        /\ idxEntry' = n + 1
    <2>1. /\ keys' = [i \in 1 .. 2 * n |-> IF i <= n THEN keys[i] ELSE INVALID_BLOCK_BASE]
          /\ values' = [i \in 1 .. 2 * n |-> IF i <= n THEN values[i] ELSE None]
          /\ idxEntry' = n + 1
      BY <1>3 DEF NewBlockIndex, Size, Cap, Current
    <2>2. 2 * n = n + n
      OBVIOUS
    <2> QED BY <2>1, <2>2
  <1>8. \A i \in 1 .. n : i \in 1 .. n + n /\ i <= n
    BY <1>4
  <1>9. \A i \in 1 .. n + n : i \notin 1 .. n => ~(i <= n)
    BY <1>4
  <1>10. /\ Entries' = 1 .. n + n /\ DOMAIN values' = 1 .. n + n
         /\ \A f \in 1 .. n : keys'[f] = keys[f] /\ values'[f] = values[f]
         /\ \A f \in 1 .. n + n : f \notin 1 .. n => keys'[f] = INVALID_BLOCK_BASE /\ values'[f] = None
    BY <1>7, <1>8, <1>9 DEF Entries
  <1>11. Top' = Top /\ Top \in Int /\ tailIndex \in Int
    <2>1. tailIndex \in Int
      BY <1>1, CountsAre
    <2>2. Top' = Top
      BY <1>2 DEF Top
    <2> QED BY <2>1, <2>2, TopIs
  <1>12. \A k \in 1 .. m : Cap(k)' = Cap(k) /\ headers'[k].index = headers[k].index /\ headers'[k].tail = headers[k].tail
    BY <1>5 DEF Cap, Capacity
  <1>13. Cap(m + 1)' = n + n
    BY <1>5 DEF Size, Cap
  (* The places of the new index. *)
  <1>14. \A r \in 0 .. n - 1 : Place(r)' \in 1 .. n
    <2> SUFFICES ASSUME NEW r \in 0 .. n - 1 PROVE Place(r)' \in 1 .. n
      OBVIOUS
    <2>1. OldPlace(n, t, r) \in 0 .. Size - 1
      BY <1>3, <1>6
    <2>2. Place(OldPlace(n, t, r)) \in 1 .. n
      BY <1>1, <1>4, <2>1, IndexIs DEF StoreOK
    <2> QED BY <1>5, <2>2
  <1>15. \A r \in 0 .. n + n - 1 : r \in 0 .. n - 1 \/ r \in n .. n + n - 1
    BY <1>4
  <1>16. IndexesOK'
    <2>1. /\ \A r, s \in 0 .. n + n - 1 : Place(r)' = Place(s)' => r = s
          /\ \A e \in 1 .. n + n : \E r \in 0 .. n + n - 1 : Place(r)' = e
      <3>1. ASSUME NEW r \in 0 .. n + n - 1, NEW s \in 0 .. n + n - 1, Place(r)' = Place(s)'
            PROVE  r = s
        <4>1. CASE r \in 0 .. n - 1 /\ s \in 0 .. n - 1
          <5>1. Place(OldPlace(n, t, r)) = Place(OldPlace(n, t, s))
            BY <1>5, <3>1, <4>1
          <5>2. OldPlace(n, t, r) \in 0 .. Size - 1 /\ OldPlace(n, t, s) \in 0 .. Size - 1
            BY <1>3, <1>6, <4>1
          <5>3. OldPlace(n, t, r) = OldPlace(n, t, s)
            BY <1>1, <5>1, <5>2 DEF StoreOK, IndexesOK
          <5> QED BY <1>6, <4>1, <5>3
        <4>2. CASE r \in n .. n + n - 1 /\ s \in n .. n + n - 1
          <5>1. r + 1 = s + 1
            BY <1>5, <3>1, <4>2
          <5> QED BY <5>1
        <4>3. CASE r \in 0 .. n - 1 /\ s \in n .. n + n - 1
          <5>1. Place(r)' \in 1 .. n /\ Place(r)' = s + 1
            BY <1>5, <1>14, <3>1, <4>3
          <5>2. s + 1 \in 1 .. n
            BY <5>1
          <5> QED BY <4>3, <5>2
        <4>4. CASE s \in 0 .. n - 1 /\ r \in n .. n + n - 1
          <5>1. Place(s)' \in 1 .. n /\ Place(s)' = r + 1
            BY <1>5, <1>14, <3>1, <4>4
          <5>2. r + 1 \in 1 .. n
            BY <5>1
          <5> QED BY <4>4, <5>2
        <4> QED BY <1>15, <4>1, <4>2, <4>3, <4>4
      <3>2. ASSUME NEW e \in 1 .. n + n PROVE \E r \in 0 .. n + n - 1 : Place(r)' = e
        <4>1. CASE e \in 1 .. n
          <5>1. PICK p \in 0 .. Size - 1 : Place(p) = e
            BY <1>1, <1>3, <4>1 DEF StoreOK, IndexesOK
          <5>2. PICK r \in 0 .. n - 1 : OldPlace(n, t, r) = p
            BY <1>3, <1>6, <5>1
          <5>3. r \in 0 .. n + n - 1
            BY <1>4
          <5>4. Place(r)' = e
            BY <1>5, <5>1, <5>2
          <5> QED BY <5>3, <5>4
        <4>2. CASE e \notin 1 .. n
          <5>1. e - 1 \in n .. n + n - 1 /\ e - 1 \in 0 .. n + n - 1 /\ e - 1 + 1 = e
            BY <4>2
          <5>2. Place(e - 1)' = e
            BY <1>5, <5>1
          <5> QED BY <5>1, <5>2
        <4> QED BY <4>1, <4>2
      <3> QED BY <3>1, <3>2
    <2>2. ASSUME NEW k \in 1 .. m PROVE HeaderOK(k)'
      <3>1. HeaderOK(k)
        BY <1>1, <1>5 DEF StoreOK, IndexesOK
      <3>2. PICK c \in Nat : c = Cap(k) /\ c >= 2 /\ c <= n
        BY <1>3, <3>1 DEF HeaderOK
      <3>3. /\ Multiple(c, n)
            /\ \A p, q \in 0 .. c - 1, r, s \in 0 .. n - 1 :
                 Place(r) = headers[k].index[p] /\ Place(s) = headers[k].index[q]
                   => Multiple(c, (r - s) - (p - q))
        BY <1>3, <3>1, <3>2 DEF HeaderOK, Coherent
      <3>4. headers[k].index \in [0 .. c - 1 -> 1 .. c]
        BY <3>1, <3>2 DEF HeaderOK
      <3>5. c \in Nat \ {0} /\ Multiple(c, n + n) /\ Multiple(c, 0 - n) /\ Multiple(c, 0)
        <4>1. c \in Nat \ {0}
          BY <3>2
        <4>2. Multiple(c, 0)
          BY <4>1, MultipleIs
        <4>3. Multiple(c, n + n)
          BY <3>3, <4>1, MultipleIs
        <4>4. Multiple(c, 0 - n)
          BY <3>3, <4>1, <4>2, MultipleIs
        <4> QED BY <4>1, <4>2, <4>3, <4>4
      <3>6. ASSUME NEW p \in 0 .. c - 1, NEW q \in 0 .. c - 1,
                   NEW r \in 0 .. n + n - 1, NEW s \in 0 .. n + n - 1,
                   Place(r)' = headers[k].index[p], Place(s)' = headers[k].index[q]
            PROVE  Multiple(c, (r - s) - (p - q))
        <4>1. Place(r)' \in 1 .. n /\ Place(s)' \in 1 .. n
          <5>1. headers[k].index[p] \in 1 .. c /\ headers[k].index[q] \in 1 .. c
            BY <3>4
          <5>2. 1 .. c \subseteq 1 .. n
            BY <3>2, RangesIn
          <5> QED BY <3>6, <5>1, <5>2
        <4>2. r \in 0 .. n - 1
          <5>1. r \in n .. n + n - 1 => r + 1 \in 1 .. n
            BY <1>5, <4>1
          <5>2. r \notin n .. n + n - 1
            BY <5>1
          <5> QED BY <1>15, <5>2
        <4>3. s \in 0 .. n - 1
          <5>1. s \in n .. n + n - 1 => s + 1 \in 1 .. n
            BY <1>5, <4>1
          <5>2. s \notin n .. n + n - 1
            BY <5>1
          <5> QED BY <1>15, <5>2
        <4>4. PICK i \in 0 .. n - 1, j \in 0 .. n - 1 : i = OldPlace(n, t, r) /\ j = OldPlace(n, t, s)
          BY <1>6, <4>2, <4>3
        <4>5. Multiple(c, (i - j) - (p - q))
          <5>1. Place(i) = headers[k].index[p] /\ Place(j) = headers[k].index[q]
            BY <1>5, <3>6, <4>2, <4>3, <4>4
          <5> QED BY <3>3, <5>1
        <4>6. (r - s) - (i - j) \in {0, n, 0 - n}
          BY <1>6, <4>2, <4>3, <4>4
        <4>7. Multiple(c, (r - s) - (i - j))
          BY <3>3, <3>5, <4>6
        <4>8. (r - s) - (i - j) \in Int /\ (i - j) - (p - q) \in Int
              /\ ((r - s) - (i - j)) + ((i - j) - (p - q)) = (r - s) - (p - q)
          OBVIOUS
        <4>9. Multiple(c, ((r - s) - (i - j)) + ((i - j) - (p - q)))
          BY <3>5, <4>5, <4>7, <4>8, MultipleIs
        <4> QED BY <4>8, <4>9
      <3>10. Cap(k)' = c /\ Size' = n + n /\ headers'[k].index = headers[k].index
        BY <1>5, <1>12, <3>2
      <3>11. \A p, q \in 0 .. Cap(k)' - 1, r, s \in 0 .. Size' - 1 :
               Place(r)' = headers'[k].index[p] /\ Place(s)' = headers'[k].index[q]
                 => Multiple(Cap(k)', (r - s) - (p - q))
        BY <3>6, <3>10
      <3>7. Coherent(k)'
        <4>1. Multiple(Cap(k)', Size')
          BY <3>5, <3>10
        <4> QED BY <3>11, <4>1 DEF Coherent
      <3>8. /\ headers'[k] = [tail |-> headers'[k].tail, index |-> headers'[k].index]
            /\ headers'[k].tail \in 0 .. c - 1 /\ headers'[k].index \in [0 .. c - 1 -> 1 .. c]
        BY <1>5, <3>1, <3>2 DEF HeaderOK
      <3>12. c <= n + n
        BY <3>2
      <3>9. Cap(k)' = c /\ c <= n + n /\ Size' = n + n
        BY <3>10, <3>12
      <3> QED BY <3>2, <3>7, <3>8, <3>9 DEF HeaderOK
    <2>3. HeaderOK(m + 1)'
      <3>1. n + n \in Nat \ {0} /\ n - 1 \in 0 .. n + n - 1 /\ 2 <= n + n /\ n + n <= n + n
        BY <1>4
      <3>2. Multiple(n + n, n + n) /\ Multiple(n + n, 0)
        BY <3>1, MultipleIs
      <3>3. \A r \in 0 .. n + n - 1 : Place(r)' = headers'[m + 1].index[r]
        BY <1>5 DEF Place, Current
      <3>4. ASSUME NEW p \in 0 .. n + n - 1, NEW q \in 0 .. n + n - 1,
                   NEW r \in 0 .. n + n - 1, NEW s \in 0 .. n + n - 1,
                   Place(r)' = headers'[m + 1].index[p], Place(s)' = headers'[m + 1].index[q]
            PROVE  Multiple(n + n, (r - s) - (p - q))
        <4>1. r = p /\ s = q
          BY <2>1, <3>3, <3>4
        <4>2. (r - s) - (p - q) = 0
          BY <4>1
        <4> QED BY <3>2, <4>2
      <3>7. \A p, q \in 0 .. Cap(m + 1)' - 1, r, s \in 0 .. Size' - 1 :
               Place(r)' = headers'[m + 1].index[p] /\ Place(s)' = headers'[m + 1].index[q]
                 => Multiple(Cap(m + 1)', (r - s) - (p - q))
        <4>1. Cap(m + 1)' = n + n /\ Size' = n + n
          BY <1>5, <1>13
        <4> QED BY <3>4, <4>1
      <3>8. Multiple(Cap(m + 1)', Size')
        BY <1>5, <1>13, <3>2
      <3>5. Coherent(m + 1)'
        BY <3>7, <3>8 DEF Coherent
      <3>6. headers'[m + 1] = [tail |-> headers'[m + 1].tail, index |-> headers'[m + 1].index]
            /\ headers'[m + 1].tail = n - 1
        BY <1>5
      <3>9. /\ Cap(m + 1)' = n + n /\ Size' = n + n
            /\ headers'[m + 1].index \in [0 .. n + n - 1 -> 1 .. n + n]
        BY <1>5, <1>13
      <3>10. n + n \in Nat
        BY <3>1
      <3> QED BY <3>1, <3>5, <3>6, <3>9, <3>10 DEF HeaderOK
    <2>4. \A k \in DOMAIN headers' : HeaderOK(k)'
      <3>1. \A k \in 1 .. m + 1 : k \in 1 .. m \/ k = m + 1
        OBVIOUS
      <3> QED BY <1>5, <2>2, <2>3, <3>1
    <2> QED BY <1>5, <1>10, <2>1, <2>4 DEF IndexesOK
  (* The tail of the old index has a key: so does the one behind it. *)
  <1>17. /\ tailIndex % BLOCK_SIZE = 0 /\ tailIndex < MaxElems
         /\ keys[Place(NextPlace)] <= Nth(Top) /\ keys[Place(NextPlace)] \in Nat
    BY <1>1, <1>2, IndexIs, AgeIs DEF StoreOK, StepOK, PoolTypeOK, LookupTypeOK
  <1>18. Valid(Place(t))
    <2>1. Nth(Top) \in Int /\ (Top >= 0 <=> Nth(Top) >= 0)
      BY <1>11, NthIs
    <2>2. Top >= 0
      BY <1>17, <2>1
    <2> QED BY <1>1, <1>3, <2>2 DEF StoreOK, TailsOK
  <1>19. /\ \A f \in 1 .. n : Valid(f)' <=> Valid(f)
         /\ \A f \in 1 .. n + n : f \notin 1 .. n => ~Valid(f)'
    BY <1>10 DEF Valid
  <1>20. RingOK'
    <2> SUFFICES ASSUME NEW r \in 0 .. n + n - 1
                 PROVE  \/ keys'[Place(r)'] = INVALID_BLOCK_BASE
                        \/ keys'[Place(r)'] = Nth(Top - Age(r))'
      BY <1>5 DEF RingOK
    <2>1. CASE r \in 0 .. n - 1
      <3>1. PICK p \in 0 .. Size - 1 : p = OldPlace(n, t, r)
        BY <1>3, <1>6, <2>1
      <3>2. Age(r)' = Age(p)
        <4>1. Age(r)' = n - 1 - r
          BY <1>4, <1>5, <2>1 DEF Age
        <4>2. Age(p) = n - 1 - r
          BY <1>3, <1>4, <2>1, <3>1 DEF Age, OldPlace
        <4> QED BY <4>1, <4>2
      <3>3. keys'[Place(r)'] = keys[Place(p)]
        BY <1>5, <1>10, <1>14, <2>1, <3>1
      <3>4. Nth(Top - Age(r))' = Nth(Top - Age(p))
        BY <1>11, <3>2 DEF Nth
      <3>5. ~(p = NextPlace /\ keys[Place(p)] = tailIndex /\ tailIndex = Nth(Top + 1))
        <4>2. Top + 1 \in Int /\ Top < Top + 1
          BY <1>11
        <4>1. Nth(Top) \in Int /\ Nth(Top + 1) \in Int /\ Nth(Top) < Nth(Top + 1)
          BY <1>11, <4>2, NthIs
        <4> QED BY <1>17, <4>1
      <3> QED BY <1>1, <3>3, <3>4, <3>5 DEF StoreOK, RingOK
    <2>2. CASE r \in n .. n + n - 1
      <3>1. r + 1 \in 1 .. n + n /\ r + 1 \notin 1 .. n
        BY <2>2
      <3> QED BY <1>5, <1>10, <2>2, <3>1
    <2> QED BY <1>15, <2>1, <2>2
  <1>21. TailsOK'
    <2>1. ASSUME NEW k \in 1 .. m PROVE Valid(headers[k].index[headers[k].tail])'
      <3>1. Valid(headers[k].index[headers[k].tail])
        <4>1. CASE k = m
          BY <1>3, <1>18, <4>1 DEF Place, Current, TailPlace
        <4>2. CASE k # m
          <5>1. k < blockIndex /\ k \in DOMAIN headers
            BY <1>3, <1>5, <4>2
          <5> QED BY <1>1, <5>1 DEF StoreOK, TailsOK
        <4> QED BY <4>1, <4>2
      <3>2. headers[k].index[headers[k].tail] \in 1 .. n
        BY <1>1, <1>4, <1>5 DEF PoolTypeOK, LookupTypeOK
      <3>3. keys'[headers[k].index[headers[k].tail]] # INVALID_BLOCK_BASE
        BY <1>10, <3>1, <3>2 DEF Valid
      <3> QED BY <1>5, <3>3 DEF Valid
    <2>2. \A k \in DOMAIN headers' : k < blockIndex' => k \in 1 .. m
      BY <1>5
    <2>3. Valid(Place(TailPlace))'
      <3>1. Place(TailPlace)' = Place(t)
        <4>1. Place(n - 1)' = Place(t)
          BY <1>4, <1>5, <1>6
        <4> QED BY <1>5, <4>1 DEF Place
      <3>2. Place(t) \in 1 .. n
        BY <1>1, <1>3, <1>4, IndexIs DEF StoreOK
      <3>3. keys'[Place(t)] # INVALID_BLOCK_BASE
        BY <1>10, <1>18, <3>2 DEF Valid
      <3> QED BY <3>1, <3>3 DEF Valid
    <2> QED BY <1>2, <2>1, <2>2, <2>3 DEF TailsOK
  <1>22. n + 1 \in 1 .. n + n /\ n + 1 \notin 1 .. n
    BY <1>4
  <1>23. StepOK'
    <2>1. NextPlace' = n
      <3>1. NextPlace' = (TailPlace' + 1) % Size'
        BY DEF NextPlace, NextSlot, TailPlace, Size, Cap, Current
      <3>2. n \in 0 .. n + n - 1 /\ n + n \in Nat \ {0} /\ n \in Int /\ n - 1 + 1 = n
        BY <1>4
      <3>3. n % (n + n) = n
        BY <3>2, RoundIs
      <3> QED BY <1>5, <3>1, <3>2, <3>3
    <2>2. Place(NextPlace)' = n + 1
      <3>1. n \in n .. n + n - 1
        BY <1>4
      <3>2. Place(n)' = n + 1
        BY <1>5, <3>1
      <3> QED BY <2>1, <3>2 DEF Place
    <2>3. values'[n + 1] = None
      BY <1>10, <1>22
    <2> QED BY <1>2, <1>7, <1>17, <2>2, <2>3 DEF StepOK, InBlock
  <1>24. CountTypeOK' /\ CountersOK'
    BY <1>1, <1>2, ProduceCounts
  <1>25. PoolTypeOK'
    <2>1. ASSUME NEW k \in DOMAIN headers'
          PROVE  /\ headers'[k].tail \in DOMAIN headers'[k].index
                 /\ headers'[k].index \in [0 .. Capacity(headers'[k]) - 1 -> Entries']
      <3>1. HeaderOK(k)' /\ Entries' = 1 .. Size'
        BY <1>16, <2>1 DEF IndexesOK
      <3>2. Cap(k)' = Capacity(headers'[k])
        BY DEF Cap, Capacity
      <3>3. /\ Cap(k)' \in Nat /\ Cap(k)' <= Size' /\ headers'[k].tail \in 0 .. Cap(k)' - 1
            /\ headers'[k].index \in [0 .. Cap(k)' - 1 -> 1 .. Cap(k)']
        BY <3>1 DEF HeaderOK
      <3>4. Size' \in Nat
        BY <1>5
      <3>5. 1 .. Cap(k)' \subseteq 1 .. Size'
        BY <3>3, <3>4, RangesIn
      <3> QED BY <3>1, <3>2, <3>3, <3>5
    <2>2. keys' \in [Entries' -> Nat] /\ values' \in [Entries' -> Blocks \cup {None}]
      <3>1. INVALID_BLOCK_BASE \in Nat
        BY DEF INVALID_BLOCK_BASE
      <3>2. \A f \in 1 .. n : keys[f] \in Nat /\ values[f] \in Blocks \cup {None}
        BY <1>1, <1>4 DEF PoolTypeOK, LookupTypeOK
      <3>3. \A f \in 1 .. n + n : keys'[f] \in Nat /\ values'[f] \in Blocks \cup {None}
        BY <1>10, <3>1, <3>2
      <3>4. /\ keys' = [f \in 1 .. n + n |-> keys'[f]] /\ values' = [f \in 1 .. n + n |-> values'[f]]
        BY <1>7
      <3> QED BY <1>10, <3>3, <3>4
    <2>3. MemoryTypeOK'
      BY <1>1, <1>2 DEF PoolTypeOK, MemoryTypeOK
    <2>4. StepTypeOK'
      BY <1>1, <1>2, <1>7, <1>10, <1>22 DEF PoolTypeOK, StepTypeOK, Steps
    <2>5. LookupTypeOK'
      BY <2>1, <2>2 DEF LookupTypeOK, Capacity
    <2> QED BY <2>3, <2>4, <2>5 DEF PoolTypeOK
  <1>26. Entries \subseteq Entries' /\ \A f \in Entries' : values'[f] # None => f \in Entries
    BY <1>4, <1>8, <1>10
  <1>27. FindTypeOK'
    <2>1. Len(headers) = m /\ Len(headers') = m + 1
      BY <1>3, <1>5 DEF blockIndex
    <2>2. m + 1 \in Nat /\ m <= m + 1
      OBVIOUS
    <2> QED BY <1>1, <1>2, <1>26, <2>1, <2>2, FindTypeKept
  <1>28. FindersOK'
    <2>1. \A k \in DOMAIN headers : k \in DOMAIN headers' /\ headers'[k].index = headers[k].index
      BY <1>5, <1>12
    <2>2. \A f \in Entries : /\ f \in Entries' /\ (Valid(f) => Valid(f)')
                             /\ keys'[f] = keys[f] /\ values'[f] = values[f]
      BY <1>4, <1>10, <1>19, <1>26
    <2> QED BY <1>1, <1>2, <2>1, <2>2, FindersKept DEF HeldOK, PoolTypeOK
  <1>29. ElementsOK'
    <2> SUFFICES ASSUME NEW x \in 0 .. MaxElems, Owed(x)' PROVE Kept(x)'
      BY DEF ElementsOK
    <2>1. Owed(x)
      BY <1>2 DEF Owed
    <2>2. PICK f \in Entries : /\ keys[f] = Base(x) /\ values[f] # None
                               /\ cells[values[f]][x % BLOCK_SIZE] = x
      BY <1>1, <2>1 DEF HeldOK, ElementsOK, Kept
    <2> QED BY <1>2, <1>4, <1>10, <1>26, <2>2 DEF Kept
  <1>30. LinkedOK'
    <2> SUFFICES ASSUME NEW f \in Entries', values'[f] # None
                 PROVE  /\ Valid(f)' /\ keys'[f] <= Nth(Top)'
                        /\ completed'[values'[f]] + Unclaimed(keys[f])' + Cardinality(Busy(f)') = BLOCK_SIZE
      BY DEF LinkedOK
    <2>1. f \in Entries /\ f \in 1 .. n /\ keys'[f] = keys[f] /\ values'[f] = values[f]
      BY <1>4, <1>10, <1>26
    <2>2. /\ Valid(f) /\ keys[f] <= Nth(Top)
          /\ completed[values[f]] + Unclaimed(keys[f]) + Cardinality(Busy(f)) = BLOCK_SIZE
      BY <1>1, <2>1 DEF HeldOK, LinkedOK
    <2>3. Nth(Top)' = Nth(Top) /\ Unclaimed(keys[f])' = Unclaimed(keys[f])
      BY <1>2, <1>11, <2>1 DEF Nth, Unclaimed
    <2>4. Busy(f)' = Busy(f)
      <3>1. \A d : Base(index[d])' = Base(index[d])
        BY <1>2 DEF Base
      <3> QED BY <1>2, <2>1, <3>1 DEF Busy
    <2> QED BY <1>2, <1>19, <2>1, <2>2, <2>3, <2>4
  <1>31. PlacesOK'
    <2> SUFFICES ASSUME NEW a \in Blocks PROVE PlaceOK(a)'
      BY DEF PlacesOK
    <2>1. /\ \A c \in Consumers : Leaves(c, a)' <=> Leaves(c, a)
          /\ (Idle(a)' <=> Idle(a)) /\ ~InHand(a) /\ ~InHand(a)'
          /\ UNCHANGED <<unused, free>> /\ a # None
      BY <1>2, NoneIs DEF Leaves, Idle, InHand
    <2>2. /\ \A f \in Entries' : values'[f] = a => f \in Entries /\ values[f] = a
          /\ \A f \in Entries : f \in Entries' /\ values'[f] = values[f]
      BY <1>4, <1>10, <1>26, <2>1
    <2>3. PlaceOK(a)
      BY <1>1 DEF HeldOK, PlacesOK
    <2> QED BY <2>1, <2>2, <2>3 DEF PlaceOK
  <1>32. StoreOK' /\ HeldOK'
    BY <1>16, <1>20, <1>21, <1>23, <1>28, <1>29, <1>30, <1>31 DEF StoreOK, HeldOK
  <1> QED BY <1>24, <1>25, <1>27, <1>32, InvariantParts, PTL

-----------------------------------------------------------------------------
(* The invariant *)

(* The queue begins empty, with a first index that no block is in. *)
LEMMA InitIInv ==
  ASSUME Init
  PROVE  IInv
  <1> DEFINE H == headers[1]
  <1>1. PICK n \in Nat : n = IMPLICIT_INITIAL_INDEX_SIZE /\ n >= 2
    BY ImplicitProducerAssumption
  <1>2. /\ tailIndex = 0 /\ headIndex = 0 /\ dequeueOptimisticCount = 0 /\ dequeueOvercommit = 0
        /\ step = "idle" /\ idxEntry = 0 /\ tailBlock = None /\ unused = Blocks /\ free = {} /\ excused = {}
    BY DEF Init
  <1>3. /\ \A c \in Consumers : pc[c] = "idle" /\ index[c] = None
        /\ \A f \in 1 .. n : keys[f] = INVALID_BLOCK_BASE /\ values[f] = None
        /\ Entries = 1 .. n /\ DOMAIN values = 1 .. n
    BY <1>1 DEF Init, Entries
  <1>4. /\ headers = <<[tail |-> n - 1, index |-> [i \in 0 .. n - 1 |-> i + 1]]>>
    BY <1>1 DEF Init
  <1>5. /\ H = [tail |-> H.tail, index |-> H.index] /\ H.tail = n - 1 /\ H.index \in [0 .. n - 1 -> 1 .. n]
        /\ \A i \in 0 .. n - 1 : H.index[i] = i + 1
        /\ Len(headers) = 1 /\ DOMAIN headers = 1 .. 1
    BY <1>4
  <1>6. headers \in Seq({headers[k] : k \in DOMAIN headers}) /\ headers # <<>>
    <2>1. headers = <<H>> /\ H \in {headers[k] : k \in DOMAIN headers}
      BY <1>4, <1>5
    <2> HIDE DEF H
    <2> QED BY <2>1
  <1> HIDE DEF H
  <1>7. Capacity(H) = n
    <2>1. DOMAIN H.index = 0 .. n - 1
      BY <1>5
    <2>2. Cardinality(0 .. n - 1) = n
      <3>1. 0 \in Int /\ n - 1 \in Int /\ ~(0 > n - 1) /\ n - 1 - 0 + 1 = n
        BY <1>1
      <3>2. Cardinality(0 .. n - 1) = IF 0 > n - 1 THEN 0 ELSE n - 1 - 0 + 1
        BY <3>1, FS_Interval
      <3> QED BY <3>1, <3>2
    <2> QED BY <2>1, <2>2 DEF Capacity
  <1>8. /\ blockIndex = 1 /\ headers[1] = H /\ Current = H /\ Size = n /\ Cap(1) = n /\ TailPlace = n - 1
        /\ \A p \in 0 .. n - 1 : Place(p) = p + 1
    BY <1>5, <1>7 DEF blockIndex, Current, H, Size, Cap, TailPlace, Place
  <1>9. Top = -1
    <2>1. 0 \in Int /\ Nth(0) = 0
      BY BlockSizes DEF Nth
    <2>2. (Nth(0) - 1) \div BLOCK_SIZE = 0 - 1
      BY <2>1, NthIs
    <2>3. (0 - 1) \div BLOCK_SIZE = -1
      BY <2>1, <2>2
    <2> QED BY <1>2, <2>3 DEF Top
  <1>10. Counting = {} /\ Rechecking = {} /\ Asking = {} /\ \A m : Sharers(m) = {}
    BY <1>3 DEF Counting, Rechecking, Asking, Sharers
  <1>11. CountersOK
    <2>1. Cardinality({}) = 0
      BY FS_EmptySet
    <2>2. Tally
      BY <1>2, <1>10, <2>1 DEF Tally
    <2>3. CountsOK
      BY <1>3, <1>10 DEF CountsOK
    <2>4. ClaimsOK
      <3>1. Taken(0) = 0
        BY <1>2, <1>10, <2>1 DEF Taken
      <3> QED BY <1>2, <1>10, <3>1 DEF ClaimsOK
    <2>5. ExcusesOK
      BY <1>10 DEF ExcusesOK
    <2> QED BY <2>2, <2>3, <2>4, <2>5 DEF CountersOK
  <1>12. IndexesOK
    <2>1. Coherent(1)
      <3>1. Multiple(n, n) /\ Multiple(n, 0)
        BY <1>1, MultipleIs
      <3>2. ASSUME NEW p \in 0 .. n - 1, NEW q \in 0 .. n - 1, NEW r \in 0 .. n - 1, NEW s \in 0 .. n - 1,
                   Place(r) = H.index[p], Place(s) = H.index[q]
            PROVE  Multiple(n, (r - s) - (p - q))
        <4>1. r + 1 = p + 1 /\ s + 1 = q + 1
          BY <1>5, <1>8, <3>2
        <4>2. (r - s) - (p - q) = 0
          BY <4>1
        <4> QED BY <3>1, <4>2
      <3> QED BY <1>8, <3>1, <3>2 DEF Coherent
    <2>2. n - 1 \in 0 .. n - 1 /\ n <= n
      BY <1>1
    <2>3. HeaderOK(1)
      BY <1>1, <1>5, <1>8, <2>1, <2>2 DEF HeaderOK
    <2>4. \A k \in DOMAIN headers : k = 1
      BY <1>5
    <2>5. \A p, q \in 0 .. n - 1 : Place(p) = Place(q) => p = q
      BY <1>8
    <2>6. ASSUME NEW e \in 1 .. n PROVE \E p \in 0 .. n - 1 : Place(p) = e
      <3>1. e - 1 \in 0 .. n - 1 /\ e - 1 + 1 = e
        OBVIOUS
      <3> QED BY <1>8, <3>1
    <2> QED BY <1>3, <1>6, <1>8, <2>3, <2>4, <2>5, <2>6 DEF IndexesOK
  <1>13. RingOK
    <2>1. \A p \in 0 .. n - 1 : Place(p) \in 1 .. n
      BY <1>8
    <2> QED BY <1>3, <1>8, <2>1 DEF RingOK
  <1>14. TailsOK
    <2>1. \A k \in DOMAIN headers : ~(k < blockIndex)
      BY <1>5, <1>8
    <2> QED BY <1>2, <1>9, <2>1 DEF TailsOK
  <1>15. StepOK
    <2>1. 0 % BLOCK_SIZE = 0
      BY BlockSizes
    <2> QED BY <1>2, <2>1 DEF StepOK, InBlock
  <1>16. HeldOK
    <2>1. FindersOK
      BY <1>3 DEF FindersOK, FinderOK, HasClaim
    <2>2. ElementsOK
      <3> SUFFICES ASSUME NEW x \in 0 .. MaxElems, Owed(x) PROVE FALSE
        BY DEF ElementsOK
      <3>1. x \in Int /\ ~(0 <= x /\ x < 0)
        BY ImplicitProducerAssumption
      <3> QED BY <1>2, <1>3, <3>1, NoneIs DEF Owed
    <2>3. LinkedOK
      BY <1>3 DEF LinkedOK
    <2>4. PlacesOK
      <3> SUFFICES ASSUME NEW b \in Blocks PROVE PlaceOK(b)
        BY DEF PlacesOK
      <3>1. b # None
        BY NoneIs
      <3> QED BY <1>2, <1>3, <3>1 DEF PlaceOK, Idle, InHand, Leaves
    <2> QED BY <2>1, <2>2, <2>3, <2>4 DEF HeldOK
  <1>17. CountTypeOK
    BY ImplicitProducerAssumption DEF Init, CountTypeOK, Points
  <1>18. PoolTypeOK
    <2>1. LookupTypeOK
      <3>1. keys = [i \in 1 .. n |-> INVALID_BLOCK_BASE] /\ values = [i \in 1 .. n |-> None]
        BY <1>1 DEF Init
      <3>2. keys \in [1 .. n -> Nat] /\ values \in [1 .. n -> Blocks \cup {None}]
        BY <3>1 DEF INVALID_BLOCK_BASE
      <3>3. \A k \in DOMAIN headers : headers[k] = H
        BY <1>5, <1>8
      <3>4. H.tail \in DOMAIN H.index /\ H.index \in [0 .. Capacity(H) - 1 -> 1 .. n]
        BY <1>1, <1>5, <1>7
      <3> QED BY <1>3, <3>2, <3>3, <3>4 DEF LookupTypeOK
    <2>2. MemoryTypeOK
      <3>1. 0 \in 0 .. BLOCK_SIZE
        BY BlockSizes
      <3> QED BY <3>1 DEF Init, MemoryTypeOK
    <2>3. StepTypeOK
      BY <1>2 DEF StepTypeOK, Steps
    <2> QED BY <2>1, <2>2, <2>3 DEF PoolTypeOK
  <1>19. FindTypeOK
    BY <1>5 DEF Init, FindTypeOK
  <1> QED BY <1>11, <1>12, <1>13, <1>14, <1>15, <1>16, <1>17, <1>18, <1>19, InvariantParts DEF StoreOK

(* Nothing changes. *)
LEMMA NoStep ==
  ASSUME IInv, UNCHANGED vars
  PROVE  IInv'
  <1>1. CountTypeOK /\ PoolTypeOK /\ FindTypeOK /\ CountersOK /\ StoreOK /\ HeldOK
    BY InvariantParts
  <1>2. UNCHANGED <<counters, lookup, memory, producer, consumer>>
    BY DEF vars
  <1>3. /\ UNCHANGED <<tailIndex, headIndex, dequeueOptimisticCount, dequeueOvercommit>>
        /\ UNCHANGED <<pc, index, header, slot, entry, block, answer, finding>>
        /\ UNCHANGED <<headers, keys, cells, completed>>
    BY <1>2 DEF counters, consumer, finding, lookup, memory
  <1>4. CountTypeOK' /\ CountersOK'
    BY <1>1, <1>2, <1>3, ProduceCounts
  <1>5. PoolTypeOK'
    BY <1>1, <1>2, PoolTypeKept
  <1>6. StoreOK' /\ Top' = Top
    BY <1>1, <1>2, <1>3, StoreKept
  <1>7. HeldOK'
    BY <1>1, <1>2, <1>3, <1>6, QuietStep
  <1>8. FindTypeOK'
    BY <1>1, <1>3 DEF FindTypeOK, Entries
  <1> QED BY <1>4, <1>5, <1>6, <1>7, <1>8, InvariantParts, PTL

(* The invariant is inductive: one case for each action. *)
LEMMA NextIInv ==
  ASSUME IInv, [Next]_vars
  PROVE  IInv'
  <1>1. CASE Produce
    <2>1. CASE Enqueue
      BY <2>1, EnqueueStep
    <2>2. CASE FindEntry
      BY <2>2, FindEntryStep
    <2>3. CASE NewBlockIndex
      BY <2>3, NewBlockIndexStep
    <2>4. CASE NoBlockIndex
      BY <2>4, NoBlockIndexStep
    <2>5. CASE StoreKey
      BY <2>5, StoreKeyStep
    <2>6. CASE StoreTail
      BY <2>6, StoreTailStep
    <2>7. ASSUME NEW b \in Blocks, RequisitionBlock(b) PROVE IInv'
      BY <2>7, RequisitionBlockStep
    <2>8. CASE NoBlock
      BY <2>8, NoBlockStep
    <2>9. CASE RewindTail
      BY <2>9, RewindTailStep
    <2>10. CASE ClearValue
      BY <2>10, ClearValueStep
    <2>11. CASE StoreValue
      BY <2>11, StoreValueStep
    <2>12. CASE Write
      BY <2>12, WriteStep
    <2>13. CASE Publish
      BY <2>13, PublishStep
    <2> QED BY <1>1, <2>1, <2>2, <2>3, <2>4, <2>5, <2>6, <2>7, <2>8, <2>9, <2>10, <2>11, <2>12, <2>13
            DEF Produce
  <1>2. ASSUME NEW c \in Consumers, Consume(c) PROVE IInv'
    <2>1. CASE Dequeue(c) \/ LoadOvercommit(c) \/ Compare(c) \/ Count(c) \/ Recheck(c) \/ GiveUp(c)
      BY <2>1, CountingStep
    <2>2. CASE Claim(c)
      BY <2>2, ClaimStep
    <2>3. CASE LoadHeader(c)
      BY <2>3, LoadHeaderStep
    <2>4. CASE LoadSlot(c)
      BY <2>4, LoadSlotStep
    <2>5. CASE LoadKey(c)
      BY <2>5, LoadKeyStep
    <2>6. CASE LoadValue(c)
      BY <2>6, LoadValueStep
    <2>7. CASE Move(c)
      BY <2>7, MoveStep
    <2>8. CASE SetEmpty(c)
      BY <2>8, SetEmptyStep
    <2>9. CASE Unlink(c)
      BY <2>9, UnlinkStep
    <2>10. CASE Release(c)
      BY <2>10, ReleaseStep
    <2> QED BY <1>2, <2>1, <2>2, <2>3, <2>4, <2>5, <2>6, <2>7, <2>8, <2>9, <2>10 DEF Consume
  <1>3. CASE UNCHANGED vars
    BY <1>3, NoStep
  <1> QED BY <1>1, <1>2, <1>3 DEF Next

(* The counters, the block index, the blocks and the threads stay as IInv
   says through every step of one producer and any number of consumers.  *)
THEOREM Invariance == Spec => []IInv
  <1>1. Init => IInv
    BY InitIInv
  <1>2. IInv /\ [Next]_vars => IInv'
    BY NextIInv
  <1> QED BY <1>1, <1>2, PTL DEF Spec

(***************************************************************************)
(* What the queue's threads hold is of its kind, and a block is always in  *)
(* one place (requisition_block, StoreValue, set_empty and                 *)
(* add_block_to_free_list): none leaks and none has two users.             *)
(***************************************************************************)
THEOREM InvHolds == Spec => []Inv
  <1>1. IInv => Inv
    <2> SUFFICES ASSUME IInv PROVE Inv
      OBVIOUS
    <2>1. TypeOK /\ PlacesOK
      BY DEF IInv
    <2>2. ASSUME NEW b \in Blocks PROVE Cardinality(Places(b)) = 1
      <3>1. PlaceOK(b)
        BY <2>1 DEF PlacesOK
      <3>2. \E x : Places(b) = {x}
        <4>1. CASE Idle(b)
          <5>1. /\ ~InHand(b) /\ \A e \in Entries : values[e] # b
                /\ \A c \in Consumers : ~(pc[c] = "release" /\ block[c] = b)
            BY <3>1, <4>1 DEF PlaceOK, Leaves
          <5>2. b \in unused <=> b \notin free
            BY <3>1, <4>1 DEF PlaceOK, Idle
          <5>3. Places(b) = IF b \in unused THEN {"unused"} ELSE {"free"}
            BY <5>1, <5>2 DEF Places, InHand
          <5> QED BY <5>3
        <4>2. CASE InHand(b)
          <5>1. /\ b \notin unused /\ b \notin free /\ \A e \in Entries : values[e] # b
                /\ \A c \in Consumers : ~(pc[c] = "release" /\ block[c] = b)
            BY <3>1, <4>2 DEF PlaceOK, Idle, Leaves
          <5>2. Places(b) = {"producer"}
            BY <4>2, <5>1 DEF Places, InHand
          <5> QED BY <5>2
        <4>3. ASSUME NEW e \in Entries, values[e] = b PROVE \E x : Places(b) = {x}
          <5>1. /\ b \notin unused /\ b \notin free /\ ~InHand(b)
                /\ \A c \in Consumers : ~(pc[c] = "release" /\ block[c] = b)
            BY <3>1, <4>3 DEF PlaceOK, Idle, Leaves
          <5>2. {f \in Entries : values[f] = b} = {e}
            BY <3>1, <4>3 DEF PlaceOK
          <5>3. Places(b) = {<<"entry", e>>}
            BY <5>1, <5>2 DEF Places, InHand
          <5> QED BY <5>3
        <4>4. ASSUME NEW c \in Consumers, Leaves(c, b) PROVE \E x : Places(b) = {x}
          <5>1. b \notin unused /\ b \notin free /\ ~InHand(b) /\ \A e \in Entries : values[e] # b
            BY <3>1, <4>4 DEF PlaceOK, Idle
          <5>2. {d \in Consumers : pc[d] = "release" /\ block[d] = b} = {c}
            BY <3>1, <4>4 DEF PlaceOK, Leaves
          <5>3. Places(b) = {<<"consumer", c>>}
            BY <5>1, <5>2 DEF Places, InHand
          <5> QED BY <5>3
        <4> QED BY <3>1, <4>1, <4>2, <4>3, <4>4 DEF PlaceOK
      <3> QED BY <3>2, FS_Singleton
    <2> QED BY <2>1, <2>2 DEF Inv, OneHolder
  <1> QED BY <1>1, Invariance, PTL

(* What a consumer that claimed an index has found so far. *)
LEMMA EntryIs ==
  ASSUME IInv, NEW c \in Consumers
  PROVE  /\ pc[c] = "find entry" => keys[headers[header[c]].index[slot[c]]] # INVALID_BLOCK_BASE
         /\ pc[c] = "load value" => keys[entry[c]] = Base(index[c]) /\ values[entry[c]] # None
         /\ pc[c] = "move" => cells[block[c]][index[c] % BLOCK_SIZE] = index[c]
  <1>1. CountTypeOK /\ PoolTypeOK /\ FindTypeOK /\ CountersOK /\ StoreOK /\ HeldOK
    BY InvariantParts
  <1>2. FinderOK(c)
    BY <1>1 DEF HeldOK, FindersOK
  <1>3. ASSUME pc[c] = "find entry"
        PROVE  keys[headers[header[c]].index[slot[c]]] # INVALID_BLOCK_BASE
    BY <1>2, <1>3 DEF FinderOK, Valid
  <1>4. ASSUME pc[c] \in {"load value", "move"}
        PROVE  /\ keys[entry[c]] = Base(index[c]) /\ values[entry[c]] # None
               /\ cells[values[entry[c]]][index[c] % BLOCK_SIZE] = index[c]
    <2>1. HasClaim(c)
      BY <1>4 DEF HasClaim
    <2>2. PICK e \in Entries :
             /\ keys[e] = Base(index[c]) /\ Valid(e) /\ values[e] \in Blocks
             /\ cells[values[e]][index[c] % BLOCK_SIZE] = index[c]
             /\ \A f \in Entries : keys[f] = Base(index[c]) => f = e
      BY <1>1, <2>1, ClaimedKept
    <2>3. entry[c] \in Entries /\ keys[entry[c]] = Base(index[c])
      BY <1>2, <1>4 DEF FinderOK
    <2>4. entry[c] = e
      BY <2>2, <2>3
    <2> QED BY <2>2, <2>4, NoneIs
  <1>5. pc[c] = "move" => values[entry[c]] = block[c]
    BY <1>2 DEF FinderOK
  <1> QED BY <1>3, <1>4, <1>5

(***************************************************************************)
(* The assertions of get_block_index_index_for_index hold: whatever was    *)
(* enqueued, wrapped round or grown between its loads, a consumer finds    *)
(* the entry of its block, the block in it, and its element there.         *)
(***************************************************************************)
THEOREM EntryFoundHolds == Spec => []EntryFound
  <1>1. IInv => EntryFound
    BY EntryIs DEF EntryFound
  <1> QED BY <1>1, Invariance, PTL

-----------------------------------------------------------------------------
(* The queue as a sequence *)

(* The indexes from h on, up to t. *)
Run(h, t) == [i \in 1 .. t - h |-> h + i - 1]

(* Runs are sequences that get longer at the end and shorter at the front. *)
LEMMA RunIs ==
  ASSUME NEW h \in Nat, NEW t \in Nat, h <= t
  PROVE  /\ Run(h, t) = <<>> <=> h = t
         /\ Len(Run(h, t)) = t - h
         /\ Run(h, t + 1) = Append(Run(h, t), t)
         /\ h < t => Head(Run(h, t)) = h /\ Tail(Run(h, t)) = Run(h + 1, t)
  <1>1. ASSUME NEW u \in Nat, NEW v \in Nat, u <= v
        PROVE  /\ Run(u, v) \in Seq(Int) /\ Len(Run(u, v)) = v - u
               /\ \A i \in 1 .. v - u : Run(u, v)[i] = u + i - 1
    <2>1. v - u \in Nat /\ Run(u, v) \in [1 .. v - u -> Int]
      BY <1>1 DEF Run
    <2> QED BY <2>1, FunctionIsSeq DEF Run
  <1> HIDE DEF Run
  <1>2. /\ Run(h, t) \in Seq(Int) /\ Len(Run(h, t)) = t - h
        /\ \A i \in 1 .. t - h : Run(h, t)[i] = h + i - 1
    BY <1>1
  <1>3. Run(h, t) = <<>> <=> h = t
    <2>1. Run(h, t) = <<>> => Len(Run(h, t)) = 0
      BY EmptySeq
    <2>2. Run(h, t) # <<>> => Len(Run(h, t)) # 0
      BY <1>2, EmptySeq
    <2> QED BY <1>2, <2>1, <2>2
  <1>4. Run(h, t + 1) = Append(Run(h, t), t)
    <2>1. /\ Run(h, t + 1) \in Seq(Int) /\ Len(Run(h, t + 1)) = t + 1 - h
          /\ \A i \in 1 .. t + 1 - h : Run(h, t + 1)[i] = h + i - 1
      <3>1. t + 1 \in Nat /\ h <= t + 1
        OBVIOUS
      <3> QED BY <1>1, <3>1
    <2>2. /\ Append(Run(h, t), t) \in Seq(Int) /\ Len(Append(Run(h, t), t)) = t - h + 1
          /\ \A i \in 1 .. t - h : Append(Run(h, t), t)[i] = Run(h, t)[i]
          /\ Append(Run(h, t), t)[t - h + 1] = t
      <3>1. t \in Int
        OBVIOUS
      <3>2. /\ Append(Run(h, t), t) \in Seq(Int) /\ Len(Append(Run(h, t), t)) = Len(Run(h, t)) + 1
            /\ \A i \in 1 .. Len(Run(h, t)) : Append(Run(h, t), t)[i] = Run(h, t)[i]
            /\ Append(Run(h, t), t)[Len(Run(h, t)) + 1] = t
        BY <1>2, <3>1, AppendProperties
      <3> QED BY <1>2, <3>2
    <2>3. ASSUME NEW i \in 1 .. t + 1 - h PROVE Run(h, t + 1)[i] = Append(Run(h, t), t)[i]
      <3>1. CASE i \in 1 .. t - h
        BY <1>2, <2>1, <2>2, <3>1
      <3>2. CASE i = t - h + 1
        <4>1. Run(h, t + 1)[i] = h + i - 1 /\ h + i - 1 = t
          BY <2>1, <3>2
        <4> QED BY <2>2, <3>2, <4>1
      <3>3. i \in 1 .. t - h \/ i = t - h + 1
        OBVIOUS
      <3> QED BY <3>1, <3>2, <3>3
    <2>4. Len(Run(h, t + 1)) = Len(Append(Run(h, t), t)) /\ t + 1 - h = t - h + 1
      BY <2>1, <2>2
    <2> QED BY <2>1, <2>2, <2>3, <2>4, SeqEqual
  <1>5. ASSUME h < t PROVE Head(Run(h, t)) = h /\ Tail(Run(h, t)) = Run(h + 1, t)
    <2>1. /\ Run(h + 1, t) \in Seq(Int) /\ Len(Run(h + 1, t)) = t - (h + 1)
          /\ \A i \in 1 .. t - (h + 1) : Run(h + 1, t)[i] = h + 1 + i - 1
      <3>1. h + 1 \in Nat /\ h + 1 <= t
        BY <1>5
      <3> QED BY <1>1, <3>1
    <2>2. Run(h, t) # <<>>
      BY <1>3, <1>5
    <2>3. /\ Tail(Run(h, t)) \in Seq(Int) /\ Len(Tail(Run(h, t))) = t - h - 1
          /\ \A i \in 1 .. t - h - 1 : Tail(Run(h, t))[i] = Run(h, t)[i + 1]
      <3>1. /\ Tail(Run(h, t)) \in Seq(Int) /\ Len(Tail(Run(h, t))) = Len(Run(h, t)) - 1
            /\ \A i \in 1 .. Len(Tail(Run(h, t))) : Tail(Run(h, t))[i] = Run(h, t)[i + 1]
        BY <1>2, <2>2, HeadTailProperties
      <3> QED BY <1>2, <3>1
    <2>4. Head(Run(h, t)) = h
      <3>1. Run(h, t)[1] = h + 1 - 1
        BY <1>2, <1>5
      <3>2. Head(Run(h, t)) = Run(h, t)[1]
        BY <1>2, <2>2
      <3> QED BY <3>1, <3>2
    <2>5. ASSUME NEW i \in 1 .. t - h - 1 PROVE Tail(Run(h, t))[i] = Run(h + 1, t)[i]
      <3>1. i + 1 \in 1 .. t - h /\ i \in 1 .. t - (h + 1) /\ h + (i + 1) - 1 = h + 1 + i - 1
        OBVIOUS
      <3>2. Tail(Run(h, t))[i] = h + (i + 1) - 1
        BY <1>2, <2>3, <3>1
      <3>3. Run(h + 1, t)[i] = h + 1 + i - 1
        BY <2>1, <3>1
      <3> QED BY <3>1, <3>2, <3>3
    <2>6. Len(Tail(Run(h, t))) = Len(Run(h + 1, t))
      BY <2>1, <2>3
    <2>7. Tail(Run(h, t)) = Run(h + 1, t)
      BY <2>1, <2>3, <2>5, <2>6, SeqEqual
    <2> QED BY <2>4, <2>7
  <1> QED BY <1>2, <1>3, <1>4, <1>5

-----------------------------------------------------------------------------
(* The promise *)

(* A step that claims, answers and publishes nothing is none of TaskFifo. *)
LEMMA Silent ==
  ASSUME UNCHANGED <<tailIndex, headIndex, index, answer, excused>>, Asking' = Asking
  PROVE  UNCHANGED Fifo!vars
  BY DEF Fifo!vars

(* The queue of TaskFifo is the run of indexes not claimed. *)
LEMMA QueueIs ==
  ASSUME CountTypeOK
  PROVE  /\ Run(headIndex, tailIndex) = <<>> <=> headIndex = tailIndex
         /\ Len(Run(headIndex, tailIndex)) = tailIndex - headIndex
         /\ Run(headIndex, tailIndex + 1) = Append(Run(headIndex, tailIndex), tailIndex)
         /\ headIndex < tailIndex => /\ Head(Run(headIndex, tailIndex)) = headIndex
                                     /\ Tail(Run(headIndex, tailIndex)) = Run(headIndex + 1, tailIndex)
  BY CountsAre, RunIs

(* The producer's steps: only Publish lets the consumers see an element. *)
LEMMA ProduceImplements ==
  ASSUME IInv, Produce
  PROVE  [Fifo!Next]_(Fifo!vars)
  <1>1. CountTypeOK /\ PoolTypeOK /\ FindTypeOK /\ CountersOK /\ StoreOK /\ HeldOK
    BY InvariantParts
  <1>2. UNCHANGED consumer /\ headIndex' = headIndex
    BY DEF Produce, Enqueue, FindEntry, NewBlockIndex, NoBlockIndex, StoreKey, StoreTail, RequisitionBlock,
           NoBlock, RewindTail, ClearValue, StoreValue, Write, Publish, counters
  <1>3. UNCHANGED <<index, answer, excused>> /\ Asking' = Asking
    BY <1>2 DEF consumer, Asking
  <1>4. CASE Publish
    <2>1. tailIndex' = tailIndex + 1 /\ step = "publish"
      BY <1>4 DEF Publish
    <2>2. tailIndex \in 0 .. MaxElems - 1
      <3>1. tailIndex < MaxElems
        BY <1>1, <2>1 DEF StoreOK, StepOK
      <3> QED BY <1>1, <3>1, CountsAre, ImplicitProducerAssumption
    <2>3. Run(headIndex, tailIndex)' = Append(Run(headIndex, tailIndex), tailIndex)
      BY <1>1, <1>2, <2>1, QueueIs
    <2>4. PICK e \in 0 .. MaxElems - 1 : e = tailIndex
      BY <2>2
    <2>5. Fifo!Enqueue(e)
      BY <1>3, <2>3, <2>4 DEF Fifo!Enqueue, Run
    <2>6. Fifo!Next
      BY <2>5 DEF Fifo!Next
    <2> QED BY <2>6
  <1>5. CASE ~Publish
    <2>1. tailIndex' = tailIndex
      BY <1>5 DEF Produce, Enqueue, FindEntry, NewBlockIndex, NoBlockIndex, StoreKey, StoreTail,
           RequisitionBlock, NoBlock, RewindTail, ClearValue, StoreValue, Write, counters
    <2> QED BY <1>2, <1>3, <2>1, Silent
  <1> QED BY <1>4, <1>5

(* The consumers' steps. *)
LEMMA ConsumeImplements ==
  ASSUME IInv, NEW c \in Consumers, Consume(c)
  PROVE  [Fifo!Next]_(Fifo!vars)
  <1>1. CountTypeOK /\ PoolTypeOK /\ FindTypeOK /\ CountersOK /\ StoreOK /\ HeldOK
    BY InvariantParts
  <1>2. index[c] # None <=> HasClaim(c)
    BY <1>1, ClaimedIs DEF HeldOK
  <1>3. pc \in [Consumers -> Points]
    BY <1>1 DEF CountTypeOK
  <1>4. CASE Dequeue(c)
    <2>1. c \notin Asking /\ UNCHANGED <<tailIndex, headIndex, index>>
      BY <1>4 DEF Dequeue, Asking, counters
    <2>2. Asking' = Asking \cup {c}
      <3>1. pc'[c] = "load overcommit" /\ \A d \in Consumers : d # c => pc'[d] = pc[d]
        BY <1>3, <1>4 DEF Dequeue, Goto, Set
      <3> QED BY <3>1 DEF Asking
    <2>3. answer' = [answer EXCEPT ![c] = None]
      BY <1>4 DEF Dequeue, Set
    <2>4. excused' = IF Asking # {} \/ Run(headIndex, tailIndex) = <<>> THEN excused \cup Asking'
                     ELSE excused \ {c}
      BY <1>1, <1>4, <2>2, QueueIs DEF Dequeue
    <2>5. Fifo!Ask(c)
      BY <2>1, <2>2, <2>3, <2>4 DEF Fifo!Ask, Run
    <2> QED BY <2>5 DEF Fifo!Next
  <1>5. ASSUME Compare(c) \/ GiveUp(c), pc'[c] = "idle" PROVE Fifo!Refuse(c)
    <2>1. UNCHANGED <<tailIndex, headIndex, index, answer, excused>> /\ pc[c] \in {"compare", "give up"}
      BY <1>5 DEF Compare, GiveUp, counters
    <2>2. Asking' = Asking \ {c} /\ c \in Asking
      <3>1. \A d \in Consumers : d # c => pc'[d] = pc[d]
        BY <1>3, <1>5 DEF Compare, GiveUp, Goto, Set
      <3> QED BY <1>5, <2>1, <3>1 DEF Asking
    <2>3. index[c] = None
      BY <1>2, <2>1 DEF HasClaim
    <2>4. c \in excused
      <3>1. CASE pc[c] = "give up"
        BY <1>1, <2>2, <3>1 DEF CountersOK, ExcusesOK
      <3>2. CASE pc[c] = "compare"
        <4>1. ~(dequeueOptimisticCount - overcommit[c] < tail[c])
          <5>1. Compare(c)
            BY <1>5, <3>2 DEF GiveUp
          <5>2. pc'[c] = IF dequeueOptimisticCount - overcommit[c] < tail[c] THEN "count" ELSE "idle"
            BY <1>3, <5>1 DEF Compare, Goto, Set
          <5> QED BY <1>5, <5>2
        <4> QED BY <1>1, <3>2, <4>1, CompareSees
      <3> QED BY <2>1, <3>1, <3>2
    <2> QED BY <2>1, <2>2, <2>3, <2>4 DEF Fifo!Refuse
  <1>6. CASE Claim(c)
    <2>1. headIndex < tailIndex
      BY <1>1, <1>6, ClaimFinds DEF Claim
    <2>2. /\ pc[c] = "claim" /\ index' = [index EXCEPT ![c] = headIndex] /\ headIndex' = headIndex + 1
          /\ UNCHANGED <<tailIndex, answer>>
          /\ excused' = IF headIndex' = tailIndex THEN excused \cup Asking ELSE excused
      BY <1>6 DEF Claim, Set
    <2>3. Asking' = Asking /\ c \in Asking
      <3>1. pc'[c] = "load header" /\ \A d \in Consumers : d # c => pc'[d] = pc[d]
        BY <1>3, <1>6 DEF Claim, Goto, Set
      <3> QED BY <2>2, <3>1 DEF Asking
    <2>4. index[c] = None
      BY <1>2, <2>2 DEF HasClaim
    <2>5. /\ Run(headIndex, tailIndex) # <<>> /\ Head(Run(headIndex, tailIndex)) = headIndex
          /\ Run(headIndex, tailIndex)' = Tail(Run(headIndex, tailIndex))
      <3>1. headIndex # tailIndex
        BY <1>1, <2>1, CountsAre
      <3>2. Run(headIndex, tailIndex)' = Run(headIndex + 1, tailIndex)
        BY <2>2 DEF Run
      <3> QED BY <1>1, <2>1, <3>1, <3>2, QueueIs
    <2>6. excused' = IF Len(Run(headIndex, tailIndex)) = 1 THEN excused \cup Asking ELSE excused
      <3>1. headIndex + 1 = tailIndex <=> tailIndex - headIndex = 1
        BY <1>1, CountsAre
      <3>2. Len(Run(headIndex, tailIndex)) = tailIndex - headIndex
        BY <1>1, QueueIs
      <3> QED BY <2>2, <3>1, <3>2
    <2>7. Fifo!Claim(c)
      BY <2>2, <2>3, <2>4, <2>5, <2>6 DEF Fifo!Claim, Run
    <2> QED BY <2>7 DEF Fifo!Next
  <1>7. CASE Move(c)
    <2>1. cells[block[c]][index[c] % BLOCK_SIZE] = index[c] /\ index[c] # None
      BY <1>2, <1>7, EntryIs DEF Move, HasClaim
    <2>2. /\ pc[c] = "move" /\ UNCHANGED <<tailIndex, headIndex, excused>>
          /\ answer' = [answer EXCEPT ![c] = cells[block[c]][index[c] % BLOCK_SIZE]]
          /\ index' = [index EXCEPT ![c] = None]
      BY <1>7 DEF Move, Set, counters
    <2>3. Asking' = Asking \ {c}
      <3>1. pc'[c] = "set empty" /\ \A d \in Consumers : d # c => pc'[d] = pc[d]
        BY <1>3, <1>7 DEF Move, Goto, Set
      <3> QED BY <3>1 DEF Asking
    <2>4. answer' = [answer EXCEPT ![c] = index[c]]
      BY <2>1, <2>2
    <2>5. Fifo!Deliver(c)
      BY <2>1, <2>2, <2>3, <2>4 DEF Fifo!Deliver
    <2> QED BY <2>5 DEF Fifo!Next
  <1>8. ASSUME \/ LoadOvercommit(c) \/ (Compare(c) /\ pc'[c] # "idle") \/ Count(c) \/ Recheck(c)
               \/ LoadHeader(c) \/ LoadSlot(c) \/ LoadKey(c) \/ LoadValue(c)
               \/ SetEmpty(c) \/ Unlink(c) \/ Release(c)
        PROVE  UNCHANGED Fifo!vars
    <2>1. UNCHANGED <<tailIndex, headIndex, index, answer, excused>>
      BY <1>8 DEF LoadOvercommit, Compare, Count, Recheck, LoadHeader, LoadSlot, LoadKey, LoadValue,
                  SetEmpty, Unlink, Release, counters
    <2>2. PICK l \in Points : pc' = [pc EXCEPT ![c] = l]
      BY <1>8 DEF LoadOvercommit, Compare, Count, Recheck, LoadHeader, LoadSlot, LoadKey, LoadValue,
                  SetEmpty, Unlink, Release, Goto, Set, Points
    <2>3. pc'[c] = l /\ \A d \in Consumers : d # c => pc'[d] = pc[d]
      BY <1>3, <2>2
    <2>5. pc[c] \in {"set empty", "unlink", "release"} <=> pc'[c] \in {"idle", "set empty", "unlink", "release"}
      <3>1. CASE LoadOvercommit(c) \/ Compare(c) \/ Count(c) \/ Recheck(c) \/ LoadHeader(c) \/ LoadSlot(c)
                 \/ LoadKey(c) \/ LoadValue(c)
        BY <1>3, <1>8, <3>1 DEF LoadOvercommit, Compare, Count, Recheck, LoadHeader, LoadSlot, LoadKey,
                                LoadValue, Goto, Set, SetEmpty, Unlink, Release
      <3>2. CASE SetEmpty(c) \/ Unlink(c) \/ Release(c)
        BY <1>3, <3>2 DEF SetEmpty, Unlink, Release, Goto, Set
      <3> QED BY <1>8, <3>1, <3>2
    <2>6. pc[c] # "idle"
      BY <1>8 DEF LoadOvercommit, Compare, Count, Recheck, LoadHeader, LoadSlot, LoadKey, LoadValue,
                  SetEmpty, Unlink, Release
    <2>7. Asking' = Asking
      BY <2>3, <2>5, <2>6 DEF Asking
    <2> QED BY <2>1, <2>7, Silent
  <1>9. GiveUp(c) => pc'[c] = "idle"
    BY <1>3 DEF GiveUp, Goto, Set
  <1>10. Fifo!Refuse(c) => Fifo!Next
    BY DEF Fifo!Next
  <1> QED BY <1>4, <1>5, <1>6, <1>7, <1>8, <1>9, <1>10 DEF Consume

(***************************************************************************)
(* The threads of one producer's part do what TaskFifo promises: the       *)
(* elements leave in their order, each to one consumer, and who gets none  *)
(* asked when the queue was empty for a moment or others asked as well.    *)
(***************************************************************************)
THEOREM ServiceHolds == Spec => ImplementsFifo
  <1>1. Init => Fifo!Init
    <2> SUFFICES ASSUME Init PROVE Fifo!Init
      OBVIOUS
    <2>1. /\ headIndex = 0 /\ tailIndex = 0 /\ excused = {}
          /\ index = [c \in Consumers |-> None] /\ answer = [c \in Consumers |-> None]
      BY DEF Init
    <2>2. Asking = {}
      BY DEF Init, Asking
    <2>3. Run(headIndex, tailIndex) = <<>>
      BY <2>1, RunIs
    <2> QED BY <2>1, <2>2, <2>3 DEF Fifo!Init, Run
  <1>2. IInv /\ [Next]_vars => [Fifo!Next]_(Fifo!vars)
    <2> SUFFICES ASSUME IInv, [Next]_vars PROVE [Fifo!Next]_(Fifo!vars)
      OBVIOUS
    <2>1. CASE Produce
      BY <2>1, ProduceImplements
    <2>2. ASSUME NEW c \in Consumers, Consume(c) PROVE [Fifo!Next]_(Fifo!vars)
      BY <2>2, ConsumeImplements
    <2>3. CASE UNCHANGED vars
      <3>1. UNCHANGED <<tailIndex, headIndex, index, answer, excused, pc>>
        BY <2>3 DEF vars, counters, consumer
      <3>2. Asking' = Asking
        BY <3>1 DEF Asking
      <3> QED BY <3>1, <3>2, Silent
    <2> QED BY <2>1, <2>2, <2>3 DEF Next
  <1> QED BY <1>1, <1>2, Invariance, PTL DEF ImplementsFifo, Fifo!Spec, Spec

=============================================================================
