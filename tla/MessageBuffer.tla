--------------------------- MODULE MessageBuffer ---------------------------
(***************************************************************************)
(* The growable byte buffer of a session (Buffer.h, Buffer.cpp) under the  *)
(* two ways the pollers use it: as a write buffer (sendTo pushes, postSend *)
(* erases what send() took) and as a read buffer (recv() fills the room    *)
(* behind the last byte, the user's onRecv erases what it consumed).       *)
(*                                                                         *)
(* Bytes are numbered as they enter the buffer, modulo Wrap, so that their *)
(* order and their loss are visible; 'peak' remembers the largest size the *)
(* buffer ever had.  All arithmetic is that of a C int that does not       *)
(* overflow: CapacityFollowsPeak says how far the sizes stay from INT_MAX. *)
(***************************************************************************)
EXTENDS Integers, Sequences

CONSTANTS
  BUFFER_SIZE,  \* allocation unit: 1024 in the code
  MaxLen,       \* bound: bytes moved by one call
  MaxBytes,     \* bound: size at which no more bytes are offered
  Wrap          \* bytes are numbered modulo Wrap

ASSUME SizesAssumption ==
  /\ BUFFER_SIZE \in Nat \ {0}
  /\ MaxLen \in Nat
  /\ MaxBytes \in Nat
  /\ Wrap \in Nat \ {0}

VARIABLES
  size,      \* MessageBuffer::size
  capacity,  \* MessageBuffer::capacity, the length of the block at buff
  bytes,     \* the first 'size' bytes of the block
  next,      \* number of the next byte to enter
  peak       \* largest size since the block was allocated

vars == <<size, capacity, bytes, next, peak>>

-----------------------------------------------------------------------------

(* Mutant: one unit too many. *)
GrownWide(n) == ((n \div BUFFER_SIZE) + 4) * BUFFER_SIZE

(* Capacity chosen by push_back and both alloc()s for n stored bytes. *)
Grown(n) == ((n \div BUFFER_SIZE) + 3) * BUFFER_SIZE

(* Mutant: push_back compares the size it had before. *)
PushCapacityOldSize(newSize) ==
  IF size >= capacity - BUFFER_SIZE * 2 THEN Grown(newSize) ELSE capacity

PushCapacity(newSize) ==
  IF newSize >= capacity - BUFFER_SIZE * 2 THEN Grown(newSize) ELSE capacity

AllocCapacity(newSize) ==
  IF capacity - newSize >= BUFFER_SIZE * 2 THEN capacity ELSE Grown(newSize)

(* The next n bytes to enter the buffer. *)
Fresh(n) == [i \in 1..n |-> (next + i - 1) % Wrap]

Larger(m, n) == IF m >= n THEN m ELSE n

(* Bookkeeping shared by the operations that append n bytes. *)
Append_n(n) ==
  /\ size' = size + n
  /\ bytes' = bytes \o Fresh(n)
  /\ next' = (next + n) % Wrap
  /\ peak' = Larger(peak, size + n)

Init ==
  /\ size = 0
  /\ capacity = BUFFER_SIZE
  /\ bytes = <<>>
  /\ next = 0
  /\ peak = 0

(* push_back(len, buff1): sendTo and the web socket frames it carries. *)
PushBack(n) ==
  /\ size + n <= MaxBytes
  /\ capacity' = PushCapacity(size + n)
  /\ Append_n(n)

(* recv() into buff + size, limited to capacity - size; then size += ret and alloc(). *)
Recv(n) ==
  /\ size < MaxBytes
  /\ n \in 1..(capacity - size)
  /\ Append_n(n)
  /\ capacity' = AllocCapacity(size + n)

(* alloc(len): reserves len bytes at the end, which the caller fills at once. *)
AllocBytes(n) ==
  /\ size + n <= MaxBytes
  /\ capacity' = AllocCapacity(size + n)
  /\ Append_n(n)

(* alloc() on its own, as do_recv of the IOCP poller starts. *)
Alloc ==
  /\ capacity' = AllocCapacity(size)
  /\ UNCHANGED <<size, bytes, next, peak>>

(* Mutant: the rest is not moved to the front. *)
EraseUnmoved(n) ==
  /\ n <= size
  /\ size' = size - n
  /\ bytes' = SubSeq(bytes, 1, size - n)
  /\ UNCHANGED <<capacity, next, peak>>

(* erase(len) of bytes already stored; the rest moves to the front. *)
Erase(n) ==
  /\ n <= size
  /\ size' = size - n
  /\ bytes' = [i \in 1..(size - n) |-> bytes[i + n]]
  /\ UNCHANGED <<capacity, next, peak>>

(* Mutant: destroy() leaves the size. *)
ResetKeepsSize ==
  /\ capacity' = BUFFER_SIZE
  /\ bytes' = <<>>
  /\ peak' = 0
  /\ UNCHANGED <<size, next>>

(* reset(): destroy() frees the block, init() allocates a new one. *)
Reset ==
  /\ size' = 0
  /\ capacity' = BUFFER_SIZE
  /\ bytes' = <<>>
  /\ peak' = 0
  /\ UNCHANGED next

Next ==
  \/ \E n \in 0..MaxLen : PushBack(n) \/ Recv(n) \/ AllocBytes(n) \/ Erase(n)
  \/ Alloc
  \/ Reset

Spec == Init /\ [][Next]_vars

-----------------------------------------------------------------------------

TypeOK ==
  /\ size \in Nat
  /\ capacity \in Nat
  /\ peak \in Nat
  /\ next \in 0..(Wrap - 1)
  /\ bytes \in Seq(0..(Wrap - 1))
  /\ Len(bytes) = size

(***************************************************************************)
(* Whatever was pushed, received or erased before, the room behind the     *)
(* last byte is at least one allocation unit.  Hence no memcpy or recv()   *)
(* leaves the block, and recv() is never called with a length of zero: a   *)
(* return of 0, which the pollers take for the peer's close, can only be   *)
(* the peer's close.                                                       *)
(***************************************************************************)
RoomToReceive == capacity - size >= BUFFER_SIZE

(***************************************************************************)
(* The block never outgrows the largest content it had by more than three  *)
(* units, however many pushes, reads and erases led there: the int         *)
(* arithmetic of push_back and alloc stays in range as long as no content  *)
(* comes within three units of INT_MAX.                                    *)
(***************************************************************************)
CapacityFollowsPeak == capacity <= peak + 3 * BUFFER_SIZE

(***************************************************************************)
(* The buffer is a FIFO of bytes: what it holds are the last bytes that    *)
(* entered, all of them and in order, through every move and growth.       *)
(***************************************************************************)
FifoContent ==
  \A i \in 1..size : (IF i = size THEN next ELSE bytes[i + 1]) = (bytes[i] + 1) % Wrap

=============================================================================
