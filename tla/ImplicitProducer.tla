-------------------------- MODULE ImplicitProducer --------------------------
(***************************************************************************)
(* One producer's part of the task queue (Queue.h: ImplicitProducer): the  *)
(* thread that owns it enqueues, any number of consumers dequeue, and the  *)
(* elements lie in blocks that are found through a circular block index    *)
(* and return to a pool when they are empty.                               *)
(*                                                                         *)
(* Every access to something several threads use is a step of its own;     *)
(* the memory is sequentially consistent.  An element is the number of its *)
(* index.  Indexes are mathematical integers: the wrap-around of 64 bits   *)
(* is not reached.  The check of head at the start of a block cannot fail  *)
(* then (MAX_SUBQUEUE_SIZE is unlimited) and is left out, like the         *)
(* exceptions of a constructor, which the queue's element does not throw.  *)
(* The pool of free blocks is a set here; its list is module FreeList.     *)
(***************************************************************************)
EXTENDS Integers, FiniteSets, Sequences

CONSTANTS
  Consumers,
  Blocks,                       \* all the memory there is for blocks
  None,                         \* nullptr, no element
  BLOCK_SIZE,
  IMPLICIT_INITIAL_INDEX_SIZE,
  MaxElems,                     \* bound: elements ever enqueued
  MaxCounts                     \* bound: counts after which no call begins

(* The static assertions of ConcurrentQueue.  It asserts powers of two, too, as
   it masks where the module has remainders; nothing here depends on it.     *)
ASSUME ImplicitProducerAssumption ==
  /\ BLOCK_SIZE \in Nat /\ BLOCK_SIZE > 1
  /\ IMPLICIT_INITIAL_INDEX_SIZE \in Nat /\ IMPLICIT_INITIAL_INDEX_SIZE > 1
  /\ IsFiniteSet(Consumers) /\ IsFiniteSet(Blocks)
  /\ None \notin Blocks \cup Int
  /\ MaxElems \in Nat /\ MaxCounts \in Nat

INVALID_BLOCK_BASE == 1

Base(i) == i - (i % BLOCK_SIZE)

VARIABLES
  tailIndex, headIndex, dequeueOptimisticCount, dequeueOvercommit,
  headers,    \* block index headers ever made; the last one is blockIndex
  keys,       \* key of each BlockIndexEntry
  values,     \* its value: a block, or None
  cells,      \* the elements in the blocks
  completed,  \* elementsCompletelyDequeued of the blocks
  unused,     \* blocks never used: the initial pool, and memory to allocate
  free,       \* the free list
  (* the producer *)
  step, idxEntry, tailBlock,
  (* the consumers' locals *)
  pc, tail, overcommit, myCount, index, header, slot, entry, block,
  answer,     \* what the last call gave
  excused     \* history: see TaskFifo

counters == <<tailIndex, headIndex, dequeueOptimisticCount, dequeueOvercommit>>
lookup   == <<headers, keys, values>>
memory   == <<cells, completed, unused, free>>
producer == <<step, idxEntry, tailBlock>>
counting == <<tail, overcommit, myCount>>
finding  == <<header, slot, entry, block>>
consumer == <<pc, counting, index, finding, answer, excused>>
vars     == <<counters, lookup, memory, producer, consumer>>

Capacity(h) == Cardinality(DOMAIN h.index)
blockIndex == Len(headers)
Current == headers[blockIndex]

Init ==
  /\ tailIndex = 0 /\ headIndex = 0
  /\ dequeueOptimisticCount = 0 /\ dequeueOvercommit = 0
  /\ headers = <<[tail  |-> IMPLICIT_INITIAL_INDEX_SIZE - 1,
                  index |-> [i \in 0 .. IMPLICIT_INITIAL_INDEX_SIZE - 1 |-> i + 1]]>>
  /\ keys = [i \in 1 .. IMPLICIT_INITIAL_INDEX_SIZE |-> INVALID_BLOCK_BASE]
  /\ values = [i \in 1 .. IMPLICIT_INITIAL_INDEX_SIZE |-> None]
  /\ cells = [b \in Blocks |-> [i \in 0 .. BLOCK_SIZE - 1 |-> None]]
  /\ completed = [b \in Blocks |-> 0]
  /\ unused = Blocks
  /\ free = {}
  /\ step = "idle" /\ idxEntry = 0 /\ tailBlock = None
  /\ pc = [c \in Consumers |-> "idle"]
  /\ tail = [c \in Consumers |-> 0]
  /\ overcommit = [c \in Consumers |-> 0]
  /\ myCount = [c \in Consumers |-> 0]
  /\ index = [c \in Consumers |-> None]
  /\ header = [c \in Consumers |-> 0]
  /\ slot = [c \in Consumers |-> 0]
  /\ entry = [c \in Consumers |-> 0]
  /\ block = [c \in Consumers |-> None]
  /\ answer = [c \in Consumers |-> None]
  /\ excused = {}

-----------------------------------------------------------------------------
(* enqueue *)

NextSlot(h) == (h.tail + 1) % Capacity(h)

Enqueue ==
  /\ step = "idle"
  /\ tailIndex < MaxElems
  /\ step' = IF tailIndex % BLOCK_SIZE = 0 THEN "find entry" ELSE "write"
  /\ UNCHANGED <<counters, lookup, memory, idxEntry, tailBlock, consumer>>

(* Mutant: the entry is taken although its block is in use. *)
EntryFreeAlways(e) == TRUE

EntryFree(e) == keys[e] = INVALID_BLOCK_BASE \/ values[e] = None

(* insert_block_index_entry: an entry that is free, or a larger index. *)
FindEntry ==
  /\ step = "find entry"
  /\ LET e == Current.index[NextSlot(Current)]
     IN  IF EntryFree(e)
         THEN step' = "store key" /\ idxEntry' = e
         ELSE step' = "grow" /\ UNCHANGED idxEntry
  /\ UNCHANGED <<counters, lookup, memory, tailBlock, consumer>>

(* Mutant: the old index is copied from its start, not from its oldest entry. *)
GrownInPlace(h) ==
  LET n == Capacity(h)
  IN  [i \in 0 .. 2 * n - 1 |-> IF i < n THEN h.index[i] ELSE i + 1]

(* Twice the entries: the old ones, the oldest first, then new ones. *)
Grown(h) ==
  LET n == Capacity(h)
  IN  [i \in 0 .. 2 * n - 1 |-> IF i < n THEN h.index[(h.tail + 1 + i) % n] ELSE i + 1]

(* new_block_index, and the first entry of the new half. *)
NewBlockIndex ==
  /\ step = "grow"
  /\ LET n == Capacity(Current)
     IN  /\ headers' = Append(headers, [tail |-> n - 1, index |-> Grown(Current)])
         /\ keys' = [i \in 1 .. 2 * n |-> IF i <= n THEN keys[i] ELSE INVALID_BLOCK_BASE]
         /\ values' = [i \in 1 .. 2 * n |-> IF i <= n THEN values[i] ELSE None]
         /\ idxEntry' = n + 1
  /\ step' = "store key"
  /\ UNCHANGED <<counters, memory, tailBlock, consumer>>

(* malloc gives no index: enqueue returns false. *)
NoBlockIndex ==
  /\ step = "grow"
  /\ step' = "idle"
  /\ UNCHANGED <<counters, lookup, memory, idxEntry, tailBlock, consumer>>

StoreKey ==
  /\ step = "store key"
  /\ keys' = [keys EXCEPT ![idxEntry] = tailIndex]
  /\ step' = "store tail"
  /\ UNCHANGED <<counters, headers, values, memory, idxEntry, tailBlock, consumer>>

MoveTail(s) == headers' = [headers EXCEPT ![blockIndex].tail = s]

StoreTail ==
  /\ step = "store tail"
  /\ MoveTail(NextSlot(Current))
  /\ step' = "find block"
  /\ UNCHANGED <<counters, keys, values, memory, idxEntry, tailBlock, consumer>>

ResetEmpty(b) == completed' = [completed EXCEPT ![b] = 0]

(* requisition_block, and reset_empty on the block it gives. *)
RequisitionBlock(b) ==
  /\ step = "find block"
  /\ b \in unused \cup free
  /\ unused' = unused \ {b}
  /\ free' = free \ {b}
  /\ ResetEmpty(b)
  /\ tailBlock' = b
  /\ step' = "store value"
  /\ UNCHANGED <<counters, lookup, cells, idxEntry, consumer>>

(* The memory is used up.  The free list may seem empty when it is not. *)
NoBlock ==
  /\ step = "find block"
  /\ unused = {}
  /\ step' = "rewind"
  /\ UNCHANGED <<counters, lookup, memory, idxEntry, tailBlock, consumer>>

RewindTail ==
  /\ step = "rewind"
  /\ MoveTail((Current.tail - 1) % Capacity(Current))
  /\ step' = "clear value"
  /\ UNCHANGED <<counters, keys, values, memory, idxEntry, tailBlock, consumer>>

ClearValue ==
  /\ step = "clear value"
  /\ values' = [values EXCEPT ![idxEntry] = None]
  /\ step' = "idle"
  /\ UNCHANGED <<counters, headers, keys, memory, idxEntry, tailBlock, consumer>>

StoreValue ==
  /\ step = "store value"
  /\ values' = [values EXCEPT ![idxEntry] = tailBlock]
  /\ step' = "write"
  /\ UNCHANGED <<counters, headers, keys, memory, idxEntry, tailBlock, consumer>>

Write ==
  /\ step = "write"
  /\ cells' = [cells EXCEPT ![tailBlock][tailIndex % BLOCK_SIZE] = tailIndex]
  /\ step' = "publish"
  /\ UNCHANGED <<counters, lookup, completed, unused, free, idxEntry, tailBlock, consumer>>

Publish ==
  /\ step = "publish"
  /\ tailIndex' = tailIndex + 1
  /\ step' = "idle"
  /\ UNCHANGED <<headIndex, dequeueOptimisticCount, dequeueOvercommit,
                 lookup, memory, idxEntry, tailBlock, consumer>>

Produce ==
  \/ Enqueue \/ FindEntry \/ NewBlockIndex \/ NoBlockIndex \/ StoreKey \/ StoreTail
  \/ \E b \in Blocks : RequisitionBlock(b)
  \/ NoBlock \/ RewindTail \/ ClearValue \/ StoreValue \/ Write \/ Publish

-----------------------------------------------------------------------------
(* dequeue *)

Set(f, c, v) == [f EXCEPT ![c] = v]
Goto(c, l) == pc' = Set(pc, c, l)

(* Consumers whose call has not its answer yet. *)
Asking == {c \in Consumers : pc[c] \notin {"idle", "set empty", "unlink", "release"}}

Dequeue(c) ==
  /\ pc[c] = "idle"
  /\ dequeueOptimisticCount < MaxCounts
  /\ tail' = Set(tail, c, tailIndex)
  /\ Goto(c, "load overcommit")
  /\ answer' = Set(answer, c, None)
  /\ excused' = IF Asking # {} \/ headIndex = tailIndex THEN excused \cup Asking \cup {c}
                ELSE excused \ {c}
  /\ UNCHANGED <<counters, lookup, memory, producer, overcommit, myCount, index, finding>>

LoadOvercommit(c) ==
  /\ pc[c] = "load overcommit"
  /\ overcommit' = Set(overcommit, c, dequeueOvercommit)
  /\ Goto(c, "compare")
  /\ UNCHANGED <<counters, lookup, memory, producer, tail, myCount, index, finding,
                 answer, excused>>

(* Nothing is left for this consumer: false, with no count taken. *)
Compare(c) ==
  /\ pc[c] = "compare"
  /\ Goto(c, IF dequeueOptimisticCount - overcommit[c] < tail[c] THEN "count" ELSE "idle")
  /\ tail' = Set(tail, c, 0)
  /\ UNCHANGED <<counters, lookup, memory, producer, overcommit, myCount, index, finding,
                 answer, excused>>

Count(c) ==
  /\ pc[c] = "count"
  /\ myCount' = Set(myCount, c, dequeueOptimisticCount)
  /\ dequeueOptimisticCount' = dequeueOptimisticCount + 1
  /\ Goto(c, "recheck")
  /\ UNCHANGED <<tailIndex, headIndex, dequeueOvercommit, lookup, memory, producer,
                 tail, overcommit, index, finding, answer, excused>>

(* Mutant: whoever has a count takes an element. *)
MayClaimAlways(c) == TRUE

MayClaim(c) == myCount[c] - overcommit[c] < tailIndex

Recheck(c) ==
  /\ pc[c] = "recheck"
  /\ Goto(c, IF MayClaim(c) THEN "claim" ELSE "give up")
  /\ myCount' = Set(myCount, c, 0)
  /\ overcommit' = Set(overcommit, c, 0)
  /\ UNCHANGED <<counters, lookup, memory, producer, tail, index, finding, answer, excused>>

GiveUp(c) ==
  /\ pc[c] = "give up"
  /\ dequeueOvercommit' = dequeueOvercommit + 1
  /\ Goto(c, "idle")
  /\ UNCHANGED <<tailIndex, headIndex, dequeueOptimisticCount, lookup, memory, producer,
                 counting, index, finding, answer, excused>>

Claim(c) ==
  /\ pc[c] = "claim"
  /\ index' = Set(index, c, headIndex)
  /\ headIndex' = headIndex + 1
  /\ excused' = IF headIndex' = tailIndex THEN excused \cup Asking ELSE excused
  /\ Goto(c, "load header")
  /\ UNCHANGED <<tailIndex, dequeueOptimisticCount, dequeueOvercommit, lookup, memory,
                 producer, counting, finding, answer>>

(* get_block_index_entry_for_index *)
LoadHeader(c) ==
  /\ pc[c] = "load header"
  /\ header' = Set(header, c, blockIndex)
  /\ Goto(c, "load slot")
  /\ UNCHANGED <<counters, lookup, memory, producer, counting, index, slot, entry, block,
                 answer, excused>>

LoadSlot(c) ==
  /\ pc[c] = "load slot"
  /\ slot' = Set(slot, c, headers[header[c]].tail)
  /\ Goto(c, "find entry")
  /\ UNCHANGED <<counters, lookup, memory, producer, counting, index, header, entry, block,
                 answer, excused>>

(* The block of the index lies as many entries before the tail's as their
   keys are blocks apart.                                                 *)
EntryOf(c) ==
  LET h == headers[header[c]]
      offset == (Base(index[c]) - keys[h.index[slot[c]]]) \div BLOCK_SIZE
  IN  h.index[(slot[c] + offset) % Capacity(h)]

LoadKey(c) ==
  /\ pc[c] = "find entry"
  /\ entry' = Set(entry, c, EntryOf(c))
  /\ header' = Set(header, c, 0)
  /\ slot' = Set(slot, c, 0)
  /\ Goto(c, "load value")
  /\ UNCHANGED <<counters, lookup, memory, producer, counting, index, block, answer, excused>>

LoadValue(c) ==
  /\ pc[c] = "load value"
  /\ block' = Set(block, c, values[entry[c]])
  /\ Goto(c, "move")
  /\ UNCHANGED <<counters, lookup, memory, producer, counting, index, header, slot, entry,
                 answer, excused>>

(* The element is moved out of the block and destroyed. *)
Move(c) ==
  /\ pc[c] = "move"
  /\ LET i == index[c] % BLOCK_SIZE
     IN  /\ answer' = Set(answer, c, cells[block[c]][i])
         /\ cells' = [cells EXCEPT ![block[c]][i] = None]
  /\ index' = Set(index, c, None)
  /\ Goto(c, "set empty")
  /\ UNCHANGED <<counters, lookup, completed, unused, free, producer, counting, finding,
                 excused>>

LastOfBlock(b) == completed[b] = BLOCK_SIZE - 1

(* set_empty: who empties the block gives it back. *)
SetEmpty(c) ==
  /\ pc[c] = "set empty"
  /\ completed' = [completed EXCEPT ![block[c]] = @ + 1]
  /\ IF LastOfBlock(block[c])
     THEN Goto(c, "unlink") /\ UNCHANGED <<entry, block>>
     ELSE Goto(c, "idle") /\ entry' = Set(entry, c, 0) /\ block' = Set(block, c, None)
  /\ UNCHANGED <<counters, lookup, cells, unused, free, producer, counting, index, header,
                 slot, answer, excused>>

Unlink(c) ==
  /\ pc[c] = "unlink"
  /\ values' = [values EXCEPT ![entry[c]] = None]
  /\ entry' = Set(entry, c, 0)
  /\ Goto(c, "release")
  /\ UNCHANGED <<counters, headers, keys, memory, producer, counting, index, header, slot,
                 block, answer, excused>>

(* add_block_to_free_list *)
Release(c) ==
  /\ pc[c] = "release"
  /\ free' = free \cup {block[c]}
  /\ block' = Set(block, c, None)
  /\ Goto(c, "idle")
  /\ UNCHANGED <<counters, lookup, cells, completed, unused, producer, counting, index,
                 header, slot, entry, answer, excused>>

Consume(c) ==
  \/ Dequeue(c) \/ LoadOvercommit(c) \/ Compare(c) \/ Count(c) \/ Recheck(c) \/ GiveUp(c)
  \/ Claim(c) \/ LoadHeader(c) \/ LoadSlot(c) \/ LoadKey(c) \/ LoadValue(c) \/ Move(c)
  \/ SetEmpty(c) \/ Unlink(c) \/ Release(c)

Next == Produce \/ \E c \in Consumers : Consume(c)

Spec == Init /\ [][Next]_vars

-----------------------------------------------------------------------------
(* Properties *)

Entries == DOMAIN keys
Steps == {"idle", "find entry", "grow", "store key", "store tail", "find block",
          "rewind", "clear value", "store value", "write", "publish"}
Points == {"idle", "load overcommit", "compare", "count", "recheck", "give up", "claim",
           "load header", "load slot", "find entry", "load value", "move", "set empty",
           "unlink", "release"}

(* Every variable holds a value of its kind, and every pointer into the
   block index leads to a header, a slot or an entry that was made.      *)
TypeOK ==
  /\ tailIndex \in 0 .. MaxElems /\ headIndex \in 0 .. tailIndex
  /\ dequeueOptimisticCount \in Nat /\ dequeueOvercommit \in 0 .. dequeueOptimisticCount
  /\ \A n \in DOMAIN headers :
       /\ headers[n].tail \in DOMAIN headers[n].index
       /\ headers[n].index \in [0 .. Capacity(headers[n]) - 1 -> Entries]
  /\ keys \in [Entries -> Nat] /\ values \in [Entries -> Blocks \cup {None}]
  /\ cells \in [Blocks -> [0 .. BLOCK_SIZE - 1 -> Nat \cup {None}]]
  /\ completed \in [Blocks -> 0 .. BLOCK_SIZE]
  /\ unused \subseteq Blocks /\ free \subseteq Blocks
  /\ step \in Steps /\ idxEntry \in Entries \cup {0} /\ tailBlock \in Blocks \cup {None}
  /\ pc \in [Consumers -> Points]
  /\ tail \in [Consumers -> Nat] /\ overcommit \in [Consumers -> Nat]
  /\ myCount \in [Consumers -> Nat] /\ index \in [Consumers -> Nat \cup {None}]
  /\ header \in [Consumers -> 0 .. Len(headers)] /\ slot \in [Consumers -> Nat]
  /\ entry \in [Consumers -> Entries \cup {0}] /\ block \in [Consumers -> Blocks \cup {None}]
  /\ answer \in [Consumers -> Nat \cup {None}] /\ excused \subseteq Consumers

(* The assertions of get_block_index_index_for_index (2984, 2992): whatever
   was enqueued, wrapped round or grown between its loads, a consumer that
   claimed an index finds the entry with the base of its block, and a block
   in it; and the element is there, constructed and not yet moved away.   *)
EntryFound ==
  \A c \in Consumers :
    /\ pc[c] = "find entry" => keys[headers[header[c]].index[slot[c]]] # INVALID_BLOCK_BASE
    /\ pc[c] = "load value" => keys[entry[c]] = Base(index[c]) /\ values[entry[c]] # None
    /\ pc[c] = "move" => cells[block[c]][index[c] % BLOCK_SIZE] = index[c]

(* A block is in one place: not used yet, in the free list, in one entry of
   the index, or in the hands of the one thread that takes it from the pool
   or gives it back.  None is lost, and none is used twice.               *)
Places(b) ==
  (IF b \in unused THEN {"unused"} ELSE {}) \cup (IF b \in free THEN {"free"} ELSE {})
  \cup {<<"entry", e>> : e \in {f \in Entries : values[f] = b}}
  \cup (IF step = "store value" /\ tailBlock = b THEN {"producer"} ELSE {})
  \cup {<<"consumer", c>> : c \in {d \in Consumers : pc[d] = "release" /\ block[d] = b}}

OneHolder == \A b \in Blocks : Cardinality(Places(b)) = 1

(* The index, the free list and the counters of the blocks agree at every
   point of enqueue and dequeue: no block leaks, and none has two users.  *)
Inv ==
  /\ TypeOK
  /\ OneHolder

(* The queue keeps what TaskFifo promises: the claims are served in order,
   each with its own element, and a consumer is sent away only when the
   queue was empty during its call, or when another one was asking.       *)
Fifo ==
  INSTANCE TaskFifo WITH
    Elements <- 0 .. MaxElems - 1,
    queue <- [i \in 1 .. tailIndex - headIndex |-> headIndex + i - 1],
    asking <- Asking,
    claimed <- index

ImplementsFifo == Fifo!Spec

=============================================================================
