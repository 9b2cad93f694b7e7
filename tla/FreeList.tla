------------------------------ MODULE FreeList ------------------------------
(***************************************************************************)
(* The free list of blocks of the task queue (Queue.h: FreeListNode and    *)
(* FreeList), a stack that threads push to and pop from by compare-and-    *)
(* swap, with a reference count in every node.                             *)
(*                                                                         *)
(* Every access to an atomic is a step, and the steps of all threads       *)
(* interleave: the memory is sequentially consistent, and the orders the   *)
(* code asks for (acquire, release, relaxed) are not modelled.  A count    *)
(* and its flag share one word: SHOULD_BE_ON_FREELIST is a bit above every *)
(* count that can occur.                                                   *)
(*                                                                         *)
(* list is a history variable: the nodes that were pushed and not popped,  *)
(* which freeListHead and the freeListNext of the nodes have to spell.     *)
(***************************************************************************)
EXTENDS Integers, FiniteSets, Sequences, SequencesExt

CONSTANTS
  Threads,
  Nodes,
  Null,
  SHOULD_BE_ON_FREELIST  \* the flag in freeListRefs (2^31 in the code)

ASSUME FreeListAssumption ==
  /\ IsFiniteSet(Threads)
  /\ Null \notin Nodes
  /\ SHOULD_BE_ON_FREELIST \in Nat
  /\ Cardinality(Threads) + 1 < SHOULD_BE_ON_FREELIST

VARIABLES
  freeListHead,
  freeListRefs,
  freeListNext,
  list,   \* history: the stack
  out,    \* nodes in use, not in the free list
  pc,     \* what a thread does next
  head,   \* local of try_get: the node it looks at; the node taken
  refs,   \* local of try_get
  next,   \* local of try_get
  node,   \* prevHead of try_get; argument of add
  top,    \* local head of add_knowing_refcount_is_zero
  inGet   \* add_knowing_refcount_is_zero was called by try_get

shared == <<freeListHead, freeListRefs, freeListNext, list, out>>
locals == <<head, refs, next, node, top, inGet>>
vars   == <<shared, pc, locals>>

Init ==
  /\ freeListHead = Null
  /\ freeListRefs = [n \in Nodes |-> 0]
  /\ freeListNext = [n \in Nodes |-> Null]
  /\ list = <<>>
  /\ out = Nodes
  /\ pc = [t \in Threads |-> "idle"]
  /\ head = [t \in Threads |-> Null]
  /\ refs = [t \in Threads |-> 0]
  /\ next = [t \in Threads |-> Null]
  /\ node = [t \in Threads |-> Null]
  /\ top = [t \in Threads |-> Null]
  /\ inGet = [t \in Threads |-> FALSE]

Set(f, t, v) == [f EXCEPT ![t] = v]
Goto(t, l) == pc' = Set(pc, t, l)

-----------------------------------------------------------------------------
(* try_get *)

(* The head is loaded: nullptr ends the call; locals are dead by then. *)
Look(t, h) ==
  IF h = Null
  THEN /\ Goto(t, "idle")
       /\ head' = Set(head, t, Null)
  ELSE /\ Goto(t, "load refs")
       /\ head' = Set(head, t, h)

TryGet(t) ==
  /\ pc[t] \in {"idle", "reload"}
  /\ pc[t] = "idle" => freeListHead # Null
  /\ Look(t, freeListHead)
  /\ UNCHANGED <<shared, refs, next, node, top, inGet>>

LoadRefs(t) ==
  /\ pc[t] = "load refs"
  /\ IF freeListRefs[head[t]] % SHOULD_BE_ON_FREELIST = 0
     THEN Goto(t, "reload") /\ UNCHANGED refs
     ELSE Goto(t, "take ref") /\ refs' = Set(refs, t, freeListRefs[head[t]])
  /\ UNCHANGED <<shared, head, next, node, top, inGet>>

(* Mutant: the reference is added whatever happened since the load. *)
MayTakeRefAlways(t) == TRUE

MayTakeRef(t) == freeListRefs[head[t]] = refs[t]

TakeRef(t) ==
  /\ pc[t] = "take ref"
  /\ IF MayTakeRef(t)
     THEN /\ freeListRefs' = [freeListRefs EXCEPT ![head[t]] = @ + 1]
          /\ Goto(t, "read next")
     ELSE /\ Goto(t, "reload")
          /\ UNCHANGED freeListRefs
  /\ refs' = Set(refs, t, 0)
  /\ UNCHANGED <<freeListHead, freeListNext, list, out, head, next, node, top, inGet>>

ReadNext(t) ==
  /\ pc[t] = "read next"
  /\ next' = Set(next, t, freeListNext[head[t]])
  /\ Goto(t, "pop")
  /\ UNCHANGED <<shared, head, refs, node, top, inGet>>

(* The compare-and-swap of the head; a failed one leaves the head it found
   in the local.                                                          *)
Pop(t) ==
  /\ pc[t] = "pop"
  /\ IF freeListHead = head[t]
     THEN /\ freeListHead' = next[t]
          /\ list' = Tail(list)
          /\ Goto(t, "taken")
          /\ UNCHANGED <<head, node>>
     ELSE /\ node' = Set(node, t, head[t])
          /\ head' = Set(head, t, freeListHead)
          /\ Goto(t, "drop ref")
          /\ UNCHANGED <<freeListHead, list>>
  /\ next' = Set(next, t, Null)
  /\ UNCHANGED <<freeListRefs, freeListNext, out, refs, top, inGet>>

(* Mutant: the reference of the list is forgotten. *)
RefsOfTakenOne == 1

(* Ours and the list's. *)
RefsOfTaken == 2

Taken(t) ==
  /\ pc[t] = "taken"
  /\ freeListRefs' = [freeListRefs EXCEPT ![head[t]] = @ - RefsOfTaken]
  /\ out' = out \cup {head[t]}
  /\ head' = Set(head, t, Null)
  /\ Goto(t, "idle")
  /\ UNCHANGED <<freeListHead, freeListNext, list, refs, next, node, top, inGet>>

(* Mutant: who drops the last reference does not put the node back. *)
MustPutBackNever(n) == FALSE

MustPutBack(n) == freeListRefs[n] = SHOULD_BE_ON_FREELIST + 1

DropRef(t) ==
  /\ pc[t] = "drop ref"
  /\ freeListRefs' = [freeListRefs EXCEPT ![node[t]] = @ - 1]
  /\ IF MustPutBack(node[t])
     THEN /\ inGet' = Set(inGet, t, TRUE)
          /\ Goto(t, "load head")
          /\ UNCHANGED <<head, node>>
     ELSE /\ Look(t, head[t])
          /\ node' = Set(node, t, Null)
          /\ UNCHANGED inGet
  /\ UNCHANGED <<freeListHead, freeListNext, list, out, refs, next, top>>

-----------------------------------------------------------------------------
(* add, by any thread, of any node in use *)

Add(t) ==
  /\ pc[t] = "idle"
  /\ \E n \in out :
       /\ out' = out \ {n}
       /\ freeListRefs' = [freeListRefs EXCEPT ![n] = @ + SHOULD_BE_ON_FREELIST]
       /\ IF freeListRefs[n] = 0
          THEN node' = Set(node, t, n) /\ Goto(t, "load head")
          ELSE UNCHANGED <<node, pc>>
  /\ UNCHANGED <<freeListHead, freeListNext, list, head, refs, next, top, inGet>>

(* add_knowing_refcount_is_zero *)

LoadHead(t) ==
  /\ pc[t] = "load head"
  /\ top' = Set(top, t, freeListHead)
  /\ Goto(t, "set next")
  /\ UNCHANGED <<shared, head, refs, next, node, inGet>>

SetNext(t) ==
  /\ pc[t] = "set next"
  /\ freeListNext' = [freeListNext EXCEPT ![node[t]] = top[t]]
  /\ Goto(t, "set refs")
  /\ UNCHANGED <<freeListHead, freeListRefs, list, out, locals>>

SetRefs(t) ==
  /\ pc[t] = "set refs"
  /\ freeListRefs' = [freeListRefs EXCEPT ![node[t]] = 1]
  /\ Goto(t, "push")
  /\ UNCHANGED <<freeListHead, freeListNext, list, out, locals>>

(* The call is over: add's, or the loop of try_get goes on with the head its
   failed compare-and-swap found.                                         *)
Added(t) ==
  /\ IF inGet[t] THEN Look(t, head[t]) ELSE Goto(t, "idle") /\ UNCHANGED head
  /\ node' = Set(node, t, Null)
  /\ top' = Set(top, t, Null)
  /\ inGet' = Set(inGet, t, FALSE)

Push(t) ==
  /\ pc[t] = "push"
  /\ IF freeListHead = top[t]
     THEN /\ freeListHead' = node[t]
          /\ list' = <<node[t]>> \o list
          /\ Added(t)
     ELSE /\ top' = Set(top, t, freeListHead)
          /\ Goto(t, "unref")
          /\ UNCHANGED <<freeListHead, list, head, node, inGet>>
  /\ UNCHANGED <<freeListRefs, freeListNext, out, refs, next>>

MayRetry(n) == freeListRefs[n] = 1

Unref(t) ==
  /\ pc[t] = "unref"
  /\ freeListRefs' = [freeListRefs EXCEPT ![node[t]] = @ + SHOULD_BE_ON_FREELIST - 1]
  /\ IF MayRetry(node[t])
     THEN Goto(t, "set next") /\ UNCHANGED <<head, node, top, inGet>>
     ELSE Added(t)
  /\ UNCHANGED <<freeListHead, freeListNext, list, out, refs, next>>

Step(t) ==
  \/ TryGet(t) \/ LoadRefs(t) \/ TakeRef(t) \/ ReadNext(t) \/ Pop(t) \/ Taken(t) \/ DropRef(t)
  \/ Add(t) \/ LoadHead(t) \/ SetNext(t) \/ SetRefs(t) \/ Push(t) \/ Unref(t)

Next == \E t \in Threads : Step(t)

Spec == Init /\ [][Next]_vars

(* A thread finishes what it began. *)
LiveSpec == Spec /\ \A t \in Threads : WF_vars(pc[t] # "idle" /\ Step(t))

-----------------------------------------------------------------------------

Labels == {"idle", "reload", "load refs", "take ref", "read next", "pop", "taken",
           "drop ref", "load head", "set next", "set refs", "push", "unref"}

TypeOK ==
  /\ freeListHead \in Nodes \cup {Null}
  /\ freeListRefs \in [Nodes -> Nat]
  /\ freeListNext \in [Nodes -> Nodes \cup {Null}]
  /\ list \in Seq(Nodes)
  /\ out \subseteq Nodes
  /\ pc \in [Threads -> Labels]
  /\ head \in [Threads -> Nodes \cup {Null}]
  /\ refs \in [Threads -> Nat]
  /\ next \in [Threads -> Nodes \cup {Null}]
  /\ node \in [Threads -> Nodes \cup {Null}]
  /\ top \in [Threads -> Nodes \cup {Null}]
  /\ inGet \in [Threads -> BOOLEAN]

(***************************************************************************)
(* The words in memory spell the stack: a successful pop had read the      *)
(* freeListNext its node still has (no ABA), and nobody writes the         *)
(* freeListNext of a node on the list.                                     *)
(***************************************************************************)
SpellsList ==
  LET ends == list \o <<Null>>
  IN  /\ freeListHead = ends[1]
      /\ \A i \in 1..Len(list) : freeListNext[list[i]] = ends[i + 1]

(***************************************************************************)
(* A node has one owner at most, and is lost to none: it is in use, or on  *)
(* the list once, or one thread is taking it or putting it back, or it is  *)
(* flagged and a thread that still holds a reference will put it back.     *)
(***************************************************************************)
Adding(n) == {t \in Threads : node[t] = n /\ pc[t] \in {"load head", "set next", "set refs", "push", "unref"}}
Taking(n) == {t \in Threads : head[t] = n /\ pc[t] = "taken"}
Holding(n) ==
  {t \in Threads : \/ head[t] = n /\ pc[t] \in {"read next", "pop", "taken"}
                   \/ node[t] = n /\ pc[t] = "drop ref"}
OnList(n) == {i \in 1..Len(list) : list[i] = n}
Flagged(n) == freeListRefs[n] >= SHOULD_BE_ON_FREELIST

Owners(n) ==
  (IF n \in out THEN 1 ELSE 0) + Cardinality(OnList(n))
    + Cardinality(Taking(n)) + Cardinality(Adding(n))

OneOwner ==
  \A n \in Nodes : Owners(n) = 1 \/ (Owners(n) = 0 /\ Flagged(n) /\ Holding(n) # {})

(***************************************************************************)
(* The count is exact: one for the list, from the moment the node is       *)
(* offered to it, and one for each thread that may read its next.  And the *)
(* assertion of try_get: a node just taken is not flagged.                 *)
(***************************************************************************)
Offered(n) == \E t \in Adding(n) : pc[t] \in {"push", "unref"}

CountExact ==
  \A n \in Nodes :
    /\ freeListRefs[n] % SHOULD_BE_ON_FREELIST =
         Cardinality(Holding(n)) + IF OnList(n) # {} \/ Offered(n) \/ Taking(n) # {} THEN 1 ELSE 0
    /\ Taking(n) # {} => ~Flagged(n)

(***************************************************************************)
(* The protocol of freeListRefs, in every interleaving of try_get and add: *)
(* the flag and the count together say who owns a node and who may still   *)
(* read it.                                                                *)
(***************************************************************************)
Inv ==
  /\ TypeOK
  /\ OneOwner
  /\ CountExact

(***************************************************************************)
(* A node that add left to those who hold references is put back, though   *)
(* threads go on taking and adding nodes.                                  *)
(***************************************************************************)
PutBack == \A n \in Nodes : Owners(n) = 0 ~> Owners(n) = 1

=============================================================================
