--------------------------- MODULE FreeListProofs ---------------------------
(***************************************************************************)
(* What holds of the free list for every number of threads and nodes: the  *)
(* words in memory spell the stack, a node has one owner, the counts are   *)
(* exact.  The inductive invariant speaks of one node at a time, and of    *)
(* the part each thread has in it; the one cardinality that remains is     *)
(* that of Holding, which a step changes by one at most.                   *)
(***************************************************************************)
EXTENDS FreeList, FiniteSetTheorems, TLAPS

Flag == SHOULD_BE_ON_FREELIST

-----------------------------------------------------------------------------
(* The inductive invariant *)

(* The labels of add_knowing_refcount_is_zero, before and after it has set
   the count to one.                                                      *)
EarlyPc == {"load head", "set next", "set refs"}
OfferPc == {"push", "unref"}

(* The part a thread has in a node: it will offer the node to the list, it
   is offering it, it has just popped it; it may read its next.           *)
Early(t, n)  == node[t] = n /\ pc[t] \in EarlyPc
Offers(t, n) == node[t] = n /\ pc[t] \in OfferPc
Takes(t, n)  == head[t] = n /\ pc[t] = "taken"
Holds(t, n)  ==
  \/ head[t] = n /\ pc[t] \in {"read next", "pop", "taken"}
  \/ node[t] = n /\ pc[t] = "drop ref"

Owns(t, n) == Early(t, n) \/ Offers(t, n) \/ Takes(t, n)

Listed(n) == \E i \in 1..Len(list) : list[i] = n

(* A node is in use, on the list, or with one thread that adds or takes it. *)
Alone(n) ==
  /\ n \in out => ~Listed(n)
  /\ \A t \in Threads : Owns(t, n) => n \notin out /\ ~Listed(n)
  /\ \A t, u \in Threads : Owns(t, n) /\ Owns(u, n) => t = u

(* Flagged by add, and left to whoever drops the last reference. *)
Waiting(n) == n \notin out /\ ~Listed(n) /\ \A t \in Threads : ~Owns(t, n)

(* The flag is set; the reference of the list is counted. *)
Marked(n) == Waiting(n) \/ \E t \in Threads : Early(t, n)
Shared(n) == Listed(n) \/ \E t \in Threads : Offers(t, n) \/ Takes(t, n)

(* Nobody holds a node that is about to be linked, and somebody holds one
   that waits.                                                            *)
Held(n) ==
  /\ \A t, u \in Threads : Early(t, n) => ~Holds(u, n)
  /\ Waiting(n) => \E t \in Threads : Holds(t, n)

Counted(n) ==
  freeListRefs[n] = Cardinality(Holding(n))
                      + (IF Marked(n) THEN Flag ELSE 0) + (IF Shared(n) THEN 1 ELSE 0)

NodeOK(n) == Alone(n) /\ Held(n) /\ Counted(n)

(* The locals a thread is about to follow are nodes. *)
LocalsOK ==
  \A t \in Threads :
    /\ pc[t] \in {"load refs", "take ref", "read next", "pop", "taken"} => head[t] \in Nodes
    /\ pc[t] \in EarlyPc \cup OfferPc \cup {"drop ref"} => node[t] \in Nodes
    /\ pc[t] = "take ref" => refs[t] % Flag # 0

(* What a thread that pops or pushes believes of the next of its node. *)
NextOK ==
  \A t \in Threads :
    /\ pc[t] = "pop" => next[t] = freeListNext[head[t]]
    /\ pc[t] \in {"set refs", "push"} => top[t] = freeListNext[node[t]]

Distinct == \A i, j \in 1..Len(list) : list[i] = list[j] => i = j

Spelled ==
  /\ freeListHead = IF list = <<>> THEN Null ELSE list[1]
  /\ \A i \in 1..Len(list) :
       freeListNext[list[i]] = IF i = Len(list) THEN Null ELSE list[i + 1]

IInv ==
  /\ TypeOK
  /\ LocalsOK
  /\ \A n \in Nodes : NodeOK(n)
  /\ NextOK
  /\ Distinct
  /\ Spelled

-----------------------------------------------------------------------------
(* Numbers and sets *)

(* A count below the flag is what remains of it, flagged or not. *)
LEMMA CountBelowFlag ==
  ASSUME NEW k \in 0..(Flag - 1)
  PROVE  k % Flag = k /\ (Flag + k) % Flag = k
  <1> DEFINE m == Flag + k
             p == m \div Flag
             r == m % Flag
  <1>1. Flag \in Nat \ {0} /\ m \in Nat
    BY FreeListAssumption DEF Flag
  <1> HIDE DEF m, Flag
  <1>2. k % Flag = k
    BY <1>1
  <1>3. p \in Nat /\ r \in 0..(Flag - 1) /\ m = p * Flag + r
    BY <1>1
  <1> HIDE DEF p, r
  <1>4. CASE p = 0
    BY <1>1, <1>3, <1>4 DEF m
  <1>5. CASE p = 1
    BY <1>1, <1>3, <1>5 DEF m, r
  <1>6. CASE p >= 2
    <2>1. PICK d \in Nat : p = 2 + d
      <3>1. p - 2 \in Nat /\ p = 2 + (p - 2)
        BY <1>3, <1>6
      <3> QED BY <3>1
    <2>2. p * Flag = 2 * Flag + d * Flag /\ d * Flag \in Nat
      BY <2>1, <1>1
    <2> QED BY <2>2, <1>1, <1>3 DEF m
  <1> QED BY <1>2, <1>3, <1>4, <1>5, <1>6

(* A node that nobody counts, flagged, counts as zero. *)
LEMMA FlagAlone == Flag \in Nat /\ (0 + Flag + 0) % Flag = 0
  <1>1. Cardinality(Threads) \in Nat
    BY FreeListAssumption, FS_CardinalityType
  <1>2. Flag \in Nat /\ Flag > 0
    BY <1>1, FreeListAssumption DEF Flag
  <1>3. 0 \in 0..(Flag - 1) /\ 0 + Flag + 0 = Flag + 0
    BY <1>2
  <1> QED BY <1>2, <1>3, CountBelowFlag

(* Holding is the set of the threads that hold. *)
LEMMA HoldingIs ==
  ASSUME NEW n \in Nodes
  PROVE  /\ Holding(n) = {t \in Threads : Holds(t, n)}
         /\ IsFiniteSet(Holding(n))
         /\ Flag \in Nat /\ Cardinality(Holding(n)) \in Nat
         /\ Cardinality(Holding(n)) \in 0..(Flag - 2)
         /\ Cardinality(Holding(n)) = 0 <=> \A t \in Threads : ~Holds(t, n)
  <1>1. Holding(n) = {t \in Threads : Holds(t, n)}
    BY DEF Holding, Holds
  <1>2. IsFiniteSet(Threads) /\ Cardinality(Threads) \in Nat
    BY FreeListAssumption, FS_CardinalityType
  <1>3. Holding(n) \in SUBSET Threads
    BY <1>1
  <1>4. IsFiniteSet(Holding(n)) /\ Cardinality(Holding(n)) <= Cardinality(Threads)
    BY <1>2, <1>3, FS_Subset
  <1>5. Cardinality(Holding(n)) \in Nat
    BY <1>4, FS_CardinalityType
  <1>6. Cardinality(Holding(n)) = 0 <=> Holding(n) = {}
    BY <1>4, FS_EmptySet
  <1> QED BY <1>1, <1>2, <1>4, <1>5, <1>6, FreeListAssumption DEF Flag

(* The only holder of a node with one reference. *)
LEMMA HoldingOne ==
  ASSUME NEW n \in Nodes, Cardinality(Holding(n)) = 1, NEW t \in Threads, Holds(t, n)
  PROVE  \A u \in Threads : Holds(u, n) => u = t
  <1>1. \E x : Holding(n) = {x}
    BY HoldingIs, FS_Singleton
  <1> QED BY <1>1, HoldingIs

(* A node that one thread holds and no other has one reference. *)
LEMMA HoldingAlone ==
  ASSUME NEW n \in Nodes, NEW t \in Threads, Holds(t, n),
         \A u \in Threads \ {t} : ~Holds(u, n)
  PROVE  Cardinality(Holding(n)) = 1
  <1>1. Holding(n) = {t}
    BY HoldingIs
  <1> QED BY <1>1, FS_Singleton

(* A step that changes no holder leaves the number of them; one that adds or
   removes a holder changes it by one.                                    *)
LEMMA HoldingKept ==
  ASSUME NEW n \in Nodes, \A u \in Threads : Holds(u, n)' <=> Holds(u, n)
  PROVE  Cardinality(Holding(n))' = Cardinality(Holding(n))
  <1>1. Holding(n)' = Holding(n)
    BY DEF Holding, Holds
  <1> QED BY <1>1

(* A thread that takes a reference adds one. *)
LEMMA HoldingGains ==
  ASSUME NEW n \in Nodes, NEW t \in Threads, ~Holds(t, n), Holds(t, n)',
         \A u \in Threads \ {t} : Holds(u, n)' <=> Holds(u, n)
  PROVE  Cardinality(Holding(n))' = Cardinality(Holding(n)) + 1
  <1>1. Holding(n)' = Holding(n) \cup {t} /\ t \notin Holding(n)
    BY DEF Holding, Holds
  <1>2. IsFiniteSet(Holding(n))
    BY HoldingIs
  <1> QED BY <1>1, <1>2, FS_AddElement

(* A thread that drops its reference takes one away. *)
LEMMA HoldingLoses ==
  ASSUME NEW n \in Nodes, NEW t \in Threads, Holds(t, n), ~Holds(t, n)',
         \A u \in Threads \ {t} : Holds(u, n)' <=> Holds(u, n)
  PROVE  Cardinality(Holding(n))' = Cardinality(Holding(n)) - 1
  <1>1. Holding(n)' = Holding(n) \ {t} /\ t \in Holding(n)
    BY DEF Holding, Holds
  <1>2. IsFiniteSet(Holding(n))
    BY HoldingIs
  <1> QED BY <1>1, <1>2, FS_RemoveElement

(* A thread that takes or drops a reference changes the count of the node
   with the number of its holders.                                        *)
LEMMA CountedGains ==
  ASSUME NEW n \in Nodes, Counted(n), freeListRefs'[n] = freeListRefs[n] + 1,
         NEW t \in Threads, ~Holds(t, n), Holds(t, n)',
         \A u \in Threads \ {t} : Holds(u, n)' <=> Holds(u, n),
         Marked(n)' <=> Marked(n), Shared(n)' <=> Shared(n)
  PROVE  Counted(n)'
  <1>1. Cardinality(Holding(n)) \in Nat /\ Flag \in Nat
    BY HoldingIs
  <1>2. Cardinality(Holding(n))' = Cardinality(Holding(n)) + 1
    BY HoldingGains
  <1> QED BY <1>1, <1>2 DEF Counted, Flag

(* A count that goes down with the references still counts them. *)
LEMMA CountedLoses ==
  ASSUME NEW n \in Nodes, Counted(n), freeListRefs'[n] = freeListRefs[n] - 1,
         NEW t \in Threads, Holds(t, n), ~Holds(t, n)',
         \A u \in Threads \ {t} : Holds(u, n)' <=> Holds(u, n),
         Marked(n)' <=> Marked(n), Shared(n)' <=> Shared(n)
  PROVE  Counted(n)'
  <1>1. Cardinality(Holding(n)) \in Nat /\ Flag \in Nat
    BY HoldingIs
  <1>2. Cardinality(Holding(n))' = Cardinality(Holding(n)) - 1
    BY HoldingLoses
  <1> QED BY <1>1, <1>2 DEF Counted, Flag

-----------------------------------------------------------------------------
(* Nodes one at a time *)

(* The counts are numbers before and after a step that sets one of them. *)
LEMMA RefsType ==
  ASSUME TypeOK, NEW n \in Nodes
  PROVE  freeListRefs \in [Nodes -> Nat] /\ freeListRefs[n] \in Nat /\ freeListRefs[n] + 1 \in Nat
  <1>1. freeListRefs \in [Nodes -> Nat]
    BY DEF TypeOK
  <1> QED BY <1>1

(* Setting a count keeps the counts natural numbers. *)
LEMMA RefsSet ==
  ASSUME freeListRefs \in [Nodes -> Nat], NEW n \in Nodes, NEW k \in Nat,
         freeListRefs' = [freeListRefs EXCEPT ![n] = k]
  PROVE  freeListRefs' \in [Nodes -> Nat]
  OBVIOUS

(* Marks of a node exclude each other, and a node in use has none. *)
LEMMA Marks ==
  ASSUME NEW n \in Nodes, Alone(n)
  PROVE  /\ ~(Marked(n) /\ Shared(n))
         /\ n \in out => ~Marked(n) /\ ~Shared(n)
         /\ \A t \in Threads : Early(t, n) => ~Offers(t, n) /\ ~Takes(t, n)
  BY DEF Alone, Marked, Shared, Waiting, Owns, Early, Offers, Takes, EarlyPc, OfferPc

(* The step changes nothing a node can tell. *)
SameParts(n) ==
  /\ \A t \in Threads : /\ Early(t, n)' <=> Early(t, n)
                        /\ Offers(t, n)' <=> Offers(t, n)
                        /\ Takes(t, n)' <=> Takes(t, n)
  /\ Listed(n)' <=> Listed(n)
  /\ n \in out' <=> n \in out

SameHolders(n) == \A t \in Threads : Holds(t, n)' <=> Holds(t, n)

(* A node stays in the one place it is in while no thread's part changes. *)
LEMMA MarksKept ==
  ASSUME NEW n \in Nodes, Alone(n), SameParts(n)
  PROVE  Alone(n)' /\ (Waiting(n)' <=> Waiting(n))
         /\ (Marked(n)' <=> Marked(n)) /\ (Shared(n)' <=> Shared(n))
  <1>1. \A t \in Threads : Owns(t, n)' <=> Owns(t, n)
    BY DEF SameParts, Owns
  <1> QED BY <1>1 DEF SameParts, Alone, Waiting, Marked, Shared

(* Such a node is as it was, and so is the rest when one node is. *)
LEMMA Untouched ==
  ASSUME NEW n \in Nodes, NodeOK(n), SameParts(n), SameHolders(n),
         freeListRefs'[n] = freeListRefs[n]
  PROVE  NodeOK(n)'
  <1>1. Alone(n)' /\ (Waiting(n)' <=> Waiting(n))
        /\ (Marked(n)' <=> Marked(n)) /\ (Shared(n)' <=> Shared(n))
    BY MarksKept DEF NodeOK
  <1>2. Held(n)'
    BY <1>1 DEF NodeOK, Held, SameParts, SameHolders
  <1>3. Cardinality(Holding(n))' = Cardinality(Holding(n))
    BY HoldingKept DEF SameHolders
  <1>4. Counted(n)'
    BY <1>1, <1>3 DEF NodeOK, Counted
  <1> QED BY <1>1, <1>2, <1>4 DEF NodeOK

-----------------------------------------------------------------------------
(* Steps that change no part and no count *)

(* The head is loaded. *)
LEMMA TryGetStep ==
  ASSUME IInv, NEW t \in Threads, TryGet(t)
  PROVE  IInv'
  <1>0. /\ pc[t] \in {"idle", "reload"}
        /\ \/ pc' = [pc EXCEPT ![t] = "idle"] /\ head' = [head EXCEPT ![t] = Null]
           \/ /\ freeListHead # Null
              /\ pc' = [pc EXCEPT ![t] = "load refs"] /\ head' = [head EXCEPT ![t] = freeListHead]
        /\ UNCHANGED <<freeListHead, freeListRefs, freeListNext, list, out,
                       refs, next, node, top, inGet>>
    BY DEF TryGet, Look, Goto, Set, shared
  <1>1. TypeOK'
    <2>1. CASE pc' = [pc EXCEPT ![t] = "idle"] /\ head' = [head EXCEPT ![t] = Null]
      BY <1>0, <2>1 DEF IInv, TypeOK, Labels
    <2>2. CASE /\ pc' = [pc EXCEPT ![t] = "load refs"]
               /\ head' = [head EXCEPT ![t] = freeListHead]
      BY <1>0, <2>2 DEF IInv, TypeOK, Labels
    <2> QED BY <1>0, <2>1, <2>2
  <1>2. LocalsOK'
    BY ZenonT(40), <1>0 DEF IInv, TypeOK, LocalsOK, EarlyPc, OfferPc, Flag
  <1>3. \A n \in Nodes : SameParts(n) /\ SameHolders(n)
    BY ZenonT(40), <1>0 DEF IInv, TypeOK, SameParts, SameHolders, Early, Offers, Takes, Holds, Listed, EarlyPc, OfferPc
  <1>4. NextOK'
    BY <1>0 DEF IInv, TypeOK, NextOK
  <1>5. Distinct' /\ Spelled'
    BY <1>0 DEF IInv, Distinct, Spelled
  <1>6. \A n \in Nodes : NodeOK(n)'
    BY <1>0, <1>3, Untouched DEF IInv
  <1> QED BY <1>1, <1>2, <1>4, <1>5, <1>6 DEF IInv

(* The count of the head is loaded, and not acted upon when it is zero. *)
LEMMA LoadRefsStep ==
  ASSUME IInv, NEW t \in Threads, LoadRefs(t)
  PROVE  IInv'
  <1>0. /\ pc[t] = "load refs"
        /\ \/ pc' = [pc EXCEPT ![t] = "reload"] /\ UNCHANGED refs
           \/ /\ freeListRefs[head[t]] % SHOULD_BE_ON_FREELIST # 0
              /\ pc' = [pc EXCEPT ![t] = "take ref"]
              /\ refs' = [refs EXCEPT ![t] = freeListRefs[head[t]]]
        /\ UNCHANGED <<freeListHead, freeListRefs, freeListNext, list, out,
                       head, next, node, top, inGet>>
    BY DEF LoadRefs, Goto, Set, shared
  <1>1. TypeOK'
    <2>1. freeListRefs[head[t]] \in Nat
      BY <1>0 DEF IInv, TypeOK, LocalsOK
    <2>2. refs' \in [Threads -> Nat]
      BY <1>0, <2>1 DEF IInv, TypeOK
    <2> QED BY <1>0, <2>2 DEF IInv, TypeOK, Labels
  <1>2. LocalsOK'
    BY <1>0 DEF IInv, TypeOK, LocalsOK, EarlyPc, OfferPc, Flag
  <1>3. \A n \in Nodes : SameParts(n) /\ SameHolders(n)
    BY ZenonT(40), <1>0 DEF IInv, TypeOK, SameParts, SameHolders, Early, Offers, Takes, Holds, Listed, EarlyPc, OfferPc
  <1>4. NextOK'
    BY <1>0 DEF IInv, TypeOK, NextOK
  <1>5. Distinct' /\ Spelled'
    BY <1>0 DEF IInv, Distinct, Spelled
  <1>6. \A n \in Nodes : NodeOK(n)'
    BY <1>0, <1>3, Untouched DEF IInv
  <1> QED BY <1>1, <1>2, <1>4, <1>5, <1>6 DEF IInv

(* A thread reads the next of a node it holds. *)
LEMMA ReadNextStep ==
  ASSUME IInv, NEW t \in Threads, ReadNext(t)
  PROVE  IInv'
  <1>0. /\ pc[t] = "read next" /\ pc' = [pc EXCEPT ![t] = "pop"]
        /\ next' = [next EXCEPT ![t] = freeListNext[head[t]]]
        /\ UNCHANGED <<freeListHead, freeListRefs, freeListNext, list, out,
                       head, refs, node, top, inGet>>
    BY DEF ReadNext, Goto, Set, shared
  <1>1. TypeOK'
    BY <1>0 DEF IInv, TypeOK, Labels, LocalsOK
  <1>2. LocalsOK'
    BY <1>0 DEF IInv, TypeOK, LocalsOK, EarlyPc, OfferPc, Flag
  <1>3. \A n \in Nodes : SameParts(n) /\ SameHolders(n)
    BY <1>0 DEF IInv, TypeOK, SameParts, SameHolders, Early, Offers, Takes, Holds, Listed, EarlyPc, OfferPc
  <1>4. NextOK'
    BY <1>0 DEF IInv, TypeOK, NextOK
  <1>5. Distinct' /\ Spelled'
    BY <1>0 DEF IInv, Distinct, Spelled
  <1>6. \A n \in Nodes : NodeOK(n)'
    BY <1>0, <1>3, Untouched DEF IInv
  <1> QED BY <1>1, <1>2, <1>4, <1>5, <1>6 DEF IInv

(* The head is loaded that the added node will point to. *)
LEMMA LoadHeadStep ==
  ASSUME IInv, NEW t \in Threads, LoadHead(t)
  PROVE  IInv'
  <1>0. /\ pc[t] = "load head" /\ pc' = [pc EXCEPT ![t] = "set next"]
        /\ top' = [top EXCEPT ![t] = freeListHead]
        /\ UNCHANGED <<freeListHead, freeListRefs, freeListNext, list, out,
                       head, refs, next, node, inGet>>
    BY DEF LoadHead, Goto, Set, shared
  <1>1. TypeOK'
    BY <1>0 DEF IInv, TypeOK, Labels, LocalsOK
  <1>2. LocalsOK'
    BY <1>0 DEF IInv, TypeOK, LocalsOK, EarlyPc, OfferPc, Flag
  <1>3. \A n \in Nodes : SameParts(n) /\ SameHolders(n)
    BY <1>0 DEF IInv, TypeOK, SameParts, SameHolders, Early, Offers, Takes, Holds, Listed, EarlyPc, OfferPc
  <1>4. NextOK'
    BY <1>0 DEF IInv, TypeOK, NextOK
  <1>5. Distinct' /\ Spelled'
    BY <1>0 DEF IInv, Distinct, Spelled
  <1>6. \A n \in Nodes : NodeOK(n)'
    BY <1>0, <1>3, Untouched DEF IInv
  <1> QED BY <1>1, <1>2, <1>4, <1>5, <1>6 DEF IInv

(* The next of a node that is added is written while nobody holds the node
   and the node is on no list, so no thread about to pop is misled.       *)
LEMMA SetNextStep ==
  ASSUME IInv, NEW t \in Threads, SetNext(t)
  PROVE  IInv'
  <1> SUFFICES ASSUME NEW n \in Nodes, node[t] = n PROVE IInv'
    BY DEF SetNext, IInv, LocalsOK, EarlyPc
  <1>0. /\ pc[t] = "set next" /\ pc' = [pc EXCEPT ![t] = "set refs"]
        /\ freeListNext' = [freeListNext EXCEPT ![n] = top[t]]
        /\ UNCHANGED <<freeListHead, freeListRefs, list, out, head, refs, next, node, top, inGet>>
    BY DEF SetNext, Goto, Set, locals
  <1>1. Alone(n) /\ Held(n) /\ Early(t, n)
    BY <1>0 DEF IInv, NodeOK, Early, EarlyPc
  <1>2. TypeOK'
    BY <1>0 DEF IInv, TypeOK, Labels
  <1>3. LocalsOK'
    BY <1>0 DEF IInv, TypeOK, LocalsOK, EarlyPc, OfferPc
  <1>4. \A m \in Nodes : SameParts(m) /\ SameHolders(m)
    BY <1>0 DEF IInv, TypeOK, SameParts, SameHolders, Early, Offers, Takes, Holds, Listed, EarlyPc, OfferPc
  <1>5. \A u \in Threads : pc[u] = "pop" => head[u] # n
    BY <1>1 DEF Held, Holds
  <1>6. \A u \in Threads \ {t} : pc[u] \in {"set refs", "push"} => node[u] # n
    BY <1>1 DEF Alone, Owns, Early, Offers, EarlyPc, OfferPc
  <1>7. NextOK'
    BY <1>0, <1>5, <1>6 DEF IInv, TypeOK, NextOK, LocalsOK, EarlyPc, OfferPc
  <1>8. \A i \in 1..Len(list) : freeListNext'[list[i]] = freeListNext[list[i]]
    <2> SUFFICES ASSUME NEW i \in 1..Len(list)
                 PROVE  freeListNext'[list[i]] = freeListNext[list[i]]
      OBVIOUS
    <2>1. list[i] \in Nodes
      BY DEF IInv, TypeOK
    <2>2. list[i] # n
      BY <1>1 DEF Alone, Owns, Listed
    <2> QED BY <1>0, <2>1, <2>2 DEF IInv, TypeOK
  <1>9. Distinct' /\ Spelled'
    BY <1>0, <1>8 DEF IInv, Distinct, Spelled
  <1>10. \A m \in Nodes : NodeOK(m)'
    BY <1>0, <1>4, Untouched DEF IInv
  <1> QED BY <1>2, <1>3, <1>7, <1>9, <1>10 DEF IInv

-----------------------------------------------------------------------------
(* Steps that change the count of a node *)

(* A reference is taken: the count seen was not zero, so the node is not
   about to be linked.                                                    *)
LEMMA TakeRefStep ==
  ASSUME IInv, NEW t \in Threads, TakeRef(t)
  PROVE  IInv'
  <1> SUFFICES ASSUME NEW n \in Nodes, head[t] = n PROVE IInv'
    BY DEF TakeRef, IInv, LocalsOK
  <1>0. /\ pc[t] = "take ref" /\ refs' = [refs EXCEPT ![t] = 0]
        /\ UNCHANGED <<freeListHead, freeListNext, list, out, head, next, node, top, inGet>>
    BY DEF TakeRef, Set
  <1>1. \A m \in Nodes : NodeOK(m)
    BY DEF IInv
  <1>2. CASE ~MayTakeRef(t)
    <2>0. pc' = [pc EXCEPT ![t] = "reload"] /\ UNCHANGED freeListRefs
      BY <1>2 DEF TakeRef, Goto, Set
    <2>1. TypeOK' /\ LocalsOK' /\ NextOK' /\ Distinct' /\ Spelled'
      BY <1>0, <2>0 DEF IInv, TypeOK, Labels, LocalsOK, EarlyPc, OfferPc, NextOK, Distinct, Spelled
    <2>2. \A m \in Nodes : SameParts(m) /\ SameHolders(m)
      BY <1>0, <2>0 DEF IInv, TypeOK, SameParts, SameHolders, Early, Offers, Takes, Holds, Listed, EarlyPc, OfferPc
    <2> QED BY <1>1, <2>0, <2>1, <2>2, Untouched DEF IInv
  <1>3. CASE MayTakeRef(t)
    <2>0. /\ pc' = [pc EXCEPT ![t] = "read next"]
          /\ freeListRefs' = [freeListRefs EXCEPT ![n] = @ + 1]
      BY <1>3 DEF TakeRef, Goto, Set
    <2>1. TypeOK'
      <3>1. freeListRefs' \in [Nodes -> Nat]
        <4>1. freeListRefs \in [Nodes -> Nat] /\ freeListRefs[n] + 1 \in Nat
          BY RefsType DEF IInv
        <4> QED BY <2>0, <4>1, RefsSet
      <3> QED BY <1>0, <2>0, <3>1 DEF IInv, TypeOK, Labels
    <2>2. LocalsOK' /\ NextOK' /\ Distinct' /\ Spelled'
      BY <1>0, <2>0 DEF IInv, TypeOK, LocalsOK, EarlyPc, OfferPc, NextOK, Distinct, Spelled
    <2>3. \A u \in Threads : ~Early(u, n)
      <3> SUFFICES ASSUME NEW u \in Threads, Early(u, n) PROVE FALSE
        OBVIOUS
      <3>1. Marked(n) /\ ~Shared(n) /\ Counted(n) /\ Held(n)
        BY <1>1, Marks DEF Marked, NodeOK
      <3>2. Cardinality(Holding(n)) = 0
        BY <3>1, HoldingIs DEF Held
      <3>3. freeListRefs[n] % Flag = 0
        BY <3>1, <3>2, FlagAlone DEF Counted
      <3> QED BY <1>0, <1>3, <3>3 DEF MayTakeRef, IInv, LocalsOK
    <2>4. ~Holds(t, n) /\ Holds(t, n)'
      BY <1>0, <2>0 DEF IInv, TypeOK, Holds
    <2>5. \A u \in Threads \ {t} : Holds(u, n)' <=> Holds(u, n)
      BY <1>0, <2>0 DEF IInv, TypeOK, Holds
    <2>6. \A m \in Nodes : SameParts(m)
      BY <1>0, <2>0 DEF IInv, TypeOK, SameParts, Early, Offers, Takes, Listed, EarlyPc, OfferPc
    <2>7. \A m \in Nodes \ {n} : SameHolders(m) /\ freeListRefs'[m] = freeListRefs[m]
      BY <1>0, <2>0 DEF IInv, TypeOK, SameHolders, Holds
    <2>8. Alone(n)' /\ (Waiting(n)' <=> Waiting(n))
          /\ (Marked(n)' <=> Marked(n)) /\ (Shared(n)' <=> Shared(n))
      BY <1>1, <2>6, MarksKept DEF NodeOK
    <2>9. Held(n)'
      BY <2>3, <2>4, <2>6 DEF Held, SameParts
    <2>10. freeListRefs'[n] = freeListRefs[n] + 1
      BY <2>0 DEF IInv, TypeOK
    <2>11. Counted(n)'
      BY <1>1, <2>4, <2>5, <2>8, <2>10, CountedGains DEF NodeOK
    <2>12. \A m \in Nodes : NodeOK(m)'
      BY <1>1, <2>6, <2>7, <2>8, <2>9, <2>11, Untouched DEF NodeOK
    <2> QED BY <2>1, <2>2, <2>12 DEF IInv
  <1> QED BY <1>2, <1>3

(* The head that a failed compare-and-swap left in the local is looked at. *)
LEMMA LookAgain ==
  ASSUME TypeOK, NEW t \in Threads, Look(t, head[t])
  PROVE  /\ pc' = [pc EXCEPT ![t] = IF head[t] = Null THEN "idle" ELSE "load refs"]
         /\ head' = head
  <1>1. head' = [head EXCEPT ![t] = head[t]]
    BY DEF Look, Set
  <1>2. head' = head
    BY <1>1 DEF TypeOK
  <1>3. CASE head[t] = Null
    BY <1>2, <1>3 DEF Look, Goto, Set
  <1>4. CASE head[t] # Null
    BY <1>2, <1>4 DEF Look, Goto, Set
  <1> QED BY <1>3, <1>4

(* The end of add_knowing_refcount_is_zero. *)
LEMMA AddedIs ==
  ASSUME TypeOK, NEW t \in Threads, Added(t)
  PROVE  /\ pc' = [pc EXCEPT ![t] = IF inGet[t] /\ head[t] # Null THEN "load refs" ELSE "idle"]
         /\ head' = head
         /\ node' = [node EXCEPT ![t] = Null] /\ top' = [top EXCEPT ![t] = Null]
         /\ inGet' = [inGet EXCEPT ![t] = FALSE]
  <1>1. CASE inGet[t]
    BY <1>1, LookAgain DEF Added, Set
  <1>2. CASE ~inGet[t]
    BY <1>2 DEF Added, Goto, Set
  <1> QED BY <1>1, <1>2

(* A thread that has added a node goes on with good locals. *)
LEMMA AddedLocals ==
  ASSUME TypeOK, LocalsOK, NextOK, NEW t \in Threads,
         pc' = [pc EXCEPT ![t] = IF inGet[t] /\ head[t] # Null THEN "load refs" ELSE "idle"],
         node' = [node EXCEPT ![t] = Null], top' = [top EXCEPT ![t] = Null],
         inGet' = [inGet EXCEPT ![t] = FALSE],
         freeListHead' \in Nodes \cup {Null}, freeListRefs' \in [Nodes -> Nat],
         list' \in Seq(Nodes),
         UNCHANGED <<freeListNext, out, head, refs, next>>
  PROVE  TypeOK' /\ LocalsOK' /\ NextOK'
  <1>1. pc'[t] \in {"idle", "load refs"} /\ pc' \in [Threads -> Labels]
        /\ \A u \in Threads \ {t} : pc'[u] = pc[u]
    BY DEF TypeOK, Labels
  <1>2. TypeOK'
    BY <1>1 DEF TypeOK
  <1>3. pc'[t] = "load refs" => head[t] \in Nodes
    BY DEF TypeOK
  <1> QED BY ZenonT(40), <1>1, <1>2, <1>3 DEF TypeOK, LocalsOK, EarlyPc, OfferPc, NextOK

(* Who drops the last reference of a flagged node sees it from the count
   alone: nobody else holds the node or has a part in it.                 *)
LEMMA PutBackWhen ==
  ASSUME NEW n \in Nodes, NodeOK(n), NEW t \in Threads, Holds(t, n)
  PROVE  MustPutBack(n) <=> Waiting(n) /\ Cardinality(Holding(n)) = 1
  <1>1. /\ Flag \in Nat /\ Cardinality(Holding(n)) \in 1..(Flag - 2)
    BY HoldingIs
  <1>2. ~(Marked(n) /\ Shared(n)) /\ (Marked(n) <=> Waiting(n))
    BY Marks DEF NodeOK, Held, Marked
  <1> QED BY <1>1, <1>2 DEF MustPutBack, NodeOK, Counted, Flag

(* Dropping a reference, and with the last one taking over the node. *)
LEMMA DropRefStep ==
  ASSUME IInv, NEW t \in Threads, DropRef(t)
  PROVE  IInv'
  <1> SUFFICES ASSUME NEW n \in Nodes, node[t] = n PROVE IInv'
    BY DEF DropRef, IInv, LocalsOK
  <1>0. /\ pc[t] = "drop ref" /\ freeListRefs' = [freeListRefs EXCEPT ![n] = @ - 1]
        /\ UNCHANGED <<freeListHead, freeListNext, list, out, refs, next, top>>
    BY DEF DropRef
  <1>1. \A m \in Nodes : NodeOK(m)
    BY DEF IInv
  <1>2. Holds(t, n) /\ ~Owns(t, n)
    BY <1>0 DEF Holds, Owns, Early, Offers, Takes, EarlyPc, OfferPc
  <1>3. freeListRefs' \in [Nodes -> Nat] /\ freeListRefs'[n] = freeListRefs[n] - 1
        /\ \A m \in Nodes \ {n} : freeListRefs'[m] = freeListRefs[m]
    <2>1. Flag \in Nat /\ Cardinality(Holding(n)) \in Nat \ {0}
      BY <1>2, HoldingIs
    <2>2. freeListRefs \in [Nodes -> Nat] /\ freeListRefs[n] \in Nat
      BY RefsType DEF IInv
    <2>3. freeListRefs[n] - 1 \in Nat
      BY <1>1, <2>1, <2>2 DEF NodeOK, Counted
    <2> QED BY <1>0, <2>2, <2>3, RefsSet
  <1>4. CASE MustPutBack(n)
    <2>0. /\ inGet' = [inGet EXCEPT ![t] = TRUE]
          /\ pc' = [pc EXCEPT ![t] = "load head"]
          /\ UNCHANGED <<head, node>>
      BY <1>4 DEF DropRef, Goto, Set
    <2>1. TypeOK' /\ LocalsOK' /\ NextOK' /\ Distinct' /\ Spelled'
      <3>1. TypeOK'
        BY <1>0, <1>3, <2>0 DEF IInv, TypeOK, Labels
      <3>2. LocalsOK' /\ NextOK' /\ Distinct' /\ Spelled'
        BY <1>0, <2>0 DEF IInv, TypeOK, LocalsOK, EarlyPc, OfferPc, NextOK, Distinct, Spelled
      <3> QED BY <3>1, <3>2
    <2>2. Waiting(n) /\ Cardinality(Holding(n)) = 1
      BY <1>1, <1>2, <1>4, PutBackWhen
    <2>3. \A m \in Nodes \ {n} : SameParts(m) /\ SameHolders(m)
      BY <1>0, <2>0 DEF IInv, TypeOK, SameParts, SameHolders, Early, Offers, Takes, Holds, Listed, EarlyPc, OfferPc
    <2>4. \A u \in Threads \ {t} : /\ Early(u, n)' <=> Early(u, n)
                                   /\ Offers(u, n)' <=> Offers(u, n)
                                   /\ Takes(u, n)' <=> Takes(u, n)
                                   /\ Holds(u, n)' <=> Holds(u, n)
      BY <1>0, <2>0 DEF IInv, TypeOK, Early, Offers, Takes, Holds
    <2>5. Early(t, n)' /\ ~Offers(t, n)' /\ ~Takes(t, n)' /\ ~Holds(t, n)'
      BY <1>0, <2>0 DEF IInv, TypeOK, Early, Offers, Takes, Holds, EarlyPc, OfferPc
    <2>6. n \notin out' /\ ~Listed(n)' /\ ~Listed(n)
      BY <1>0, <2>2 DEF Waiting, Listed
    <2>7. Alone(n)'
      BY <2>2, <2>4, <2>5, <2>6 DEF Waiting, Alone, Owns
    <2>8. \A u \in Threads : ~Holds(u, n)'
      BY <1>2, <2>2, <2>4, <2>5, HoldingOne
    <2>9. Held(n)'
      BY <2>5, <2>8 DEF Held, Waiting, Owns
    <2>10. Counted(n)'
      <3>1. Marked(n) /\ Marked(n)' /\ ~Shared(n) /\ ~Shared(n)'
        BY <2>2, <2>4, <2>5, <2>6 DEF Marked, Shared, Waiting, Owns
      <3> QED BY <1>1, <1>2, <1>3, <2>4, <2>5, <3>1, CountedLoses DEF NodeOK
    <2>11. \A m \in Nodes : NodeOK(m)'
      BY <1>1, <1>3, <2>3, <2>7, <2>9, <2>10, Untouched DEF NodeOK
    <2> QED BY <2>1, <2>11 DEF IInv
  <1>5. CASE ~MustPutBack(n)
    <2>0. /\ pc' = [pc EXCEPT ![t] = IF head[t] = Null THEN "idle" ELSE "load refs"]
          /\ head' = head
          /\ node' = [node EXCEPT ![t] = Null] /\ UNCHANGED inGet
      BY <1>5, LookAgain DEF DropRef, Set, IInv
    <2>1. TypeOK' /\ LocalsOK' /\ NextOK' /\ Distinct' /\ Spelled'
      <3>1. pc'[t] \in {"idle", "load refs"} /\ pc' \in [Threads -> Labels]
            /\ \A u \in Threads \ {t} : pc'[u] = pc[u]
        BY <2>0 DEF IInv, TypeOK, Labels
      <3>2. TypeOK'
        BY <1>0, <1>3, <2>0, <3>1 DEF IInv, TypeOK
      <3>3. pc'[t] = "load refs" => head[t] \in Nodes
        BY <1>0, <2>0 DEF IInv, TypeOK
      <3>4. LocalsOK' /\ NextOK' /\ Distinct' /\ Spelled'
        BY ZenonT(40), <1>0, <2>0, <3>1, <3>3 DEF IInv, TypeOK, LocalsOK, EarlyPc, OfferPc, NextOK, Distinct, Spelled
      <3> QED BY <3>2, <3>4
    <2>2. \A m \in Nodes : SameParts(m)
      BY <1>0, <2>0 DEF IInv, TypeOK, SameParts, Early, Offers, Takes, Listed, EarlyPc, OfferPc
    <2>3. \A m \in Nodes \ {n} : SameHolders(m)
      BY <1>0, <2>0 DEF IInv, TypeOK, SameHolders, Holds
    <2>4. ~Holds(t, n)' /\ \A u \in Threads \ {t} : Holds(u, n)' <=> Holds(u, n)
      BY <1>0, <2>0 DEF IInv, TypeOK, Holds
    <2>5. Alone(n)' /\ (Waiting(n)' <=> Waiting(n))
          /\ (Marked(n)' <=> Marked(n)) /\ (Shared(n)' <=> Shared(n))
      BY <1>1, <2>2, MarksKept DEF NodeOK
    <2>6. Waiting(n) => \E u \in Threads \ {t} : Holds(u, n)
      BY <1>1, <1>2, <1>5, PutBackWhen, HoldingAlone
    <2>7. Held(n)'
      BY <1>1, <2>2, <2>4, <2>5, <2>6 DEF NodeOK, Held, SameParts
    <2>8. Counted(n)'
      BY <1>1, <1>2, <1>3, <2>4, <2>5, CountedLoses DEF NodeOK
    <2>9. \A m \in Nodes : NodeOK(m)'
      BY <1>1, <1>3, <2>2, <2>3, <2>5, <2>7, <2>8, Untouched DEF NodeOK
    <2> QED BY <2>1, <2>9 DEF IInv
  <1> QED BY <1>4, <1>5

(* The node popped is given up with both references, and is in use. *)
LEMMA TakenStep ==
  ASSUME IInv, NEW t \in Threads, Taken(t)
  PROVE  IInv'
  <1> SUFFICES ASSUME NEW n \in Nodes, head[t] = n PROVE IInv'
    BY DEF Taken, IInv, LocalsOK
  <1>0. /\ pc[t] = "taken" /\ pc' = [pc EXCEPT ![t] = "idle"]
        /\ freeListRefs' = [freeListRefs EXCEPT ![n] = @ - 2]
        /\ out' = out \cup {n} /\ head' = [head EXCEPT ![t] = Null]
        /\ UNCHANGED <<freeListHead, freeListNext, list, refs, next, node, top, inGet>>
    BY DEF Taken, Goto, Set, RefsOfTaken
  <1>1. \A m \in Nodes : NodeOK(m)
    BY DEF IInv
  <1>2. Holds(t, n) /\ Takes(t, n) /\ ~Early(t, n) /\ ~Offers(t, n)
    BY <1>0 DEF Holds, Takes, Early, Offers, EarlyPc, OfferPc
  <1>3. Shared(n) /\ ~Marked(n) /\ ~Listed(n) /\ \A u \in Threads \ {t} : ~Owns(u, n)
    BY <1>1, <1>2, Marks DEF NodeOK, Alone, Shared, Owns
  <1>4. freeListRefs' \in [Nodes -> Nat] /\ freeListRefs'[n] = Cardinality(Holding(n)) - 1
        /\ \A m \in Nodes \ {n} : freeListRefs'[m] = freeListRefs[m]
    <2>1. Cardinality(Holding(n)) \in Nat \ {0}
      BY <1>2, HoldingIs
    <2>2. freeListRefs \in [Nodes -> Nat] /\ freeListRefs[n] \in Nat
      BY RefsType DEF IInv
    <2>3. freeListRefs[n] - 2 = Cardinality(Holding(n)) - 1 /\ freeListRefs[n] - 2 \in Nat
      BY <1>1, <1>3, <2>1, <2>2 DEF NodeOK, Counted
    <2> QED BY <1>0, <2>2, <2>3, RefsSet
  <1>5. TypeOK' /\ LocalsOK' /\ NextOK' /\ Distinct' /\ Spelled'
    <2>1. TypeOK'
      BY <1>0, <1>4 DEF IInv, TypeOK, Labels
    <2>2. LocalsOK' /\ NextOK' /\ Distinct' /\ Spelled'
      BY <1>0 DEF IInv, TypeOK, LocalsOK, EarlyPc, OfferPc, NextOK, Distinct, Spelled
    <2> QED BY <2>1, <2>2
  <1>6. \A m \in Nodes \ {n} : SameParts(m) /\ SameHolders(m)
    BY <1>0 DEF IInv, TypeOK, SameParts, SameHolders, Early, Offers, Takes, Holds, Listed, EarlyPc, OfferPc
  <1>7. \A u \in Threads \ {t} : /\ Early(u, n)' <=> Early(u, n)
                                 /\ Offers(u, n)' <=> Offers(u, n)
                                 /\ Takes(u, n)' <=> Takes(u, n)
                                 /\ Holds(u, n)' <=> Holds(u, n)
    BY <1>0 DEF IInv, TypeOK, Early, Offers, Takes, Holds
  <1>8. ~Early(t, n)' /\ ~Offers(t, n)' /\ ~Takes(t, n)' /\ ~Holds(t, n)'
    BY <1>0 DEF IInv, TypeOK, Early, Offers, Takes, Holds, EarlyPc, OfferPc
  <1>9. n \in out' /\ ~Listed(n)'
    BY <1>0, <1>3 DEF Listed
  <1>10. \A u \in Threads : ~Owns(u, n)'
    BY <1>3, <1>7, <1>8 DEF Owns
  <1>11. Alone(n)' /\ Held(n)' /\ ~Marked(n)' /\ ~Shared(n)'
    BY <1>9, <1>10 DEF Alone, Held, Marked, Shared, Waiting, Owns
  <1>12. Cardinality(Holding(n))' = Cardinality(Holding(n)) - 1
    BY <1>2, <1>7, <1>8, HoldingLoses
  <1>13. Counted(n)'
    <2>1. Cardinality(Holding(n)) \in Nat
      BY HoldingIs
    <2> QED BY <1>4, <1>11, <1>12, <2>1 DEF Counted
  <1>14. \A m \in Nodes : NodeOK(m)'
    BY <1>0, <1>1, <1>4, <1>6, <1>11, <1>13, Untouched DEF NodeOK
  <1> QED BY <1>5, <1>14 DEF IInv

(* A node in use is given back: nobody has a part in it, and its count is
   that of the threads that still hold it.                                *)
AddOf(t, n) ==
  /\ n \in out /\ pc[t] = "idle"
  /\ out' = out \ {n}
  /\ freeListRefs' = [freeListRefs EXCEPT ![n] = @ + SHOULD_BE_ON_FREELIST]
  /\ IF freeListRefs[n] = 0
     THEN node' = [node EXCEPT ![t] = n] /\ pc' = [pc EXCEPT ![t] = "load head"]
     ELSE UNCHANGED <<node, pc>>
  /\ UNCHANGED <<freeListHead, freeListNext, list, head, refs, next, top, inGet>>

(* add: the node is marked, and put in the list unless it is referred to. *)
LEMMA AddStep ==
  ASSUME IInv, NEW t \in Threads, Add(t)
  PROVE  IInv'
  <1> SUFFICES ASSUME NEW n \in Nodes, AddOf(t, n) PROVE IInv'
    BY DEF Add, AddOf, Goto, Set, IInv, TypeOK
  <1>0. /\ n \in out /\ pc[t] = "idle" /\ out' = out \ {n}
        /\ UNCHANGED <<freeListHead, freeListNext, list, head, refs, next, top, inGet>>
    BY DEF AddOf
  <1>1. \A m \in Nodes : NodeOK(m)
    BY DEF IInv
  <1>2. ~Marked(n) /\ ~Shared(n) /\ ~Listed(n) /\ \A u \in Threads : ~Owns(u, n)
    BY <1>0, <1>1, Marks DEF NodeOK, Alone
  <1>3. ~Holds(t, n) /\ Flag \in Nat /\ Cardinality(Holding(n)) \in Nat
    BY <1>0, HoldingIs DEF Holds
  <1>4. freeListRefs[n] = Cardinality(Holding(n))
    BY <1>1, <1>2, <1>3 DEF NodeOK, Counted
  <1>5. freeListRefs' \in [Nodes -> Nat] /\ freeListRefs'[n] = Cardinality(Holding(n)) + Flag
        /\ \A m \in Nodes \ {n} : freeListRefs'[m] = freeListRefs[m]
    <2>1. freeListRefs \in [Nodes -> Nat]
      BY RefsType DEF IInv
    <2>2. freeListRefs[n] + SHOULD_BE_ON_FREELIST \in Nat
      BY <1>3, <1>4 DEF Flag
    <2> QED BY <1>4, <2>1, <2>2, RefsSet DEF AddOf, Flag
  <1>6. n \notin out' /\ ~Listed(n)' /\ Distinct' /\ Spelled'
        /\ \A m \in Nodes \ {n} : (m \in out' <=> m \in out) /\ (Listed(m)' <=> Listed(m))
    BY <1>0, <1>2 DEF Listed, IInv, Distinct, Spelled
  <1>7. CASE freeListRefs[n] = 0
    <2>0. node' = [node EXCEPT ![t] = n] /\ pc' = [pc EXCEPT ![t] = "load head"]
      BY <1>7 DEF AddOf
    <2>1. TypeOK'
      BY <1>0, <1>5, <2>0 DEF IInv, TypeOK, Labels
    <2>2. LocalsOK' /\ NextOK'
      BY <1>0, <2>0 DEF IInv, TypeOK, LocalsOK, EarlyPc, OfferPc, NextOK
    <2>3. \A m \in Nodes \ {n}, u \in Threads :
            /\ Early(u, m)' <=> Early(u, m)
            /\ Offers(u, m)' <=> Offers(u, m)
            /\ Takes(u, m)' <=> Takes(u, m)
            /\ Holds(u, m)' <=> Holds(u, m)
      BY <1>0, <2>0 DEF IInv, TypeOK, Early, Offers, Takes, Holds, EarlyPc, OfferPc
    <2>4. \A u \in Threads \ {t} : /\ Early(u, n)' <=> Early(u, n)
                                   /\ Offers(u, n)' <=> Offers(u, n)
                                   /\ Takes(u, n)' <=> Takes(u, n)
                                   /\ Holds(u, n)' <=> Holds(u, n)
      BY <1>0, <2>0 DEF IInv, TypeOK, Early, Offers, Takes, Holds
    <2>5. Early(t, n)' /\ ~Offers(t, n)' /\ ~Takes(t, n)' /\ ~Holds(t, n)'
      BY <1>0, <2>0 DEF IInv, TypeOK, Early, Offers, Takes, Holds, EarlyPc, OfferPc
    <2>6. \A u \in Threads : ~Holds(u, n)' /\ (Holds(u, n)' <=> Holds(u, n))
      BY <1>3, <1>4, <1>7, <2>4, <2>5, HoldingIs
    <2>7. Alone(n)' /\ Held(n)' /\ Marked(n)' /\ ~Shared(n)'
      BY <1>2, <1>6, <2>4, <2>5, <2>6 DEF Alone, Held, Marked, Shared, Waiting, Owns
    <2>8. Cardinality(Holding(n))' = Cardinality(Holding(n))
      BY <2>6, HoldingKept
    <2>9. Counted(n)'
      BY <1>3, <1>5, <2>7, <2>8 DEF Counted, Flag
    <2>10. \A m \in Nodes : NodeOK(m)'
      BY <1>1, <1>5, <1>6, <2>3, <2>7, <2>9, Untouched DEF NodeOK, SameParts, SameHolders
    <2> QED BY <1>6, <2>1, <2>2, <2>10 DEF IInv
  <1>8. CASE freeListRefs[n] # 0
    <2>0. UNCHANGED <<node, pc>>
      BY <1>8 DEF AddOf
    <2>1. TypeOK' /\ LocalsOK' /\ NextOK'
      BY <1>0, <1>5, <2>0 DEF IInv, TypeOK, LocalsOK, NextOK
    <2>2. \A m \in Nodes, u \in Threads :
            /\ Early(u, m)' <=> Early(u, m)
            /\ Offers(u, m)' <=> Offers(u, m)
            /\ Takes(u, m)' <=> Takes(u, m)
            /\ Holds(u, m)' <=> Holds(u, m)
      BY <1>0, <2>0 DEF Early, Offers, Takes, Holds
    <2>3. \E u \in Threads : Holds(u, n)
      BY <1>4, <1>8, HoldingIs
    <2>4. \A u \in Threads : ~Owns(u, n)'
      BY <1>2, <2>2 DEF Owns
    <2>5. Alone(n)' /\ Held(n)' /\ Marked(n)' /\ ~Shared(n)'
      BY <1>6, <2>2, <2>3, <2>4 DEF Alone, Held, Marked, Shared, Waiting, Owns
    <2>6. Cardinality(Holding(n))' = Cardinality(Holding(n))
      BY <2>2, HoldingKept
    <2>7. Counted(n)'
      BY <1>3, <1>5, <2>5, <2>6 DEF Counted, Flag
    <2>8. \A m \in Nodes : NodeOK(m)'
      BY <1>1, <1>5, <1>6, <2>2, <2>5, <2>7, Untouched DEF NodeOK, SameParts, SameHolders
    <2> QED BY <1>6, <2>1, <2>8 DEF IInv
  <1> QED BY <1>7, <1>8

(* The count of a node about to be offered is set to the list's reference. *)
LEMMA SetRefsStep ==
  ASSUME IInv, NEW t \in Threads, SetRefs(t)
  PROVE  IInv'
  <1> SUFFICES ASSUME NEW n \in Nodes, node[t] = n PROVE IInv'
    BY DEF SetRefs, IInv, LocalsOK, EarlyPc
  <1>0. /\ pc[t] = "set refs" /\ pc' = [pc EXCEPT ![t] = "push"]
        /\ freeListRefs' = [freeListRefs EXCEPT ![n] = 1]
        /\ UNCHANGED <<freeListHead, freeListNext, list, out, head, refs, next, node, top, inGet>>
    BY DEF SetRefs, Goto, Set, locals
  <1>1. \A m \in Nodes : NodeOK(m)
    BY DEF IInv
  <1>2. Early(t, n) /\ ~Listed(n) /\ n \notin out
        /\ (\A u \in Threads \ {t} : ~Owns(u, n)) /\ \A u \in Threads : ~Holds(u, n)
    BY <1>0, <1>1 DEF NodeOK, Alone, Held, Owns, Early, EarlyPc
  <1>3. freeListRefs' \in [Nodes -> Nat] /\ freeListRefs'[n] = 1
        /\ \A m \in Nodes \ {n} : freeListRefs'[m] = freeListRefs[m]
    BY <1>0 DEF IInv, TypeOK
  <1>4. TypeOK' /\ LocalsOK' /\ NextOK' /\ Distinct' /\ Spelled'
    <2>1. TypeOK'
      BY <1>0, <1>3 DEF IInv, TypeOK, Labels
    <2>2. LocalsOK' /\ NextOK' /\ Distinct' /\ Spelled'
      BY <1>0 DEF IInv, TypeOK, LocalsOK, EarlyPc, OfferPc, NextOK, Distinct, Spelled
    <2> QED BY <2>1, <2>2
  <1>5. \A m \in Nodes \ {n} : SameParts(m) /\ SameHolders(m)
    BY <1>0 DEF IInv, TypeOK, SameParts, SameHolders, Early, Offers, Takes, Holds, Listed, EarlyPc, OfferPc
  <1>6. \A u \in Threads : Holds(u, n)' <=> Holds(u, n)
    BY <1>0 DEF IInv, TypeOK, Holds
  <1>7. \A u \in Threads \ {t} : Owns(u, n)' <=> Owns(u, n)
    BY <1>0 DEF IInv, TypeOK, Owns, Early, Offers, Takes
  <1>8. ~Early(t, n)' /\ Offers(t, n)' /\ ~Takes(t, n)'
    BY <1>0 DEF IInv, TypeOK, Early, Offers, Takes, EarlyPc, OfferPc
  <1>9. n \notin out' /\ ~Listed(n)'
    BY <1>0, <1>2 DEF Listed
  <1>10. Alone(n)' /\ Held(n)' /\ ~Marked(n)' /\ Shared(n)'
    BY <1>2, <1>6, <1>7, <1>8, <1>9 DEF Alone, Held, Marked, Shared, Waiting, Owns
  <1>11. Cardinality(Holding(n))' = 0
    <2>1. Cardinality(Holding(n)) = 0
      BY <1>2, HoldingIs
    <2> QED BY <1>6, <2>1, HoldingKept
  <1>12. Counted(n)'
    BY <1>3, <1>10, <1>11 DEF Counted
  <1>13. \A m \in Nodes : NodeOK(m)'
    BY <1>1, <1>3, <1>5, <1>10, <1>12, Untouched DEF NodeOK
  <1> QED BY <1>4, <1>13 DEF IInv

(* An offer that another thread made impossible is withdrawn: the node waits
   for its holders, or is offered again when it has none.                  *)
LEMMA UnrefStep ==
  ASSUME IInv, NEW t \in Threads, Unref(t)
  PROVE  IInv'
  <1> SUFFICES ASSUME NEW n \in Nodes, node[t] = n PROVE IInv'
    BY DEF Unref, IInv, LocalsOK, OfferPc
  <1>0. /\ pc[t] = "unref" /\ freeListRefs' = [freeListRefs EXCEPT ![n] = @ + SHOULD_BE_ON_FREELIST - 1]
        /\ UNCHANGED <<freeListHead, freeListNext, list, out, refs, next>>
    BY DEF Unref
  <1>1. \A m \in Nodes : NodeOK(m)
    BY DEF IInv
  <1>2. /\ Offers(t, n) /\ ~Listed(n) /\ n \notin out
        /\ ~Marked(n) /\ Shared(n) /\ ~Holds(t, n)
        /\ \A u \in Threads \ {t} : ~Owns(u, n)
    BY <1>0, <1>1, Marks DEF NodeOK, Alone, Owns, Offers, Shared, OfferPc, Holds
  <1>3. Flag \in Nat /\ Cardinality(Holding(n)) \in Nat /\ freeListRefs[n] = Cardinality(Holding(n)) + 1
    BY <1>1, <1>2, HoldingIs DEF NodeOK, Counted
  <1>4. freeListRefs' \in [Nodes -> Nat] /\ freeListRefs'[n] = Cardinality(Holding(n)) + Flag
        /\ \A m \in Nodes \ {n} : freeListRefs'[m] = freeListRefs[m]
    <2>1. freeListRefs \in [Nodes -> Nat]
      BY RefsType DEF IInv
    <2>2. freeListRefs[n] + SHOULD_BE_ON_FREELIST - 1 = Cardinality(Holding(n)) + Flag
          /\ Cardinality(Holding(n)) + Flag \in Nat
      BY <1>3 DEF Flag
    <2> QED BY <1>0, <2>1, <2>2, RefsSet
  <1>5. n \notin out' /\ ~Listed(n)' /\ Distinct' /\ Spelled'
    BY <1>0, <1>2 DEF Listed, IInv, Distinct, Spelled
  <1>6. CASE MayRetry(n)
    <2>0. pc' = [pc EXCEPT ![t] = "set next"] /\ UNCHANGED <<head, node, top, inGet>>
      BY <1>6 DEF Unref, Goto, Set
    <2>1. TypeOK'
      BY <1>0, <1>4, <2>0 DEF IInv, TypeOK, Labels
    <2>2. LocalsOK' /\ NextOK'
      BY <1>0, <2>0 DEF IInv, TypeOK, LocalsOK, EarlyPc, OfferPc, NextOK
    <2>3. \A m \in Nodes \ {n} : SameParts(m) /\ SameHolders(m)
      BY <1>0, <2>0 DEF IInv, TypeOK, SameParts, SameHolders, Early, Offers, Takes, Holds, Listed, EarlyPc, OfferPc
    <2>4. \A u \in Threads : Holds(u, n)' <=> Holds(u, n)
      BY <1>0, <2>0 DEF IInv, TypeOK, Holds
    <2>5. \A u \in Threads \ {t} : Owns(u, n)' <=> Owns(u, n)
      BY <1>0, <2>0 DEF IInv, TypeOK, Owns, Early, Offers, Takes
    <2>6. Early(t, n)' /\ ~Offers(t, n)' /\ ~Takes(t, n)'
      BY <1>0, <2>0 DEF IInv, TypeOK, Early, Offers, Takes, EarlyPc, OfferPc
    <2>7. \A u \in Threads : ~Holds(u, n)
      <3>1. Cardinality(Holding(n)) = 0
        BY <1>3, <1>6 DEF MayRetry
      <3> QED BY <3>1, HoldingIs
    <2>8. Alone(n)' /\ Held(n)' /\ Marked(n)' /\ ~Shared(n)'
      BY <1>2, <1>5, <2>4, <2>5, <2>6, <2>7 DEF Alone, Held, Marked, Shared, Waiting, Owns
    <2>9. Cardinality(Holding(n))' = Cardinality(Holding(n))
      BY <2>4, HoldingKept
    <2>10. Counted(n)'
      BY <1>3, <1>4, <2>8, <2>9 DEF Counted, Flag
    <2>11. \A m \in Nodes : NodeOK(m)'
      BY <1>1, <1>4, <2>3, <2>8, <2>10, Untouched DEF NodeOK
    <2> QED BY <1>5, <2>1, <2>2, <2>11 DEF IInv
  <1>7. CASE ~MayRetry(n)
    <2>0. /\ pc' = [pc EXCEPT ![t] = IF inGet[t] /\ head[t] # Null THEN "load refs" ELSE "idle"]
          /\ head' = head
          /\ node' = [node EXCEPT ![t] = Null] /\ top' = [top EXCEPT ![t] = Null]
          /\ inGet' = [inGet EXCEPT ![t] = FALSE]
      BY <1>7, AddedIs DEF Unref, IInv
    <2>1. TypeOK' /\ LocalsOK' /\ NextOK'
      <3>1. freeListHead' \in Nodes \cup {Null} /\ list' \in Seq(Nodes)
        BY <1>0 DEF IInv, TypeOK
      <3> QED BY <1>0, <1>4, <2>0, <3>1, AddedLocals DEF IInv
    <2>2. \A m \in Nodes \ {n} : SameParts(m) /\ SameHolders(m)
      BY <1>0, <2>0 DEF IInv, TypeOK, SameParts, SameHolders, Early, Offers, Takes, Holds, Listed, EarlyPc, OfferPc
    <2>3. \A u \in Threads : Holds(u, n)' <=> Holds(u, n)
      BY <1>0, <2>0 DEF IInv, TypeOK, Holds
    <2>4. \A u \in Threads \ {t} : Owns(u, n)' <=> Owns(u, n)
      BY <1>0, <2>0 DEF IInv, TypeOK, Owns, Early, Offers, Takes
    <2>5. ~Owns(t, n)'
      BY <1>0, <2>0 DEF IInv, TypeOK, Owns, Early, Offers, Takes, EarlyPc, OfferPc
    <2>6. \E u \in Threads : Holds(u, n)
      <3>1. Cardinality(Holding(n)) # 0
        BY <1>3, <1>7 DEF MayRetry
      <3> QED BY <3>1, HoldingIs
    <2>7. \A u \in Threads : ~Owns(u, n)'
      BY <1>2, <2>4, <2>5
    <2>8. Alone(n)' /\ Held(n)' /\ Marked(n)' /\ ~Shared(n)'
      BY <1>5, <2>3, <2>6, <2>7 DEF Alone, Held, Marked, Shared, Waiting, Owns
    <2>9. Cardinality(Holding(n))' = Cardinality(Holding(n))
      BY <2>3, HoldingKept
    <2>10. Counted(n)'
      BY <1>3, <1>4, <2>8, <2>9 DEF Counted, Flag
    <2>11. \A m \in Nodes : NodeOK(m)'
      BY <1>1, <1>4, <2>2, <2>8, <2>10, Untouched DEF NodeOK
    <2> QED BY <1>5, <2>1, <2>11 DEF IInv
  <1> QED BY <1>6, <1>7

-----------------------------------------------------------------------------
(* The compare-and-swaps of the head *)

(* A node is popped by a thread that holds it, whose next is the one the node
   still has: what it writes to the head is what the list goes on with.     *)
LEMMA PopStep ==
  ASSUME IInv, NEW t \in Threads, Pop(t)
  PROVE  IInv'
  <1> SUFFICES ASSUME NEW n \in Nodes, head[t] = n PROVE IInv'
    BY DEF Pop, IInv, LocalsOK
  <1>0. /\ pc[t] = "pop" /\ next' = [next EXCEPT ![t] = Null]
        /\ UNCHANGED <<freeListRefs, freeListNext, out, refs, top, inGet>>
    BY DEF Pop, Set
  <1>1. \A m \in Nodes : NodeOK(m)
    BY DEF IInv
  <1>2. CASE freeListHead = n
    <2>0. /\ freeListHead' = next[t] /\ list' = Tail(list)
          /\ pc' = [pc EXCEPT ![t] = "taken"] /\ UNCHANGED <<head, node>>
      BY <1>2 DEF Pop, Goto, Set
    <2>1. list \in Seq(Nodes) /\ list # <<>> /\ list[1] = n
      BY <1>2, FreeListAssumption DEF IInv, TypeOK, Spelled
    <2>2. /\ Len(list) \in Nat \ {0} /\ list' \in Seq(Nodes)
          /\ Len(list') = Len(list) - 1
          /\ \A i \in 1..(Len(list) - 1) : list'[i] = list[i + 1]
      BY <2>0, <2>1
    <2>3. TypeOK'
      BY <1>0, <2>0, <2>2 DEF IInv, TypeOK, Labels
    <2>4. LocalsOK' /\ NextOK'
      BY <1>0, <2>0 DEF IInv, TypeOK, LocalsOK, EarlyPc, OfferPc, NextOK
    <2>5. Distinct'
      BY <2>2 DEF IInv, Distinct
    <2>6. Spelled'
      <3>1. next[t] = freeListNext[n]
        BY <1>0 DEF IInv, NextOK
      <3>2. freeListNext[n] = IF 1 = Len(list) THEN Null ELSE list[2]
        BY <2>1, <2>2 DEF IInv, Spelled
      <3>3. (list' = <<>>) <=> 1 = Len(list)
        BY <2>2
      <3>4. Len(list) # 1 => list'[1] = list[2]
        BY <2>2
      <3>5. freeListHead' = IF list' = <<>> THEN Null ELSE list'[1]
        BY <2>0, <3>1, <3>2, <3>3, <3>4
      <3>6. ASSUME NEW i \in 1..Len(list')
            PROVE  freeListNext'[list'[i]] = IF i = Len(list') THEN Null ELSE list'[i + 1]
        <4>1. i + 1 \in 1..Len(list) /\ list'[i] = list[i + 1]
              /\ (i + 1 = Len(list) <=> i = Len(list'))
          BY <2>2
        <4>2. i # Len(list') => list'[i + 1] = list[(i + 1) + 1]
          BY <2>2
        <4>3. freeListNext[list[i + 1]] = IF i + 1 = Len(list) THEN Null ELSE list[(i + 1) + 1]
          BY <4>1 DEF IInv, Spelled
        <4> QED BY <1>0, <4>1, <4>2, <4>3
      <3> QED BY <3>5, <3>6 DEF Spelled
    <2>7. Listed(n) /\ ~Listed(n)' /\ \A m \in Nodes \ {n} : Listed(m)' <=> Listed(m)
      <3>1. Listed(n)
        BY <2>1, <2>2 DEF Listed
      <3>2. ~Listed(n)'
        <4> SUFFICES ASSUME NEW i \in 1..Len(list'), list'[i] = n PROVE FALSE
          BY DEF Listed
        <4>1. i + 1 \in 1..Len(list) /\ 1 \in 1..Len(list) /\ list[i + 1] = list[1] /\ i + 1 # 1
          BY <2>1, <2>2
        <4> QED BY <4>1 DEF IInv, Distinct
      <3>3. ASSUME NEW m \in Nodes \ {n}, Listed(m) PROVE Listed(m)'
        <4>1. PICK i \in 1..Len(list) : list[i] = m
          BY <3>3 DEF Listed
        <4>2. i # 1 /\ i - 1 \in 1..Len(list') /\ list'[i - 1] = list[(i - 1) + 1] /\ (i - 1) + 1 = i
          BY <2>1, <2>2, <4>1
        <4> QED BY <4>1, <4>2 DEF Listed
      <3>4. ASSUME NEW m \in Nodes \ {n}, Listed(m)' PROVE Listed(m)
        <4>1. PICK i \in 1..Len(list') : list'[i] = m
          BY <3>4 DEF Listed
        <4>2. i + 1 \in 1..Len(list) /\ list[i + 1] = m
          BY <2>2, <4>1
        <4> QED BY <4>2 DEF Listed
      <3> QED BY <3>1, <3>2, <3>3, <3>4
    <2>8. \A m \in Nodes, u \in Threads : /\ Early(u, m)' <=> Early(u, m)
                                          /\ Offers(u, m)' <=> Offers(u, m)
                                          /\ Holds(u, m)' <=> Holds(u, m)
                                          /\ u # t \/ m # n => (Takes(u, m)' <=> Takes(u, m))
      BY <1>0, <2>0 DEF IInv, TypeOK, Early, Offers, Takes, Holds, EarlyPc, OfferPc
    <2>9. Takes(t, n)' /\ \A u \in Threads : ~Owns(u, n)
      BY <1>0, <1>1, <2>0, <2>7 DEF IInv, TypeOK, Takes, NodeOK, Alone
    <2>10. ~Marked(n) /\ Shared(n) /\ n \notin out' /\ \A u \in Threads \ {t} : ~Owns(u, n)'
      BY <1>0, <1>1, <2>7, <2>8, <2>9 DEF NodeOK, Alone, Marked, Shared, Waiting, Owns
    <2>11. ~Early(t, n)' /\ ~Offers(t, n)'
      BY <2>8, <2>9 DEF Owns
    <2>12. Alone(n)' /\ Held(n)' /\ ~Marked(n)' /\ Shared(n)'
      BY <2>7, <2>9, <2>10, <2>11 DEF Alone, Held, Marked, Shared, Waiting, Owns
    <2>13. Cardinality(Holding(n))' = Cardinality(Holding(n))
      BY <2>8, HoldingKept
    <2>14. Counted(n)'
      BY <1>0, <1>1, <2>10, <2>12, <2>13 DEF NodeOK, Counted
    <2>15. \A m \in Nodes : NodeOK(m)'
      BY <1>0, <1>1, <2>7, <2>8, <2>12, <2>14, Untouched DEF NodeOK, SameParts, SameHolders
    <2> QED BY <2>3, <2>4, <2>5, <2>6, <2>15 DEF IInv
  <1>3. CASE freeListHead # n
    <2>0. /\ node' = [node EXCEPT ![t] = n] /\ head' = [head EXCEPT ![t] = freeListHead]
          /\ pc' = [pc EXCEPT ![t] = "drop ref"] /\ UNCHANGED <<freeListHead, list>>
      BY <1>3 DEF Pop, Goto, Set
    <2>1. TypeOK'
      BY <1>0, <2>0 DEF IInv, TypeOK, Labels
    <2>2. LocalsOK' /\ NextOK'
      BY <1>0, <2>0 DEF IInv, TypeOK, LocalsOK, EarlyPc, OfferPc, NextOK
    <2>3. Distinct' /\ Spelled'
      BY <1>0, <2>0 DEF IInv, Distinct, Spelled
    <2>4. \A m \in Nodes : SameParts(m) /\ SameHolders(m)
      BY <1>0, <2>0 DEF IInv, TypeOK, SameParts, SameHolders, Early, Offers, Takes, Holds, Listed, EarlyPc, OfferPc
    <2>5. \A m \in Nodes : NodeOK(m)'
      BY <1>0, <1>1, <2>4, Untouched
    <2> QED BY <2>1, <2>2, <2>3, <2>5 DEF IInv
  <1> QED BY <1>2, <1>3

(* A node is pushed whose next is the head it replaces. *)
LEMMA PushStep ==
  ASSUME IInv, NEW t \in Threads, Push(t)
  PROVE  IInv'
  <1> SUFFICES ASSUME NEW n \in Nodes, node[t] = n PROVE IInv'
    BY DEF Push, IInv, LocalsOK, OfferPc
  <1>0. pc[t] = "push" /\ UNCHANGED <<freeListRefs, freeListNext, out, refs, next>>
    BY DEF Push
  <1>1. \A m \in Nodes : NodeOK(m)
    BY DEF IInv
  <1>2. CASE freeListHead = top[t]
    <2>0. /\ freeListHead' = n /\ list' = <<n>> \o list
          /\ pc' = [pc EXCEPT ![t] = IF inGet[t] /\ head[t] # Null THEN "load refs" ELSE "idle"]
          /\ head' = head
          /\ node' = [node EXCEPT ![t] = Null] /\ top' = [top EXCEPT ![t] = Null]
          /\ inGet' = [inGet EXCEPT ![t] = FALSE]
      BY <1>2, AddedIs DEF Push, IInv
    <2>1. /\ list \in Seq(Nodes) /\ Len(list) \in Nat /\ list' \in Seq(Nodes)
          /\ Len(list') = Len(list) + 1 /\ list'[1] = n
          /\ \A i \in 1..Len(list) : list'[i + 1] = list[i]
      <3>1. list \in Seq(Nodes) /\ Len(list) \in Nat
        BY DEF IInv, TypeOK
      <3>2. <<n>> \in Seq(Nodes) /\ Len(<<n>>) = 1 /\ <<n>>[1] = n
        OBVIOUS
      <3>3. list' = <<n>> \o list
        BY <2>0
      <3>4. list' \in Seq(Nodes) /\ Len(list') = Len(list) + 1
        BY <3>1, <3>2, <3>3
      <3>5. list'[1] = n
        BY <3>1, <3>2, <3>3
      <3>6. \A i \in 1..Len(list) : list'[i + 1] = list[i]
        BY <3>1, <3>2, <3>3
      <3> QED BY <3>1, <3>4, <3>5, <3>6
    <2>2. TypeOK' /\ LocalsOK' /\ NextOK'
      BY <1>0, <2>0, <2>1, AddedLocals DEF IInv, TypeOK
    <2>3. Offers(t, n) /\ ~Listed(n) /\ n \notin out /\ ~Marked(n) /\ Shared(n)
          /\ \A u \in Threads \ {t} : ~Owns(u, n)
      BY <1>0, <1>1, Marks DEF NodeOK, Alone, Owns, Offers, Shared, OfferPc
    <2>4. Distinct'
      <3>1. \A i \in 1..Len(list') : i = 1 \/ (i - 1 \in 1..Len(list) /\ list'[i] = list[i - 1])
        BY <2>1
      <3>2. \A i \in 1..Len(list) : list[i] # n
        BY <2>3 DEF Listed
      <3>3. ASSUME NEW i \in 1..Len(list'), NEW j \in 1..Len(list'), list'[i] = list'[j]
            PROVE  i = j
        <4>1. CASE i = 1 \/ j = 1
          BY <2>1, <3>1, <3>2, <3>3, <4>1
        <4>2. CASE i # 1 /\ j # 1
          <5>1. i - 1 \in 1..Len(list) /\ j - 1 \in 1..Len(list) /\ list[i - 1] = list[j - 1]
            BY <3>1, <3>3, <4>2
          <5>2. i - 1 = j - 1
            BY <5>1 DEF IInv, Distinct
          <5> QED BY <5>2
        <4> QED BY <4>1, <4>2
      <3> QED BY <3>3 DEF Distinct
    <2>5. Spelled'
      <3>1. freeListNext[n] = IF list = <<>> THEN Null ELSE list[1]
        BY <1>0, <1>2 DEF IInv, NextOK, Spelled
      <3>2. ASSUME NEW i \in 1..Len(list')
            PROVE  freeListNext'[list'[i]] = IF i = Len(list') THEN Null ELSE list'[i + 1]
        <4>1. CASE i = 1
          <5>1. list = <<>> <=> 1 = Len(list')
            BY <2>1
          <5>2. list # <<>> => list'[1 + 1] = list[1]
            BY <2>1
          <5> QED BY <1>0, <2>1, <3>1, <4>1, <5>1, <5>2
        <4>2. CASE i # 1
          <5>1. i - 1 \in 1..Len(list) /\ list'[i] = list[i - 1]
                /\ (i = Len(list') <=> i - 1 = Len(list))
            BY <2>1, <4>2
          <5>2. i # Len(list') => list'[i + 1] = list[(i - 1) + 1]
            BY <2>1, <4>2
          <5>3. freeListNext[list[i - 1]] = IF i - 1 = Len(list) THEN Null ELSE list[(i - 1) + 1]
            BY <5>1 DEF IInv, Spelled
          <5> QED BY <1>0, <5>1, <5>2, <5>3
        <4> QED BY <4>1, <4>2
      <3>3. list' # <<>>
        BY <2>1
      <3> QED BY <2>0, <2>1, <3>2, <3>3 DEF Spelled
    <2>6. Listed(n)' /\ \A m \in Nodes \ {n} : Listed(m)' <=> Listed(m)
      <3>1. Listed(n)'
        BY <2>1 DEF Listed
      <3>2. ASSUME NEW m \in Nodes \ {n}, Listed(m) PROVE Listed(m)'
        <4>1. PICK i \in 1..Len(list) : list[i] = m
          BY <3>2 DEF Listed
        <4>2. i + 1 \in 1..Len(list') /\ list'[i + 1] = m
          BY <2>1, <4>1
        <4> QED BY <4>2 DEF Listed
      <3>3. ASSUME NEW m \in Nodes \ {n}, Listed(m)' PROVE Listed(m)
        <4>1. PICK i \in 1..Len(list') : list'[i] = m
          BY <3>3 DEF Listed
        <4>2. i # 1 /\ i - 1 \in 1..Len(list) /\ list'[(i - 1) + 1] = list[i - 1] /\ (i - 1) + 1 = i
          BY <2>1, <4>1
        <4> QED BY <4>1, <4>2 DEF Listed
      <3> QED BY <3>1, <3>2, <3>3
    <2>7. \A m \in Nodes \ {n}, u \in Threads : /\ Early(u, m)' <=> Early(u, m)
                                                /\ Offers(u, m)' <=> Offers(u, m)
                                                /\ Takes(u, m)' <=> Takes(u, m)
      BY <1>0, <2>0 DEF IInv, TypeOK, Early, Offers, Takes, EarlyPc, OfferPc
    <2>8. \A m \in Nodes : SameHolders(m)
      BY <1>0, <2>0 DEF IInv, TypeOK, SameHolders, Holds
    <2>9. \A u \in Threads : ~Owns(u, n)'
      BY <1>0, <2>0, <2>3 DEF IInv, TypeOK, Owns, Early, Offers, Takes, EarlyPc, OfferPc
    <2>10. Alone(n)' /\ Held(n)' /\ ~Marked(n)' /\ Shared(n)'
      BY <1>0, <2>3, <2>6, <2>9 DEF Alone, Held, Marked, Shared, Waiting, Owns
    <2>11. Cardinality(Holding(n))' = Cardinality(Holding(n))
      BY <2>8, HoldingKept DEF SameHolders
    <2>12. Counted(n)'
      BY <1>0, <1>1, <2>3, <2>10, <2>11 DEF NodeOK, Counted
    <2>13. \A m \in Nodes : NodeOK(m)'
      BY <1>0, <1>1, <2>6, <2>7, <2>8, <2>10, <2>12, Untouched DEF NodeOK, SameParts
    <2> QED BY <2>2, <2>4, <2>5, <2>13 DEF IInv
  <1>3. CASE freeListHead # top[t]
    <2>0. /\ top' = [top EXCEPT ![t] = freeListHead]
          /\ pc' = [pc EXCEPT ![t] = "unref"]
          /\ UNCHANGED <<freeListHead, list, head, node, inGet>>
      BY <1>3 DEF Push, Goto, Set
    <2>1. TypeOK'
      BY <1>0, <2>0 DEF IInv, TypeOK, Labels
    <2>2. LocalsOK' /\ NextOK'
      BY <1>0, <2>0 DEF IInv, TypeOK, LocalsOK, EarlyPc, OfferPc, NextOK
    <2>3. Distinct' /\ Spelled'
      BY <1>0, <2>0 DEF IInv, Distinct, Spelled
    <2>4. \A m \in Nodes : SameParts(m) /\ SameHolders(m)
      BY <1>0, <2>0 DEF IInv, TypeOK, SameParts, SameHolders, Early, Offers, Takes, Holds, Listed, EarlyPc, OfferPc
    <2>5. \A m \in Nodes : NodeOK(m)'
      BY <1>0, <1>1, <2>4, Untouched
    <2> QED BY <2>1, <2>2, <2>3, <2>5 DEF IInv
  <1> QED BY <1>2, <1>3

-----------------------------------------------------------------------------
(* The invariant *)

(* The list is empty at first and every node is in use. *)
LEMMA InitIInv ==
  ASSUME Init
  PROVE  IInv
  <1> USE DEF Init
  <1>1. TypeOK
    BY DEF TypeOK, Labels
  <1>2. LocalsOK /\ NextOK /\ Distinct /\ Spelled
    BY DEF LocalsOK, NextOK, Distinct, Spelled, EarlyPc, OfferPc
  <1>3. ASSUME NEW n \in Nodes PROVE NodeOK(n)
    <2>1. n \in out /\ ~Listed(n) /\ \A t \in Threads : ~Owns(t, n) /\ ~Holds(t, n)
      BY DEF Listed, Owns, Early, Offers, Takes, Holds, EarlyPc, OfferPc
    <2>2. Alone(n) /\ Held(n) /\ ~Marked(n) /\ ~Shared(n)
      BY <2>1 DEF Alone, Held, Waiting, Marked, Shared, Owns
    <2>3. Cardinality(Holding(n)) = 0
      BY <2>1, HoldingIs
    <2> QED BY <2>2, <2>3 DEF NodeOK, Counted
  <1> QED BY <1>1, <1>2, <1>3 DEF IInv

(* Every step of a thread keeps the invariant. *)
LEMMA NextIInv ==
  ASSUME IInv, [Next]_vars
  PROVE  IInv'
  <1>1. ASSUME NEW t \in Threads, Step(t) PROVE IInv'
    BY <1>1, TryGetStep, LoadRefsStep, TakeRefStep, ReadNextStep, PopStep, TakenStep, DropRefStep,
       AddStep, LoadHeadStep, SetNextStep, SetRefsStep, PushStep, UnrefStep DEF Step
  <1>2. CASE UNCHANGED vars
    <2>1. TypeOK' /\ LocalsOK' /\ NextOK' /\ Distinct' /\ Spelled'
      BY <1>2 DEF vars, shared, locals, IInv, TypeOK, LocalsOK, NextOK, Distinct, Spelled
    <2>2. \A n \in Nodes : SameParts(n) /\ SameHolders(n) /\ freeListRefs'[n] = freeListRefs[n]
      BY <1>2 DEF vars, shared, locals, SameParts, SameHolders, Early, Offers, Takes, Holds, Listed
    <2> QED BY <2>1, <2>2, Untouched DEF IInv
  <1> QED BY <1>1, <1>2 DEF Next

(* Every step of every thread keeps the inductive invariant. *)
THEOREM Invariance == Spec => []IInv
  <1>1. Init => IInv
    BY InitIInv
  <1>2. IInv /\ [Next]_vars => IInv'
    BY NextIInv
  <1> QED BY <1>1, <1>2, PTL DEF Spec

(* The words in memory spell the stack. *)
THEOREM SpellsListHolds == Spec => []SpellsList
  <1>1. ASSUME IInv PROVE SpellsList
    <2> DEFINE ends == list \o <<Null>>
    <2>1. list \in Seq(Nodes) /\ Len(list) \in Nat
      BY <1>1 DEF IInv, TypeOK
    <2>2. /\ ends[1] = IF list = <<>> THEN Null ELSE list[1]
          /\ \A i \in 1..Len(list) : ends[i + 1] = IF i = Len(list) THEN Null ELSE list[i + 1]
      BY <2>1
    <2> QED BY <1>1, <2>2 DEF IInv, Spelled, SpellsList
  <1> QED BY <1>1, Invariance, PTL

(* A set of one thread, or of none. *)
LEMMA AtMostOne ==
  ASSUME NEW S, \A x, y \in S : x = y
  PROVE  Cardinality(S) = IF S = {} THEN 0 ELSE 1
  <1>1. CASE S = {}
    BY <1>1, FS_EmptySet
  <1>2. CASE S # {}
    <2>1. PICK x : x \in S
      BY <1>2
    <2>2. S = {x}
      BY <2>1
    <2> QED BY <1>2, <2>2, FS_Singleton
  <1> QED BY <1>1, <1>2

(* A node has one owner, its count is exact, and a node just popped is not
   flagged.                                                               *)
THEOREM InvHolds == Spec => []Inv
  <1>1. ASSUME IInv PROVE Inv
    <2> SUFFICES ASSUME NEW n \in Nodes
                 PROVE  /\ Owners(n) = 1 \/ (Owners(n) = 0 /\ Flagged(n) /\ Holding(n) # {})
                        /\ freeListRefs[n] % SHOULD_BE_ON_FREELIST =
                             Cardinality(Holding(n))
                               + IF OnList(n) # {} \/ Offered(n) \/ Taking(n) # {} THEN 1 ELSE 0
                        /\ Taking(n) # {} => ~Flagged(n)
      BY <1>1 DEF IInv, Inv, OneOwner, CountExact
    <2>1. Alone(n) /\ Held(n) /\ Counted(n) /\ Distinct
      BY <1>1 DEF IInv, NodeOK
    <2>2. /\ OnList(n) # {} <=> Listed(n)
          /\ Taking(n) # {} <=> \E t \in Threads : Takes(t, n)
          /\ Adding(n) # {} <=> \E t \in Threads : Early(t, n) \/ Offers(t, n)
          /\ Offered(n) <=> \E t \in Threads : Offers(t, n)
      BY DEF OnList, Listed, Taking, Takes, Adding, Early, Offers, Offered, EarlyPc, OfferPc
    <2>3. Cardinality(OnList(n)) = IF Listed(n) THEN 1 ELSE 0
      <3>1. \A i, j \in OnList(n) : i = j
        BY <2>1 DEF OnList, Distinct
      <3> QED BY <2>2, <3>1, AtMostOne
    <2>4. Cardinality(Taking(n)) = IF \E t \in Threads : Takes(t, n) THEN 1 ELSE 0
      <3>1. \A t, u \in Taking(n) : t = u
        BY <2>1 DEF Taking, Takes, Alone, Owns
      <3> QED BY <2>2, <3>1, AtMostOne
    <2>5. Cardinality(Adding(n)) = IF \E t \in Threads : Early(t, n) \/ Offers(t, n) THEN 1 ELSE 0
      <3>1. \A t, u \in Adding(n) : t = u
        BY <2>1 DEF Adding, Early, Offers, Alone, Owns, EarlyPc, OfferPc
      <3> QED BY <2>2, <3>1, AtMostOne
    <2>6. \A t, u \in Threads : Takes(t, n) => ~Early(u, n) /\ ~Offers(u, n)
      BY <2>1 DEF Alone, Owns, Takes, Early, Offers, EarlyPc, OfferPc
    <2>7. /\ Flag \in Nat /\ Cardinality(Holding(n)) \in 0..(Flag - 2)
          /\ Cardinality(Holding(n)) = 0 <=> \A t \in Threads : ~Holds(t, n)
          /\ Cardinality(Holding(n)) = 0 <=> Holding(n) = {}
      BY HoldingIs, FS_EmptySet
    <2>8. ~(Marked(n) /\ Shared(n)) /\ (n \in out => ~Marked(n) /\ ~Shared(n))
      BY <2>1, Marks
    <2>9. Owners(n) = 1 \/ (Owners(n) = 0 /\ Flagged(n) /\ Holding(n) # {})
      <3>1. CASE Waiting(n)
        <4>1. Owners(n) = 0
          BY <2>3, <2>4, <2>5, <3>1 DEF Owners, Waiting, Owns
        <4>2. Holding(n) # {}
          BY <2>1, <2>7, <3>1 DEF Held
        <4>3. Flagged(n)
          BY <2>1, <2>7, <2>8, <3>1 DEF Flagged, Counted, Marked, Flag
        <4> QED BY <4>1, <4>2, <4>3
      <3>2. CASE n \in out
        BY <2>1, <2>3, <2>4, <2>5, <3>2 DEF Owners, Alone, Owns
      <3>3. CASE n \notin out /\ Listed(n)
        BY <2>1, <2>3, <2>4, <2>5, <3>3 DEF Owners, Alone, Owns
      <3>4. CASE n \notin out /\ ~Listed(n) /\ \E t \in Threads : Owns(t, n)
        BY <2>3, <2>4, <2>5, <2>6, <3>4 DEF Owners, Owns
      <3> QED BY <3>1, <3>2, <3>3, <3>4 DEF Waiting
    <2> DEFINE k == Cardinality(Holding(n)) + IF Shared(n) THEN 1 ELSE 0
    <2>10. k \in 0..(Flag - 1) /\ freeListRefs[n] = (IF Marked(n) THEN Flag + k ELSE k)
      BY <2>1, <2>7 DEF Counted
    <2>11. freeListRefs[n] % Flag = k
      <3> HIDE DEF k
      <3> QED BY <2>10, CountBelowFlag
    <2>12. Shared(n) <=> OnList(n) # {} \/ Offered(n) \/ Taking(n) # {}
      BY <2>2 DEF Shared
    <2>13. Taking(n) # {} => ~Flagged(n)
      <3>1. Taking(n) # {} => freeListRefs[n] = k
        BY <2>2, <2>8, <2>10 DEF Shared
      <3> QED BY <2>7, <2>10, <3>1 DEF Flagged, Flag
    <2> QED BY <2>9, <2>11, <2>12, <2>13 DEF Flag
  <1> QED BY <1>1, Invariance, PTL

=============================================================================
