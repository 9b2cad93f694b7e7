-------------------------- MODULE IocpPollerProofs --------------------------
(***************************************************************************)
(* What holds of the IOCP poller for every table length and every number   *)
(* of sessions, bytes and faults.                                          *)
(***************************************************************************)
EXTENDS IocpPoller, WellFoundedInduction, TLAPS

-----------------------------------------------------------------------------
(* IdGen *)

(* Min is the least element of a non-empty set of numbers. *)
LEMMA MinNat ==
  ASSUME NEW S, S \subseteq Nat, S # {}
  PROVE  Min(S) \in S /\ \A y \in S : Min(S) <= y
  <1>1. PICK x \in S : \A y \in S : ~(<<y, x>> \in OpToRel(<, Nat))
    BY WFMin, NatLessThanWellFounded
  <1>2. \A m, n \in Nat : <<m, n>> \in OpToRel(<, Nat) <=> m < n
    BY Zenon DEF OpToRel
  <1>3. \A y \in S : ~(y < x)
    BY <1>1, <1>2, Zenon
  <1>4. x \in S /\ \A y \in S : x <= y
    BY <1>3
  <1> QED BY <1>4 DEF Min

(* An id that IdGen finds is the index of an empty entry. *)
LEMMA IdGenFree ==
  ASSUME TypeOK, IdGen # -1
  PROVE  IdGen \in Ids /\ sessions[IdGen] = None
  <1> DEFINE i == Min(FreeSteps)
  <1>1. FreeSteps # {} /\ IdGen = (curId + i) % MaxId
    BY DEF IdGen
  <1>2. i \in FreeSteps
    BY <1>1, MinNat DEF FreeSteps
  <1>3. i \in 1..(MaxId - 1) /\ sessions[(curId + i) % MaxId] = None
    BY <1>2 DEF FreeSteps
  <1>4. curId + i \in Nat
    BY <1>3, IocpAssumption DEF TypeOK
  <1>5. (curId + i) % MaxId \in Ids
    BY <1>4, IocpAssumption DEF Ids
  <1> QED BY <1>1, <1>3, <1>5

-----------------------------------------------------------------------------
(* Types *)

TableTypeOK ==
  /\ sessions \in [Ids -> Objs \cup {None}]
  /\ curId \in -1..(MaxId - 1)
  /\ made \in 0..MaxObjs
  /\ key \in [Objs -> Ids]
  /\ kind \in [Objs -> {"none", "listen", "accept", "connect"}]

SocksTypeOK ==
  /\ open \subseteq Objs /\ spare \subseteq Objs /\ lost \subseteq Objs \cup {None}
  /\ winsock \in {"up", "cleaned", "closed"}

NetTypeOK ==
  /\ peer \in [Objs -> {"up", "fin", "rst"}]
  /\ rx \in [Objs -> Nat]
  /\ backlog \in Nat

ReadsTypeOK ==
  /\ recvPend \in [Objs -> Nat]
  /\ recvDone \in [Objs -> Nat]
  /\ deaf \subseteq Objs

SendsTypeOK ==
  /\ wsize \in [Objs -> Nat]
  /\ sendPend \in [Objs -> Nat]
  /\ sendDone \in [Objs -> Nat]

CtlTypeOK ==
  /\ pc \in UserPc \cup Undefined
  /\ self \in Objs \cup {None}
  /\ first \in Objs \cup {None}

(* What the thread serves while a callback runs, and that it serves nothing
   otherwise.                                                             *)
Serving ==
  /\ pc = "idle" => self = None
  /\ pc \in {"onRecv", "onAccept"} => self \in Objs

TInv == TypeOK /\ Serving

(* The parts make up the type invariant, before and after a step. *)
LEMMA TypeParts ==
  TypeOK <=> TableTypeOK /\ SocksTypeOK /\ NetTypeOK /\ ReadsTypeOK
             /\ SendsTypeOK /\ CtlTypeOK
  BY DEF TypeOK, TableTypeOK, SocksTypeOK, NetTypeOK, ReadsTypeOK, SendsTypeOK, CtlTypeOK

(* To prove the types of a step, its parts are enough. *)
LEMMA TypeJoin ==
  ASSUME TableTypeOK', SocksTypeOK', NetTypeOK', ReadsTypeOK', SendsTypeOK',
         CtlTypeOK', Serving'
  PROVE  TInv'
  BY DEF TInv, TypeOK, TableTypeOK, SocksTypeOK, NetTypeOK, ReadsTypeOK, SendsTypeOK, CtlTypeOK

(* A part of the state that does not change keeps its types. *)
LEMMA TypeKept ==
  ASSUME TInv
  PROVE  /\ UNCHANGED table => TableTypeOK'
         /\ UNCHANGED socks => SocksTypeOK'
         /\ UNCHANGED net => NetTypeOK'
         /\ UNCHANGED reads => ReadsTypeOK'
         /\ UNCHANGED sends => SendsTypeOK'
         /\ UNCHANGED ctl => CtlTypeOK' /\ Serving'
  <1>1. UNCHANGED table => TableTypeOK'
    BY DEF TInv, TypeOK, table, TableTypeOK
  <1>2. UNCHANGED net => NetTypeOK'
    BY DEF TInv, TypeOK, net, NetTypeOK
  <1>3. UNCHANGED reads => ReadsTypeOK'
    BY DEF TInv, TypeOK, reads, ReadsTypeOK
  <1>4. UNCHANGED sends => SendsTypeOK'
    BY DEF TInv, TypeOK, sends, SendsTypeOK
  <1>5. UNCHANGED ctl => CtlTypeOK' /\ Serving'
    BY DEF TInv, TypeOK, ctl, CtlTypeOK, Serving
  <1>6. UNCHANGED socks => SocksTypeOK'
    BY DEF TInv, TypeOK, socks, SocksTypeOK
  <1> QED BY <1>1, <1>2, <1>3, <1>4, <1>5, <1>6

(* What the building blocks of the actions leave well typed. *)
LEMMA NewEntryType ==
  ASSUME TypeOK, NEW knd \in {"listen", "accept", "connect"}, NewEntry(knd)
  PROVE  TableTypeOK' /\ made + 1 \in Objs
  <1>1. made + 1 \in Objs
    BY IocpAssumption DEF TypeOK, NewEntry, Objs
  <1>2. IdGen \in Ids
    BY IdGenFree DEF NewEntry
  <1>3. sessions' \in [Ids -> Objs \cup {None}] /\ key' \in [Objs -> Ids]
    BY <1>1, <1>2 DEF TypeOK, NewEntry
  <1>4. kind' \in [Objs -> {"none", "listen", "accept", "connect"}]
    BY <1>1 DEF TypeOK, NewEntry
  <1>5. curId' \in -1..(MaxId - 1) /\ made' \in 0..MaxObjs
    BY <1>1, <1>2, IocpAssumption DEF TypeOK, NewEntry, Ids, Objs
  <1> QED BY <1>1, <1>3, <1>4, <1>5 DEF TableTypeOK

(* Writing sessions[-1] changes no entry that is modelled. *)
LEMMA OverrunType ==
  ASSUME TypeOK, Overrun
  PROVE  TableTypeOK' /\ SocksTypeOK' /\ NetTypeOK' /\ SendsTypeOK' /\ CtlTypeOK' /\ Serving'
  <1>1. SocksTypeOK' /\ NetTypeOK'
    BY DEF TypeOK, Overrun, socks, net, SocksTypeOK, NetTypeOK
  <1>2. TableTypeOK' /\ SendsTypeOK' /\ CtlTypeOK' /\ Serving'
    BY IocpAssumption DEF TypeOK, Overrun, TableTypeOK, SendsTypeOK, CtlTypeOK, Undefined, Serving
  <1> QED BY <1>1, <1>2

(* A read is posted for o, or it fails and o is deaf from now on. *)
Posted(o) ==
  \/ recvPend' = [recvPend EXCEPT ![o] = @ + 1] /\ UNCHANGED deaf
  \/ deaf' = deaf \cup {o} /\ UNCHANGED recvPend

(* That is what postRecv and post_accept_ex do. *)
LEMMA PostsRead ==
  ASSUME NEW o
  PROVE  (PostRecv(o) => Posted(o)) /\ (PostAccept(o) => Posted(o))
  BY DEF PostRecv, PostAccept, Posted

(* It leaves the reads well typed, and AcceptEx's sockets. *)
LEMMA PostType ==
  ASSUME TypeOK, NEW o \in Objs, Posted(o)
  PROVE  recvPend' \in [Objs -> Nat] /\ deaf' \subseteq Objs
  BY DEF TypeOK, Posted

LEMMA PostAcceptType ==
  ASSUME TypeOK, NEW l \in Objs, PostAccept(l)
  PROVE  spare' \subseteq Objs
  BY DEF TypeOK, PostAccept

(* closeSession. *)
LEMMA CloseType ==
  ASSUME TypeOK, NEW o \in Objs, CloseSession(o)
  PROVE  TableTypeOK' /\ SocksTypeOK' /\ NetTypeOK' /\ wsize' \in [Objs -> Nat]
  <1>1. sessions' \in [Ids -> Objs \cup {None}]
    BY DEF TypeOK, CloseSession
  <1>2. wsize' \in [Objs -> Nat] /\ rx' \in [Objs -> Nat] /\ backlog' \in Nat
    BY DEF TypeOK, CloseSession
  <1>3. SocksTypeOK'
    BY DEF TypeOK, CloseSession, SocksTypeOK
  <1> QED BY <1>1, <1>2, <1>3 DEF TypeOK, CloseSession, TableTypeOK, NetTypeOK

(* postSend, whether it sends, waits or closes the session. *)
LEMMA PostSendType ==
  ASSUME TypeOK, NEW o \in Objs, NEW w \in Nat, PostSend(o, w)
  PROVE  TableTypeOK' /\ SocksTypeOK' /\ NetTypeOK' /\ wsize' \in [Objs -> Nat]
         /\ sendPend' \in [Objs -> Nat]
  <1>1. CASE CloseSession(o) /\ UNCHANGED sendPend
    BY <1>1, CloseType DEF TypeOK
  <1>2. CASE ~CloseSession(o)
    <2>1. UNCHANGED <<table, socks, net>>
      BY <1>2 DEF PostSend
    <2>2. wsize' \in [Objs -> Nat] /\ sendPend' \in [Objs -> Nat]
      BY <1>2 DEF PostSend, TypeOK
    <2> QED BY <2>1, <2>2 DEF TypeOK, table, socks, net, TableTypeOK, SocksTypeOK, NetTypeOK
  <1>3. CASE CloseSession(o) /\ ~UNCHANGED sendPend
    <2>1. UNCHANGED <<table, socks, net>>
      BY <1>3 DEF PostSend
    <2>2. wsize' \in [Objs -> Nat] /\ sendPend' \in [Objs -> Nat]
      BY <1>3 DEF PostSend, TypeOK
    <2> QED BY <2>1, <2>2 DEF TypeOK, table, socks, net, TableTypeOK, SocksTypeOK, NetTypeOK
  <1> QED BY <1>1, <1>2, <1>3

(* A completion whose slot is empty or taken. *)
LEMMA UnservedType ==
  ASSUME TInv, NEW o \in Objs, pc = "idle", Unserved(o)
  PROVE  CtlTypeOK' /\ Serving'
  BY DEF TInv, TypeOK, Unserved, CtlTypeOK, Serving, Undefined, UserPc

(* The initial state is well typed. *)
THEOREM InitType == Init => TInv
  BY IocpAssumption
     DEF Init, TInv, TypeOK, Serving, None, Objs, Ids, UserPc, Undefined

(* The kernel and the peers keep the types. *)
LEMMA KernelType ==
  ASSUME TInv, KernelStep
  PROVE  TInv'
  <1>1. CASE PeerConnects
    <2>1. NetTypeOK' /\ UNCHANGED <<table, socks, reads, sends, ctl>>
      BY <1>1 DEF PeerConnects, TInv, TypeOK, NetTypeOK
    <2> QED BY <2>1, TypeKept, TypeJoin
  <1>2. CASE \E o \in Objs : PeerSends(o) \/ PeerCloses(o) \/ PeerResets(o)
    <2>1. NetTypeOK'
      BY <1>2 DEF PeerSends, PeerCloses, PeerResets, TInv, TypeOK, NetTypeOK
    <2>2. UNCHANGED <<table, socks, reads, sends, ctl>>
      BY <1>2 DEF PeerSends, PeerCloses, PeerResets
    <2> QED BY <2>1, <2>2, TypeKept, TypeJoin
  <1>3. ASSUME NEW o \in Objs, CompleteRecv(o) PROVE TInv'
    <2>1. recvPend' \in [Objs -> Nat]
      BY <1>3 DEF CompleteRecv, TInv, TypeOK
    <2>2. recvDone' \in [Objs -> Nat]
      BY <1>3 DEF CompleteRecv, TInv, TypeOK
    <2>3. NetTypeOK'
      BY <1>3 DEF CompleteRecv, TInv, TypeOK, NetTypeOK
    <2>4. UNCHANGED <<table, socks, deaf, sends, ctl>>
      BY <1>3 DEF CompleteRecv
    <2>5. ReadsTypeOK'
      BY <2>1, <2>2, <2>4 DEF ReadsTypeOK, TInv, TypeOK
    <2> QED BY <2>3, <2>4, <2>5, TypeKept, TypeJoin
  <1>4. ASSUME NEW o \in Objs, CompleteSend(o) PROVE TInv'
    <2>1. sendPend' \in [Objs -> Nat] /\ sendDone' \in [Objs -> Nat]
      BY <1>4 DEF CompleteSend, TInv, TypeOK
    <2>2. UNCHANGED <<table, socks, net, reads, wsize, ctl>>
      BY <1>4 DEF CompleteSend
    <2>3. SendsTypeOK'
      BY <2>1, <2>2 DEF SendsTypeOK, TInv, TypeOK
    <2> QED BY <2>2, <2>3, TypeKept, TypeJoin
  <1> QED BY <1>1, <1>2, <1>3, <1>4 DEF KernelStep

(* So does loopOnce serving a read, ... *)
LEMMA DispatchReadType ==
  ASSUME TInv, NEW o \in Objs, DispatchRead(o)
  PROVE  TInv'
  <1>1. recvDone' \in [Objs -> Nat] /\ UNCHANGED <<sendPend, sendDone>> /\ pc = "idle"
    BY DEF DispatchRead, TInv, TypeOK
  <1>2. CASE Unserved(o) /\ UNCHANGED <<table, socks, net, wsize, recvPend, deaf>>
    <2>1. ReadsTypeOK' /\ UNCHANGED sends
      BY <1>1, <1>2 DEF ReadsTypeOK, TInv, TypeOK, sends
    <2> QED BY <1>1, <1>2, <2>1, UnservedType, TypeKept, TypeJoin
  <1>3. ASSUME Readable(o), rx' = [rx EXCEPT ![o] = 0], pc' = "onRecv", self' = o,
               UNCHANGED <<table, socks, peer, backlog, wsize, recvPend, deaf, first>>
        PROVE  TInv'
    <2>1. ReadsTypeOK' /\ UNCHANGED sends
      BY <1>1, <1>3 DEF ReadsTypeOK, TInv, TypeOK, sends
    <2>2. NetTypeOK'
      BY <1>3 DEF NetTypeOK, TInv, TypeOK
    <2>3. CtlTypeOK' /\ Serving'
      BY <1>3 DEF CtlTypeOK, Serving, TInv, TypeOK, UserPc
    <2> QED BY <1>3, <2>1, <2>2, <2>3, TypeKept, TypeJoin
  <1>4. CASE Posted(o) /\ UNCHANGED <<table, socks, net, wsize, ctl>>
    <2>1. ReadsTypeOK' /\ UNCHANGED sends
      BY <1>1, <1>4, PostType DEF ReadsTypeOK, TInv, sends
    <2> QED BY <1>4, <2>1, TypeKept, TypeJoin
  <1>5. CASE CloseSession(o) /\ UNCHANGED <<recvPend, deaf, ctl>>
    <2>1. ReadsTypeOK'
      BY <1>1, <1>5 DEF ReadsTypeOK, TInv, TypeOK
    <2>2. SendsTypeOK' /\ TableTypeOK' /\ SocksTypeOK' /\ NetTypeOK'
      BY <1>1, <1>5, CloseType DEF SendsTypeOK, TInv, TypeOK
    <2> QED BY <1>5, <2>1, <2>2, TypeKept, TypeJoin
  <1> QED BY <1>2, <1>3, <1>4, <1>5, PostsRead DEF DispatchRead, DoRecv

(* ... a write, ... *)
LEMMA DispatchWriteType ==
  ASSUME TInv, NEW o \in Objs, DispatchWrite(o)
  PROVE  TInv'
  <1>1. sendDone' \in [Objs -> Nat] /\ UNCHANGED reads /\ pc = "idle"
    BY DEF DispatchWrite, TInv, TypeOK
  <1>2. CASE Unserved(o) /\ UNCHANGED <<table, socks, net, wsize, sendPend>>
    <2>1. SendsTypeOK'
      BY <1>1, <1>2 DEF SendsTypeOK, TInv, TypeOK
    <2> QED BY <1>1, <1>2, <2>1, UnservedType, TypeKept, TypeJoin
  <1>3. CASE PostSend(o, wsize[o]) /\ UNCHANGED ctl
    <2>1. wsize[o] \in Nat
      BY DEF TInv, TypeOK
    <2>2. TableTypeOK' /\ SocksTypeOK' /\ NetTypeOK' /\ SendsTypeOK'
      BY <1>1, <1>3, <2>1, PostSendType DEF SendsTypeOK, TInv
    <2> QED BY <1>1, <1>3, <2>2, TypeKept, TypeJoin
  <1>4. CASE UNCHANGED <<table, socks, net, wsize, sendPend>> /\ UNCHANGED ctl
    <2>1. SendsTypeOK'
      BY <1>1, <1>4 DEF SendsTypeOK, TInv, TypeOK
    <2> QED BY <1>1, <1>4, <2>1, TypeKept, TypeJoin
  <1> QED BY <1>2, <1>3, <1>4 DEF DispatchWrite

(* ... an AcceptEx and the connections after it, ... *)
LEMMA AcceptedType ==
  ASSUME TInv, NEW o \in Objs, Accepted(o), spare' \subseteq Objs
  PROVE  SocksTypeOK' /\ recvPend' \in [Objs -> Nat] /\ deaf' \subseteq Objs
  <1>1. recvPend' \in [Objs -> Nat] /\ deaf' \subseteq Objs
    BY PostType, PostsRead DEF Accepted, TInv
  <1>2. SocksTypeOK'
    BY DEF Accepted, TInv, TypeOK, SocksTypeOK
  <1> QED BY <1>1, <1>2

(* The first connection of an accept batch. *)
LEMMA DispatchAcceptType ==
  ASSUME TInv, NEW l \in Objs, DispatchAccept(l)
  PROVE  TInv'
  <1>1. recvDone' \in [Objs -> Nat] /\ UNCHANGED <<net, sends>> /\ pc = "idle"
    BY DEF DispatchAccept, TInv, TypeOK
  <1>2. CASE Unserved(l) /\ UNCHANGED <<table, socks, recvPend, deaf>>
    <2>1. ReadsTypeOK'
      BY <1>1, <1>2 DEF ReadsTypeOK, TInv, TypeOK
    <2> QED BY <1>1, <1>2, <2>1, UnservedType, TypeKept, TypeJoin
  <1>3. ASSUME NewEntry("accept"), Accepted(made + 1), spare' = spare \ {l},
               pc' = "onAccept", self' = l, first' = made + 1
        PROVE  TInv'
    <2>1. TableTypeOK' /\ made + 1 \in Objs
      BY <1>3, NewEntryType DEF TInv
    <2>2. ReadsTypeOK' /\ SocksTypeOK'
      BY <1>1, <1>3, <2>1, AcceptedType DEF ReadsTypeOK, TInv, TypeOK
    <2>3. CtlTypeOK' /\ Serving'
      BY <1>3, <2>1 DEF CtlTypeOK, Serving, UserPc
    <2> QED BY <1>1, <2>1, <2>2, <2>3, TypeKept, TypeJoin
  <1>4. ASSUME NewEntry("accept"), deaf' = deaf \cup {l, made + 1}, spare' = spare \ {l},
               UNCHANGED <<open, lost, winsock, recvPend, ctl>>
        PROVE  TInv'
    <2>1. TableTypeOK' /\ made + 1 \in Objs
      BY <1>4, NewEntryType DEF TInv
    <2>2. ReadsTypeOK' /\ SocksTypeOK'
      BY <1>1, <1>4, <2>1 DEF ReadsTypeOK, SocksTypeOK, TInv, TypeOK
    <2> QED BY <1>1, <1>4, <2>1, <2>2, TypeKept, TypeJoin
  <1>5. CASE Overrun /\ UNCHANGED <<recvPend, deaf>>
    <2>1. ReadsTypeOK'
      BY <1>1, <1>5 DEF ReadsTypeOK, TInv, TypeOK
    <2> QED BY <1>5, <2>1, OverrunType, TypeJoin DEF TInv
  <1> QED BY <1>2, <1>3, <1>4, <1>5 DEF DispatchAccept

(* The connections the WSAAccept loop finds after it. *)
LEMMA AcceptNextType ==
  ASSUME TInv, AcceptNext
  PROVE  TInv'
  <1>1. UNCHANGED recvDone /\ backlog > 0
    BY DEF AcceptNext
  <1>2. ASSUME NewEntry("accept"), Accepted(made + 1), backlog' = backlog - 1,
               UNCHANGED <<spare, peer, rx, wsize, sendPend, sendDone, ctl>>
        PROVE  TInv'
    <2>1. TableTypeOK' /\ made + 1 \in Objs
      BY <1>2, NewEntryType DEF TInv
    <2>2. ReadsTypeOK' /\ SocksTypeOK'
      BY <1>1, <1>2, <2>1, AcceptedType DEF ReadsTypeOK, TInv, TypeOK
    <2>3. NetTypeOK' /\ UNCHANGED sends
      BY <1>1, <1>2 DEF NetTypeOK, TInv, TypeOK, sends
    <2> QED BY <1>2, <2>1, <2>2, <2>3, TypeKept, TypeJoin
  <1>3. ASSUME NewEntry("accept"), deaf' = deaf \cup {made + 1},
               open' = (open \cup {made + 1}) \ {first}, backlog' = backlog - 1,
               UNCHANGED <<spare, lost, winsock, peer, rx, wsize, sendPend, sendDone, recvPend,
                           ctl>>
        PROVE  TInv'
    <2>1. TableTypeOK' /\ made + 1 \in Objs
      BY <1>3, NewEntryType DEF TInv
    <2>2. ReadsTypeOK' /\ SocksTypeOK'
      BY <1>1, <1>3, <2>1 DEF ReadsTypeOK, SocksTypeOK, TInv, TypeOK
    <2>3. NetTypeOK' /\ UNCHANGED sends
      BY <1>1, <1>3 DEF NetTypeOK, TInv, TypeOK, sends
    <2> QED BY <1>3, <2>1, <2>2, <2>3, TypeKept, TypeJoin
  <1>4. CASE Overrun /\ UNCHANGED <<recvPend, deaf>>
    <2>1. ReadsTypeOK'
      BY <1>1, <1>4 DEF ReadsTypeOK, TInv, TypeOK
    <2> QED BY <1>4, <2>1, OverrunType, TypeJoin DEF TInv
  <1> QED BY <1>2, <1>3, <1>4 DEF AcceptNext

(* ... the end of the two callbacks, ... *)
LEMMA CallbackEndType ==
  ASSUME TInv, AfterRecv \/ AcceptDone \/ AcceptFreed
  PROVE  TInv'
  <1>1. self \in Objs
    BY DEF AfterRecv, AcceptDone, AcceptFreed, TInv, Serving
  <1>2. recvPend' \in [Objs -> Nat] /\ deaf' \subseteq Objs
    BY <1>1, PostType, PostsRead DEF AfterRecv, AcceptDone, AcceptFreed, reads, TInv, TypeOK
  <1>3. UNCHANGED <<table, open, lost, winsock, net, recvDone, sends>>
    BY DEF AfterRecv, AcceptDone, AcceptFreed, socks, reads
  <1>4. ReadsTypeOK'
    BY <1>2, <1>3 DEF ReadsTypeOK, TInv, TypeOK
  <1>5. CtlTypeOK' /\ Serving'
    BY DEF AfterRecv, AcceptDone, AcceptFreed, CtlTypeOK, Serving, UserPc, Undefined, TInv, TypeOK,
           None
  <1>6. SocksTypeOK'
    BY <1>1, <1>3, PostAcceptType
       DEF AfterRecv, AcceptDone, AcceptFreed, socks, SocksTypeOK, TInv, TypeOK
  <1> QED BY <1>3, <1>4, <1>5, <1>6, TypeKept, TypeJoin

(* ... and the application. *)
LEMMA OpenedType ==
  ASSUME TInv, NEW knd \in {"listen", "connect"}, NewEntry(knd),
         open' = open \cup {made + 1}, spare' \subseteq spare \cup {made + 1},
         UNCHANGED <<lost, winsock, net, sends, recvDone, ctl>>, Posted(made + 1)
  PROVE  TInv'
  <1>1. TableTypeOK' /\ made + 1 \in Objs
    BY NewEntryType DEF TInv
  <1>2. recvPend' \in [Objs -> Nat] /\ deaf' \subseteq Objs
    BY <1>1, PostType DEF TInv
  <1>3. ReadsTypeOK' /\ SocksTypeOK'
    BY <1>1, <1>2 DEF ReadsTypeOK, SocksTypeOK, TInv, TypeOK
  <1> QED BY <1>1, <1>3, TypeKept, TypeJoin

(* A full table leaves the state well typed. *)
LEMMA OverranType ==
  ASSUME TInv, Overrun, UNCHANGED <<recvPend, recvDone, deaf>>
  PROVE  TInv'
  <1>1. ReadsTypeOK'
    BY DEF ReadsTypeOK, TInv, TypeOK
  <1> QED BY <1>1, OverrunType, TypeJoin DEF TInv

(* What the application calls keeps the types. *)
LEMMA UserType ==
  ASSUME TInv, UserStep
  PROVE  TInv'
  <1>1. CASE ListenTo
    <2>1. CASE ListenFails
      <3>1. SocksTypeOK'
        BY <2>1 DEF ListenFails, SocksTypeOK, TInv, TypeOK
      <3>2. UNCHANGED <<table, net, reads, sends, ctl>>
        BY <1>1, <2>1 DEF ListenTo, ListenFails, reads
      <3> QED BY <3>1, <3>2, TypeKept, TypeJoin
    <2>2. PostAccept(made + 1) => spare' \subseteq spare \cup {made + 1}
      BY DEF PostAccept
    <2> QED BY <1>1, <2>1, <2>2, OpenedType, OverranType, PostsRead DEF ListenTo, Posted
  <1>2. CASE Connected
    BY <1>2, OpenedType, OverranType, PostsRead DEF Connected, Accepted, Posted
  <1>3. ASSUME NEW o \in Objs, UserClose(o) PROVE TInv'
    <2>1. UNCHANGED <<reads, sendPend, sendDone, ctl>> /\ CloseSession(o)
      BY <1>3 DEF UserClose
    <2>2. TableTypeOK' /\ SocksTypeOK' /\ NetTypeOK' /\ SendsTypeOK'
      BY <2>1, CloseType DEF SendsTypeOK, TInv, TypeOK
    <2> QED BY <2>1, <2>2, TypeKept, TypeJoin
  <1>4. ASSUME NEW o \in Objs, NEW n \in 1..MaxW, SendTo(o, n) PROVE TInv'
    <2>1. UNCHANGED <<reads, sendDone, ctl>>
      BY <1>4 DEF SendTo
    <2>2. CASE wsize' = [wsize EXCEPT ![o] = @ + n] /\ UNCHANGED <<table, socks, net, sendPend>>
      <3>1. SendsTypeOK'
        BY <2>1, <2>2 DEF SendsTypeOK, TInv, TypeOK
      <3> QED BY <2>1, <2>2, <3>1, TypeKept, TypeJoin
    <2>3. CASE PostSend(o, n)
      <3>1. TableTypeOK' /\ SocksTypeOK' /\ NetTypeOK' /\ SendsTypeOK'
        BY <2>1, <2>3, PostSendType DEF SendsTypeOK, TInv, TypeOK
      <3> QED BY <2>1, <3>1, TypeKept, TypeJoin
    <2> QED BY <1>4, <2>2, <2>3 DEF SendTo
  <1> QED BY <1>1, <1>2, <1>3, <1>4 DEF UserStep

(* Every step keeps the types. *)
THEOREM NextType == TInv /\ [Next]_vars => TInv'
  <1> SUFFICES ASSUME TInv, [Next]_vars PROVE TInv'
    OBVIOUS
  <1>1. CASE LoopStep
    BY <1>1, DispatchReadType, DispatchWriteType, DispatchAcceptType, AcceptNextType,
       CallbackEndType DEF LoopStep
  <1>2. CASE UNCHANGED vars
    BY <1>2, TypeKept, TypeJoin DEF vars
  <1> QED BY <1>1, <1>2, KernelType, UserType DEF Next

(* The poller's state is well typed, for every table length, number of
   sessions and set of faults.                                            *)
THEOREM TypeCorrect == Spec => []TypeOK
  <1>1. TInv => TypeOK
    BY DEF TInv
  <1> QED BY <1>1, InitType, NextType, PTL DEF Spec

-----------------------------------------------------------------------------
(* The session table *)

(* An object not made yet has no operation posted. *)
FreshSends == \A o \in Objs : o > made => wsize[o] = 0 /\ sendPend[o] = 0 /\ sendDone[o] = 0

FreshReads == \A o \in Objs : o > made => recvPend[o] = 0 /\ recvDone[o] = 0 /\ o \notin deaf

(* What a callback serves was made, and had its operation posted. *)
ServedMade ==
  pc \in {"onRecv", "onAccept"} => self <= made /\ self \notin deaf

(* Callbacks of the two kinds serve sessions and listeners. *)
ServesKind ==
  /\ pc = "onAccept" => kind[self] = "listen"
  /\ pc = "onRecv" => kind[self] # "listen"

(* Until the ids were all used once, object o has the id o - 1. *)
FirstLap ==
  made <= MaxId =>
    /\ pc \in UserPc \cup {"freed"}
    /\ curId = made - 1
    /\ \A o \in Objs : o <= made => key[o] = o - 1

IInv ==
  /\ TInv /\ FreshSends /\ FreshReads /\ ServedMade /\ ServesKind /\ FirstLap
  /\ TableOK /\ OneSendWhileUnsent /\ OneReadWhileLive

(* What a new entry does: the made + 1-st object takes a free id, the others
   keep theirs.                                                           *)
LEMMA NewEntryEffect ==
  ASSUME TInv, NEW knd, NewEntry(knd)
  PROVE  /\ made + 1 \in Objs /\ made' = made + 1
         /\ IdGen \in Ids /\ sessions[IdGen] = None
         /\ sessions' = [sessions EXCEPT ![IdGen] = made + 1]
         /\ key'[made + 1] = IdGen /\ kind'[made + 1] = knd
         /\ \A p \in Objs :
              IF p = made + 1
              THEN Live(p)'
              ELSE key'[p] = key[p] /\ kind'[p] = kind[p] /\ (Live(p)' <=> Live(p))
  <1>1. made + 1 \in Objs /\ made' = made + 1
    BY IocpAssumption DEF TInv, TypeOK, NewEntry, Objs
  <1>2. IdGen \in Ids /\ sessions[IdGen] = None
    BY IdGenFree DEF NewEntry, TInv
  <1>3. /\ sessions' = [sessions EXCEPT ![IdGen] = made + 1]
        /\ key' = [key EXCEPT ![made + 1] = IdGen]
        /\ kind' = [kind EXCEPT ![made + 1] = knd]
    BY DEF NewEntry
  <1>4. /\ key'[made + 1] = IdGen /\ kind'[made + 1] = knd
        /\ \A p \in Objs : p = made + 1 => Live(p)'
    <2>1. key'[made + 1] = IdGen /\ kind'[made + 1] = knd
      BY <1>1, <1>3 DEF TInv, TypeOK
    <2>2. sessions'[IdGen] = made + 1
      BY <1>2, <1>3 DEF TInv, TypeOK
    <2> QED BY <2>1, <2>2 DEF Live
  <1>5. ASSUME NEW p \in Objs, p # made + 1
        PROVE  key'[p] = key[p] /\ kind'[p] = kind[p] /\ (Live(p)' <=> Live(p))
    <2>1. key'[p] = key[p] /\ kind'[p] = kind[p] /\ key[p] \in Ids
      BY <1>3, <1>5 DEF TInv, TypeOK
    <2>2. sessions'[key[p]] = IF key[p] = IdGen THEN made + 1 ELSE sessions[key[p]]
      BY <1>3, <2>1 DEF TInv, TypeOK
    <2>3. p # None
      BY DEF Objs, None
    <2> QED BY <1>2, <1>5, <2>1, <2>2, <2>3 DEF Live
  <1> QED BY <1>1, <1>2, <1>3, <1>4, <1>5

(* What closing a session of the table does. *)
LEMMA CloseEffect ==
  ASSUME TInv, NEW o \in Objs, Live(o), CloseSession(o)
  PROVE  /\ made' = made /\ key' = key /\ kind' = kind
         /\ sessions' = [sessions EXCEPT ![key[o]] = None]
         /\ ~Live(o)'
         /\ \A p \in Objs : p # o => (Live(p)' <=> Live(p))
         /\ wsize' = [wsize EXCEPT ![o] = 0]
  <1>1. /\ made' = made /\ key' = key /\ kind' = kind
        /\ sessions' = [sessions EXCEPT ![key[o]] = None]
        /\ wsize' = [wsize EXCEPT ![o] = 0]
    BY DEF CloseSession
  <1>2. \A p \in Objs : key[p] \in Ids /\ p # None
    BY DEF TInv, TypeOK, Objs, None
  <1>3. \A p \in Objs : sessions'[key'[p]] = IF key[p] = key[o] THEN None ELSE sessions[key[p]]
    BY <1>1, <1>2 DEF TInv, TypeOK
  <1> QED BY <1>1, <1>2, <1>3 DEF Live

(* What a step may do to the session table and the open sockets. *)
TableStep ==
  \/ UNCHANGED <<table, open, winsock>>
  \/ /\ \E knd \in {"listen", "accept", "connect"} : NewEntry(knd)
     /\ open' \subseteq open \cup {made + 1}
     /\ "assoc" \notin Faults => open' = open \cup {made + 1}
     /\ UNCHANGED winsock
  \/ \E o \in Objs : Live(o) /\ CloseSession(o)
  \/ Overrun
  \/ UNCHANGED table /\ open' = {} /\ winsock' # "up"

(* Every step changes them in one of these ways. *)
LEMMA StepTable ==
  ASSUME [Next]_vars
  PROVE  TableStep
  <1>1. CASE KernelStep
    BY <1>1 DEF KernelStep, PeerConnects, PeerSends, PeerCloses, PeerResets, CompleteRecv,
                CompleteSend, socks, TableStep
  <1>2. ASSUME NEW o \in Objs, DispatchRead(o) PROVE TableStep
    BY <1>2 DEF DispatchRead, DoRecv, Slot, Live, socks, TableStep
  <1>3. ASSUME NEW o \in Objs, DispatchWrite(o) PROVE TableStep
    BY <1>3 DEF DispatchWrite, PostSend, Slot, Live, socks, TableStep
  <1>4. ASSUME NEW o \in Objs, DispatchAccept(o) PROVE TableStep
    BY <1>4 DEF DispatchAccept, Accepted, socks, TableStep
  <1>5. CASE AfterRecv \/ AcceptNext \/ AcceptDone \/ AcceptFreed
    BY <1>5 DEF AfterRecv, AcceptNext, AcceptDone, AcceptFreed, Accepted, socks, TableStep
  <1>6. CASE ListenTo \/ Connected
    BY <1>6 DEF ListenTo, ListenFails, Connected, Accepted, socks, TableStep
  <1>7. ASSUME NEW o \in Objs, UserClose(o) \/ \E n \in 1..MaxW : SendTo(o, n) PROVE TableStep
    BY <1>7 DEF UserClose, SendTo, PostSend, socks, TableStep
  <1>8. CASE UNCHANGED vars
    BY <1>8 DEF vars, socks, TableStep
  <1> QED BY <1>1, <1>2, <1>3, <1>4, <1>5, <1>6, <1>7, <1>8 DEF Next, LoopStep, UserStep

(* The open sockets are those of the table. *)
OpenOK ==
  /\ \A o \in open : Live(o)
  /\ winsock = "up" /\ "assoc" \notin Faults => \A o \in Objs : Live(o) => o \in open

(* The table and its open sockets stay consistent. *)
LEMMA NextFiled ==
  ASSUME TInv, Filed, OpenOK, [Next]_vars
  PROVE  Filed' /\ OpenOK'
  <1>1. CASE UNCHANGED <<table, open, winsock>>
    BY <1>1 DEF table, Filed, OpenOK, Live
  <1>2. CASE Overrun
    BY <1>2 DEF Overrun, socks, Filed, OpenOK, Live, TInv, TypeOK, Objs, None
  <1>3. ASSUME NEW knd \in {"listen", "accept", "connect"}, NewEntry(knd),
               open' \subseteq open \cup {made + 1}, UNCHANGED winsock,
               "assoc" \notin Faults => open' = open \cup {made + 1}
        PROVE  Filed' /\ OpenOK'
    <2>1. ASSUME NEW i \in Ids, sessions'[i] # None
          PROVE  sessions'[i] <= made' /\ key'[sessions'[i]] = i
      <3>1. CASE i = IdGen
        BY <1>3, <3>1, NewEntryEffect DEF TInv, TypeOK, Objs
      <3>2. CASE i # IdGen
        <4>1. sessions'[i] = sessions[i] /\ sessions[i] # None
          BY <1>3, <2>1, <3>2, NewEntryEffect DEF TInv, TypeOK
        <4>2. sessions[i] <= made /\ key[sessions[i]] = i /\ sessions[i] \in Objs
          BY <4>1 DEF Filed, TInv, TypeOK
        <4>3. made \in Nat /\ sessions[i] # made + 1 /\ sessions[i] <= made + 1
          BY <4>2 DEF TInv, TypeOK, Objs
        <4> QED BY <1>3, <4>1, <4>2, <4>3, NewEntryEffect
      <3> QED BY <3>1, <3>2
    <2>2. made + 1 \in Objs
          /\ \A p \in Objs : IF p = made + 1 THEN Live(p)' ELSE Live(p)' <=> Live(p)
      BY <1>3, NewEntryEffect
    <2>3. OpenOK'
      BY <1>3, <2>2 DEF OpenOK, TInv, TypeOK
    <2> QED BY <2>1, <2>3 DEF Filed
  <1>4. ASSUME NEW o \in Objs, Live(o), CloseSession(o)
        PROVE  Filed' /\ OpenOK'
    <2>1. Filed'
      BY <1>4, CloseEffect DEF Filed, TInv, TypeOK
    <2>2. /\ ~Live(o)' /\ \A p \in Objs : p # o => (Live(p)' <=> Live(p))
          /\ open' = open \ {o} /\ winsock' = winsock
      BY <1>4, CloseEffect DEF CloseSession
    <2>3. OpenOK'
      BY <2>2 DEF OpenOK, TInv, TypeOK
    <2> QED BY <2>1, <2>3
  <1>5. CASE UNCHANGED table /\ open' = {} /\ winsock' # "up"
    BY <1>5 DEF table, Filed, OpenOK, Live
  <1> QED BY <1>1, <1>2, <1>3, <1>4, <1>5, StepTable DEF TableStep

(* What a step may do to the sockets made for AcceptEx. *)
SpareStep ==
  \/ UNCHANGED <<table, spare, lost>> /\ deaf \subseteq deaf' /\ self' = self
  \/ /\ UNCHANGED <<table, spare, lost>> /\ deaf \subseteq deaf'
     /\ self' \in {self, None} /\ pc = "onRecv"
  \/ UNCHANGED <<table, spare, lost>> /\ deaf \subseteq deaf' /\ pc = "idle"
  \/ "ioctl" \in Faults /\ lost' = lost \cup {None} /\ UNCHANGED <<table, spare, deaf, self>>
  \/ Overrun /\ UNCHANGED deaf
  \/ /\ \E knd \in {"accept", "connect"} : NewEntry(knd)
     /\ UNCHANGED <<spare, lost, self>> /\ deaf \subseteq deaf'
  \/ /\ NewEntry("listen")
     /\ spare' \subseteq spare \cup {made + 1} /\ spare \subseteq spare'
     /\ made + 1 \in spare' \cup deaf'
     /\ UNCHANGED <<lost, self>> /\ deaf \subseteq deaf'
  \/ \E l \in Objs :
       /\ pc = "idle" /\ NewEntry("accept")
       /\ spare' = spare \ {l} /\ l \in deaf' \cup {self'}
       /\ UNCHANGED lost /\ deaf \subseteq deaf'
  \/ \E o \in Objs : Live(o) /\ CloseSession(o) /\ UNCHANGED <<deaf, self>>
  \/ AcceptDone

(* Every step changes them in one of these ways. *)
LEMMA StepSpare ==
  ASSUME [Next]_vars
  PROVE  SpareStep
  <1>1. CASE KernelStep
    BY <1>1 DEF KernelStep, PeerConnects, PeerSends, PeerCloses, PeerResets, CompleteRecv,
                CompleteSend, socks, reads, ctl, SpareStep
  <1>2. ASSUME NEW o \in Objs, DispatchRead(o) PROVE SpareStep
    BY <1>2 DEF DispatchRead, DoRecv, PostRecv, Slot, Live, socks, ctl, SpareStep
  <1>3. ASSUME NEW o \in Objs, DispatchWrite(o) PROVE SpareStep
    BY <1>3 DEF DispatchWrite, PostSend, Unserved, Slot, Live, socks, reads, ctl, SpareStep
  <1>4. ASSUME NEW o \in Objs, DispatchAccept(o) PROVE SpareStep
    BY <1>4 DEF DispatchAccept, Accepted, PostRecv, socks, ctl, SpareStep
  <1>5. CASE AfterRecv \/ AcceptFreed
    BY <1>5 DEF AfterRecv, AcceptFreed, PostRecv, socks, reads, SpareStep
  <1>6. CASE AcceptNext
    BY <1>6 DEF AcceptNext, Accepted, PostRecv, socks, ctl, SpareStep
  <1>7. CASE ListenTo
    BY <1>7 DEF ListenTo, ListenFails, PostAccept, socks, ctl, SpareStep
  <1>8. CASE Connected
    BY <1>8 DEF Connected, Accepted, PostRecv, socks, ctl, SpareStep
  <1>9. ASSUME NEW o \in Objs, UserClose(o) \/ \E n \in 1..MaxW : SendTo(o, n) PROVE SpareStep
    BY <1>9 DEF UserClose, SendTo, PostSend, socks, reads, ctl, SpareStep
  <1>10. CASE UNCHANGED vars
    BY <1>10 DEF vars, socks, reads, ctl, SpareStep
  <1> QED BY <1>1, <1>2, <1>3, <1>4, <1>5, <1>6, <1>7, <1>8, <1>9, <1>10
          DEF Next, LoopStep, UserStep, SpareStep

(* A listener keeps its socket for AcceptEx, and a closed one loses it. *)
LEMMA NextSpare ==
  ASSUME TInv, SpareOfListener, LostIsKnown, ServedMade, ServesKind, Filed, [Next]_vars
  PROVE  SpareOfListener' /\ LostIsKnown'
  <1> DEFINE Listener(l) == Live(l) /\ kind[l] = "listen"
  <1>0. /\ made \in Nat /\ None \notin Objs /\ spare \subseteq Objs /\ lost \subseteq Objs \cup {None}
        /\ pc = "idle" => self = None
    BY DEF TInv, TypeOK, Serving, Objs, None
  <1>1. CASE UNCHANGED <<table, spare, lost>> /\ deaf \subseteq deaf'
             /\ \A l \in Objs : Listener(l) /\ l = self => self' = self
    BY <1>0, <1>1 DEF table, SpareOfListener, LostIsKnown, Live
  <1>2. CASE lost' = lost \cup {None} /\ "ioctl" \in Faults /\ UNCHANGED <<table, spare, deaf, self>>
    BY <1>2 DEF table, SpareOfListener, LostIsKnown, Live
  <1>3. CASE Overrun /\ UNCHANGED deaf
    BY <1>0, <1>3 DEF Overrun, socks, SpareOfListener, LostIsKnown, Live, Objs
  <1>4. ASSUME NEW knd \in {"listen", "accept", "connect"}, NewEntry(knd), UNCHANGED lost
        PROVE  /\ LostIsKnown'
               /\ made + 1 \in Objs
               /\ \A p \in Objs :
                    IF p = made + 1 THEN Live(p)' /\ kind'[p] = knd
                    ELSE kind'[p] = kind[p] /\ (Live(p)' <=> Live(p))
               /\ made + 1 \notin spare
    <2>1. /\ made + 1 \in Objs /\ made' = made + 1
          /\ \A p \in Objs :
               IF p = made + 1 THEN Live(p)' /\ kind'[p] = knd
               ELSE kind'[p] = kind[p] /\ (Live(p)' <=> Live(p))
      BY <1>4, NewEntryEffect
    <2>2. LostIsKnown'
      BY <1>0, <1>4, <2>1 DEF LostIsKnown, Objs
    <2>3. made + 1 \notin spare
      BY <1>0, <2>1 DEF SpareOfListener, Filed, Live, TInv, TypeOK
    <2> QED BY <2>1, <2>2, <2>3
  <1>5. ASSUME NEW knd \in {"accept", "connect"}, NewEntry(knd),
               UNCHANGED <<spare, lost, self>>, deaf \subseteq deaf'
        PROVE  SpareOfListener' /\ LostIsKnown'
    BY <1>0, <1>4, <1>5 DEF SpareOfListener
  <1>6. ASSUME NewEntry("listen"), spare' \subseteq spare \cup {made + 1}, spare \subseteq spare',
               made + 1 \in spare' \cup deaf', UNCHANGED <<lost, self>>, deaf \subseteq deaf'
        PROVE  SpareOfListener' /\ LostIsKnown'
    <2>1. /\ LostIsKnown' /\ made + 1 \in Objs
          /\ \A p \in Objs :
               IF p = made + 1 THEN Live(p)' /\ kind'[p] = "listen"
               ELSE kind'[p] = kind[p] /\ (Live(p)' <=> Live(p))
      BY <1>4, <1>6
    <2>2. ASSUME NEW l \in spare' PROVE Live(l)' /\ kind'[l] = "listen"
      BY <1>0, <1>6, <2>1 DEF SpareOfListener
    <2>3. ASSUME NEW l \in Objs, Live(l)', kind'[l] = "listen"
          PROVE  l \in spare' \cup deaf' \cup {self'}
      BY <1>6, <2>1, <2>3 DEF SpareOfListener
    <2> QED BY <2>1, <2>2, <2>3 DEF SpareOfListener
  <1>7. ASSUME NEW l \in Objs, pc = "idle", NewEntry("accept"), spare' = spare \ {l},
               l \in deaf' \cup {self'}, UNCHANGED lost, deaf \subseteq deaf'
        PROVE  SpareOfListener' /\ LostIsKnown'
    BY <1>0, <1>4, <1>7 DEF SpareOfListener
  <1>8. ASSUME NEW o \in Objs, Live(o), CloseSession(o), UNCHANGED <<deaf, self>>
        PROVE  SpareOfListener' /\ LostIsKnown'
    <2>1. /\ made' = made /\ kind' = kind /\ ~Live(o)'
          /\ \A p \in Objs : p # o => (Live(p)' <=> Live(p))
          /\ spare' = spare \ {o} /\ lost' = lost \cup (spare \cap {o})
      BY <1>8, CloseEffect DEF CloseSession
    <2>2. o <= made
      BY <1>0, <1>8 DEF Filed, Live, TInv, TypeOK
    <2>3. SpareOfListener'
      <3>1. ASSUME NEW l \in spare' PROVE Live(l)' /\ kind'[l] = "listen"
        BY <1>0, <2>1 DEF SpareOfListener
      <3>2. ASSUME NEW l \in Objs, Live(l)', kind'[l] = "listen"
            PROVE  l \in spare' \cup deaf' \cup {self'}
        <4>1. l # o /\ Live(l) /\ kind[l] = "listen"
          BY <2>1, <3>2
        <4>2. l \in spare \cup deaf \cup {self}
          BY <4>1 DEF SpareOfListener
        <4> QED BY <1>8, <2>1, <4>1, <4>2
      <3> QED BY <3>1, <3>2 DEF SpareOfListener
    <2>4. LostIsKnown'
      BY <1>0, <2>1, <2>2 DEF LostIsKnown, SpareOfListener
    <2> QED BY <2>3, <2>4
  <1>9. CASE AcceptDone
    <2>1. /\ self \in Objs /\ Listener(self) /\ UNCHANGED <<table, lost>>
          /\ spare' \in {spare, spare \cup {self}} /\ self \in spare' \cup deaf'
          /\ deaf \subseteq deaf'
      <3>1. self \in Objs /\ Listener(self)
        BY <1>9 DEF AcceptDone, ServesKind, TInv, Serving
      <3>2. UNCHANGED <<table, lost>> /\ PostAccept(self)
        BY <1>9 DEF AcceptDone
      <3>3. CASE UNCHANGED spare
        BY <3>1, <3>2, <3>3 DEF PostAccept, ServedMade, SpareOfListener
      <3>4. CASE spare' = spare \cup {self}
        BY <3>1, <3>2, <3>4 DEF PostAccept
      <3> QED BY <3>1, <3>2, <3>3, <3>4 DEF PostAccept
    <2> QED BY <1>0, <2>1 DEF table, SpareOfListener, LostIsKnown, Live
  <1> QED BY <1>0, <1>1, <1>2, <1>3, <1>5, <1>6, <1>7, <1>8, <1>9, StepSpare
          DEF SpareStep, ServesKind

(* The table and all its sockets. *)
LEMMA NextTable ==
  ASSUME TInv, TableOK, ServedMade, ServesKind, [Next]_vars
  PROVE  TableOK'
  <1>1. TableOK <=> Filed /\ OpenOK /\ SpareOfListener /\ LostIsKnown
    BY DEF TableOK, OpenOK
  <1>2. TableOK' <=> Filed' /\ OpenOK' /\ SpareOfListener' /\ LostIsKnown'
    BY DEF TableOK, OpenOK
  <1> QED BY <1>1, <1>2, NextFiled, NextSpare

(* How a step changes what the thread does, and for which session. *)
LEMMA StepServes ==
  ASSUME [Next]_vars
  PROVE  \/ pc' \notin {"onRecv", "onAccept"}
         \/ UNCHANGED <<pc, self>>
         \/ \E o \in Objs :
              \/ pc' = "onRecv" /\ self' = o /\ kind[o] # "listen" /\ UNCHANGED kind
              \/ pc' = "onAccept" /\ self' = o /\ kind[o] = "listen" /\ recvDone[o] > 0
                 /\ NewEntry("accept")
  <1>1. CASE KernelStep
    BY <1>1 DEF KernelStep, PeerConnects, PeerSends, PeerCloses, PeerResets, CompleteRecv,
                CompleteSend, ctl
  <1>2. CASE UserStep
    BY <1>2 DEF UserStep, ListenTo, ListenFails, Connected, UserClose, SendTo, Overrun, ctl
  <1>3. CASE AfterRecv \/ AcceptNext \/ AcceptDone \/ AcceptFreed
    BY <1>3 DEF AfterRecv, AcceptNext, AcceptDone, AcceptFreed, Overrun, ctl
  <1>4. CASE \E o \in Objs : DispatchWrite(o)
    BY <1>4 DEF DispatchWrite, Unserved, ctl
  <1>5. CASE \E o \in Objs : DispatchRead(o)
    BY <1>5 DEF DispatchRead, DoRecv, Unserved, table, ctl
  <1>6. CASE \E o \in Objs : DispatchAccept(o)
    BY <1>6 DEF DispatchAccept, Unserved, Overrun, ctl
  <1>7. CASE UNCHANGED vars
    BY <1>7 DEF vars, ctl
  <1> QED BY <1>1, <1>2, <1>3, <1>4, <1>5, <1>6, <1>7 DEF Next, LoopStep

(* A callback serves a session or a listener until it returns. *)
LEMMA NextServes ==
  ASSUME TInv, FreshReads, ServedMade, ServesKind, [Next]_vars
  PROVE  ServesKind'
  <1>1. \A o \in Objs : o <= made => kind'[o] = kind[o]
    <2>1. ASSUME NEW knd, NewEntry(knd), NEW o \in Objs, o <= made PROVE kind'[o] = kind[o]
      BY <2>1, NewEntryEffect DEF TInv, TypeOK
    <2> QED BY <2>1, StepTable DEF TableStep, table, CloseSession, Overrun
  <1>2. pc \in {"onRecv", "onAccept"} => self \in Objs /\ self <= made
    BY DEF ServedMade, TInv, Serving
  <1>3. \A o \in Objs : recvDone[o] > 0 => o <= made
    BY DEF FreshReads, TInv, TypeOK, Objs
  <1> QED BY <1>1, <1>2, <1>3, StepServes DEF ServesKind

-----------------------------------------------------------------------------
(* Sends *)

(* What a step may do to the sends. *)
SendsStep ==
  \/ UNCHANGED <<table, sends>>
  \/ UNCHANGED sends /\ \E knd : NewEntry(knd)
  \/ Overrun
  \/ \E o \in Objs : CompleteSend(o) \/ DispatchWrite(o) \/ \E n \in 1..MaxW : SendTo(o, n)
  \/ \E o \in Objs : Live(o) /\ CloseSession(o) /\ UNCHANGED <<sendPend, sendDone>>

(* Every step changes the sends in one of these ways. *)
LEMMA StepSends ==
  ASSUME [Next]_vars
  PROVE  SendsStep
  <1>1. CASE KernelStep
    BY <1>1 DEF KernelStep, PeerConnects, PeerSends, PeerCloses, PeerResets, CompleteRecv, SendsStep
  <1>2. ASSUME NEW o \in Objs, DispatchRead(o) PROVE SendsStep
    BY <1>2 DEF DispatchRead, DoRecv, Slot, Live, sends, SendsStep
  <1>3. ASSUME NEW o \in Objs, DispatchAccept(o) PROVE SendsStep
    BY <1>3 DEF DispatchAccept, SendsStep
  <1>4. CASE AfterRecv \/ AcceptNext \/ AcceptDone \/ AcceptFreed
    BY <1>4 DEF AfterRecv, AcceptNext, AcceptDone, AcceptFreed, sends, SendsStep
  <1>5. CASE ListenTo \/ Connected
    BY <1>5 DEF ListenTo, ListenFails, Connected, SendsStep
  <1>6. ASSUME NEW o \in Objs, UserClose(o) PROVE SendsStep
    BY <1>6 DEF UserClose, SendsStep
  <1>7. CASE UNCHANGED vars
    BY <1>7 DEF vars, SendsStep
  <1> QED BY <1>1, <1>2, <1>3, <1>4, <1>5, <1>6, <1>7 DEF Next, LoopStep, UserStep, SendsStep

(* A session of the table was made. *)
LEMMA LiveMade ==
  ASSUME TInv, Filed, NEW o \in Objs, Live(o)
  PROVE  o <= made
  BY DEF TInv, TypeOK, Filed, Live, Objs, None

(* postSend leaves a session it serves with as many sends as it needs. *)
LEMMA PostSendEffect ==
  ASSUME TInv, NEW o \in Objs, Live(o), NEW w \in Nat, PostSend(o, w)
  PROVE  /\ made' = made
         /\ \A p \in Objs : p # o =>
              (Live(p)' => Live(p)) /\ wsize'[p] = wsize[p] /\ sendPend'[p] = sendPend[p]
         /\ Live(o)' => sendPend'[o] = IF wsize'[o] > 0 THEN sendPend[o] + 1 ELSE sendPend[o]
  <1>1. CASE CloseSession(o) /\ UNCHANGED sendPend
    BY <1>1, CloseEffect DEF TInv, TypeOK
  <1>2. CASE wsize' = [wsize EXCEPT ![o] = 0] /\ UNCHANGED <<table, socks, net, sendPend>>
    BY <1>2 DEF TInv, TypeOK, table, Live
  <1>3. ASSUME NEW r \in 1..w, wsize' = [wsize EXCEPT ![o] = r],
               sendPend' = [sendPend EXCEPT ![o] = @ + 1], UNCHANGED <<table, socks, net>>
        PROVE  /\ made' = made
               /\ \A p \in Objs : p # o =>
                    (Live(p)' => Live(p)) /\ wsize'[p] = wsize[p] /\ sendPend'[p] = sendPend[p]
               /\ sendPend'[o] = sendPend[o] + 1 /\ wsize'[o] > 0
    BY <1>3 DEF TInv, TypeOK, table, Live
  <1> QED BY <1>1, <1>2, <1>3 DEF PostSend

(* One send per session with unsent bytes, after every step. *)
LEMMA NextSends ==
  ASSUME TInv, Filed, FreshSends, OneSendWhileUnsent, [Next]_vars
  PROVE  FreshSends' /\ OneSendWhileUnsent'
  <1>1. CASE UNCHANGED <<table, sends>>
    BY <1>1 DEF table, sends, Live, FreshSends, OneSendWhileUnsent
  <1>2. CASE Overrun
    <2>1. made' = made + 1 /\ made \in Nat /\ UNCHANGED <<sessions, key, wsize, sendPend, sendDone>>
      BY <1>2 DEF Overrun, TInv, TypeOK
    <2>2. FreshSends'
      BY <2>1 DEF FreshSends, Objs
    <2>3. OneSendWhileUnsent'
      BY <2>1 DEF OneSendWhileUnsent, Live
    <2> QED BY <2>2, <2>3
  <1>3. ASSUME NEW knd, NewEntry(knd), UNCHANGED sends
        PROVE  FreshSends' /\ OneSendWhileUnsent'
    <2>1. made' = made + 1 /\ made \in Nat
      BY <1>3, NewEntryEffect DEF TInv, TypeOK
    <2>2. FreshSends'
      BY <1>3, <2>1 DEF FreshSends, sends, Objs
    <2>3. ASSUME NEW p \in Objs, Live(p)'
          PROVE  sendPend'[p] + sendDone'[p] = IF wsize'[p] > 0 THEN 1 ELSE 0
      <3>1. CASE p = made + 1
        BY <1>3, <2>1, <3>1 DEF FreshSends, sends
      <3>2. CASE p # made + 1
        BY <1>3, <2>3, <3>2, NewEntryEffect DEF OneSendWhileUnsent, sends
      <3> QED BY <3>1, <3>2
    <2> QED BY <2>2, <2>3 DEF OneSendWhileUnsent
  <1>4. ASSUME NEW o \in Objs, CompleteSend(o)
        PROVE  FreshSends' /\ OneSendWhileUnsent'
    BY <1>4 DEF CompleteSend, table, Live, FreshSends, OneSendWhileUnsent, TInv, TypeOK
  <1>5. ASSUME NEW o \in Objs, DispatchWrite(o)
        PROVE  FreshSends' /\ OneSendWhileUnsent'
    <2>1. sendDone[o] > 0 /\ sendDone' = [sendDone EXCEPT ![o] = @ - 1] /\ o <= made
      BY <1>5 DEF DispatchWrite, FreshSends, TInv, TypeOK, Objs
    <2>2. CASE ~Live(o) /\ UNCHANGED <<table, wsize, sendPend>>
      BY <2>1, <2>2 DEF table, Live, FreshSends, OneSendWhileUnsent, TInv, TypeOK
    <2>3. CASE Live(o) /\ wsize[o] > 0 /\ PostSend(o, wsize[o])
      <3>1. /\ made' = made
            /\ \A p \in Objs : p # o =>
                 (Live(p)' => Live(p)) /\ wsize'[p] = wsize[p] /\ sendPend'[p] = sendPend[p]
            /\ Live(o)' => sendPend'[o] = IF wsize'[o] > 0 THEN sendPend[o] + 1 ELSE sendPend[o]
        BY <2>3, PostSendEffect DEF TInv, TypeOK
      <3>2. sendPend[o] = 0 /\ sendDone[o] = 1
        BY <2>1, <2>3 DEF OneSendWhileUnsent, TInv, TypeOK
      <3>3. \A p \in Objs : sendDone'[p] = IF p = o THEN 0 ELSE sendDone[p]
        BY <2>1, <3>2 DEF TInv, TypeOK
      <3>4. FreshSends'
        BY <2>1, <3>1, <3>3 DEF FreshSends, TInv, TypeOK, Objs
      <3>5. OneSendWhileUnsent'
        BY <3>1, <3>2, <3>3 DEF OneSendWhileUnsent
      <3> QED BY <3>4, <3>5
    <2>4. CASE Live(o) /\ wsize[o] = 0
      BY <2>1, <2>4 DEF OneSendWhileUnsent, TInv, TypeOK
    <2>5. wsize[o] \in Nat
      BY DEF TInv, TypeOK
    <2> QED BY <1>5, <2>2, <2>3, <2>4, <2>5 DEF DispatchWrite, Unserved, Slot, Live
  <1>6. ASSUME NEW o \in Objs, NEW n \in 1..MaxW, SendTo(o, n)
        PROVE  FreshSends' /\ OneSendWhileUnsent'
    <2>1. Live(o) /\ UNCHANGED sendDone /\ o <= made
      BY <1>6, LiveMade DEF SendTo
    <2>2. CASE wsize[o] > 0 /\ wsize' = [wsize EXCEPT ![o] = @ + n]
               /\ UNCHANGED <<table, socks, net, sendPend>>
      BY <2>1, <2>2 DEF table, Live, FreshSends, OneSendWhileUnsent, TInv, TypeOK
    <2>3. CASE wsize[o] = 0 /\ PostSend(o, n)
      <3>1. /\ made' = made
            /\ \A p \in Objs : p # o =>
                 (Live(p)' => Live(p)) /\ wsize'[p] = wsize[p] /\ sendPend'[p] = sendPend[p]
            /\ Live(o)' => sendPend'[o] = IF wsize'[o] > 0 THEN sendPend[o] + 1 ELSE sendPend[o]
        BY <2>1, <2>3, PostSendEffect
      <3>2. sendPend[o] = 0 /\ sendDone[o] = 0
        BY <2>1, <2>3 DEF OneSendWhileUnsent, TInv, TypeOK
      <3>3. FreshSends'
        BY <2>1, <3>1 DEF FreshSends, TInv, TypeOK, Objs
      <3>4. OneSendWhileUnsent'
        BY <2>1, <3>1, <3>2 DEF OneSendWhileUnsent
      <3> QED BY <3>3, <3>4
    <2> QED BY <1>6, <2>2, <2>3 DEF SendTo
  <1>7. ASSUME NEW o \in Objs, Live(o), CloseSession(o), UNCHANGED <<sendPend, sendDone>>
        PROVE  FreshSends' /\ OneSendWhileUnsent'
    BY <1>7, CloseEffect DEF FreshSends, OneSendWhileUnsent, TInv, TypeOK
  <1> QED BY <1>1, <1>2, <1>3, <1>4, <1>5, <1>6, <1>7, StepSends DEF SendsStep

-----------------------------------------------------------------------------
(* Reads *)

ReadsInv == FreshReads /\ ServedMade /\ OneReadWhileLive

(* What a step may do to the reads. *)
ReadsStep ==
  \/ UNCHANGED <<table, reads, self>> /\ pc' \in {pc, "stale", "freed"}
  \/ \E o \in Objs : Live(o) /\ CloseSession(o) /\ UNCHANGED <<reads, ctl>>
  \/ \E o \in Objs : CompleteRecv(o) \/ DispatchRead(o) \/ DispatchAccept(o)
  \/ AfterRecv
  \/ AcceptDone
  \/ Overrun /\ UNCHANGED <<recvPend, recvDone, deaf>>
  \/ /\ \E knd : NewEntry(knd)
     /\ UNCHANGED <<recvDone, pc, self>>
     /\ Posted(made + 1)

(* Every step changes the reads in one of these ways. *)
LEMMA StepReads ==
  ASSUME [Next]_vars
  PROVE  ReadsStep
  <1>1. CASE KernelStep
    BY <1>1 DEF KernelStep, PeerConnects, PeerSends, PeerCloses, PeerResets, CompleteSend,
                ReadsStep, ctl
  <1>2. ASSUME NEW o \in Objs, DispatchWrite(o) PROVE ReadsStep
    BY <1>2 DEF DispatchWrite, PostSend, Unserved, Slot, Live, ctl, ReadsStep
  <1>3. CASE AcceptNext
    BY <1>3, PostsRead DEF AcceptNext, Accepted, Posted, ctl, ReadsStep
  <1>4. CASE ListenTo \/ Connected
    BY <1>4, PostsRead DEF ListenTo, ListenFails, Connected, Accepted, Posted, reads, ctl, ReadsStep
  <1>5. ASSUME NEW o \in Objs, UserClose(o) \/ \E n \in 1..MaxW : SendTo(o, n) PROVE ReadsStep
    BY <1>5 DEF UserClose, SendTo, PostSend, ctl, ReadsStep
  <1>6. CASE UNCHANGED vars
    BY <1>6 DEF vars, ctl, ReadsStep
  <1>7. CASE AcceptFreed
    BY <1>7 DEF AcceptFreed, ReadsStep
  <1> QED BY <1>1, <1>2, <1>3, <1>4, <1>5, <1>6, <1>7 DEF Next, LoopStep, UserStep, ReadsStep

(* A session just made has one read, or is deaf. *)
LEMMA MadeReads ==
  ASSUME TInv, Filed, ReadsInv, NEW knd, NewEntry(knd), UNCHANGED <<recvDone, pc, self>>,
         Posted(made + 1)
  PROVE  ReadsInv'
  <1>1. made' = made + 1 /\ made \in Nat /\ made + 1 \in Objs
    BY NewEntryEffect DEF TInv, TypeOK
  <1>2. recvPend[made + 1] = 0 /\ recvDone[made + 1] = 0 /\ made + 1 \notin deaf
    BY <1>1 DEF ReadsInv, FreshReads
  <1>3. /\ \A p \in Objs : p # made + 1 =>
             recvPend'[p] = recvPend[p] /\ (p \in deaf' <=> p \in deaf)
        /\ recvPend'[made + 1] = IF made + 1 \in deaf' THEN 0 ELSE 1
    BY <1>1, <1>2 DEF Posted, TInv, TypeOK
  <1>4. FreshReads'
    BY <1>1, <1>3 DEF ReadsInv, FreshReads, Objs
  <1>5. pc \in {"onRecv", "onAccept"} => self \in Objs /\ self <= made /\ self \notin deaf
    BY DEF ReadsInv, ServedMade, TInv, Serving
  <1>6. ServedMade'
    BY <1>1, <1>3, <1>5 DEF ServedMade, Objs
  <1>7. ASSUME NEW p \in Objs, Live(p)', pc' \in UserPc
        PROVE  recvPend'[p] + recvDone'[p] = IF p \in deaf' \/ p = self' THEN 0 ELSE 1
    <2>1. CASE p = made + 1
      <3>1. self # made + 1
        BY <1>1, <1>5, <1>7 DEF UserPc, TInv, Serving, Objs, None
      <3> QED BY <1>2, <1>3, <2>1, <3>1
    <2>2. CASE p # made + 1
      BY <1>3, <1>7, <2>2, NewEntryEffect DEF ReadsInv, OneReadWhileLive
    <2> QED BY <2>1, <2>2
  <1> QED BY <1>4, <1>6, <1>7 DEF ReadsInv, OneReadWhileLive

(* Serving a read: into onRecv, back to waiting, or closed. *)
LEMMA DispatchReadReads ==
  ASSUME TInv, Filed, ReadsInv, NEW o \in Objs, DispatchRead(o)
  PROVE  ReadsInv'
  <1>1. /\ pc = "idle" /\ self = None /\ o # None
        /\ recvDone[o] > 0 /\ recvDone' = [recvDone EXCEPT ![o] = @ - 1]
        /\ o <= made /\ made \in Nat
    BY DEF DispatchRead, ReadsInv, FreshReads, TInv, TypeOK, Serving, Objs, None
  <1>2. CASE Unserved(o) /\ UNCHANGED <<table, recvPend, deaf>>
    <2>1. ~Live(o) /\ UNCHANGED self /\ pc' \in {pc, "stale"}
      BY <1>2 DEF Unserved, Slot, Live
    <2>2. FreshReads'
      BY <1>1, <1>2 DEF ReadsInv, FreshReads, table, TInv, TypeOK
    <2>3. ServedMade' /\ OneReadWhileLive'
      BY <1>1, <1>2, <2>1 DEF ReadsInv, ServedMade, OneReadWhileLive, table, Live, TInv, TypeOK,
                              UserPc
    <2> QED BY <2>2, <2>3 DEF ReadsInv
  <1>3. CASE Live(o) /\ DoRecv(o)
    <2>1. recvPend[o] = 0 /\ recvDone[o] = 1 /\ o \notin deaf
      BY SMTT(30), <1>1, <1>3 DEF ReadsInv, OneReadWhileLive, UserPc, TInv, TypeOK
    <2>2. \A p \in Objs : recvDone'[p] = IF p = o THEN 0 ELSE recvDone[p]
      BY <1>1, <2>1 DEF TInv, TypeOK
    <2>3. CASE pc' = "onRecv" /\ self' = o /\ UNCHANGED <<table, recvPend, deaf>>
      <3>1. FreshReads' /\ ServedMade'
        BY <1>1, <2>1, <2>2, <2>3 DEF ReadsInv, FreshReads, ServedMade, table
      <3>2. OneReadWhileLive'
        BY <1>1, <2>1, <2>2, <2>3 DEF ReadsInv, OneReadWhileLive, table, Live, UserPc, Objs, None
      <3> QED BY <3>1, <3>2 DEF ReadsInv
    <2>4. CASE Posted(o) /\ UNCHANGED <<table, ctl>>
      <3>1. /\ \A p \in Objs : p # o => recvPend'[p] = recvPend[p] /\ (p \in deaf' <=> p \in deaf)
            /\ recvPend'[o] = IF o \in deaf' THEN 0 ELSE 1
        BY <2>1, <2>4 DEF Posted, TInv, TypeOK
      <3>2. FreshReads' /\ ServedMade'
        BY <1>1, <2>2, <2>4, <3>1 DEF ReadsInv, FreshReads, ServedMade, table, ctl, Objs
      <3>3. OneReadWhileLive'
        BY <1>1, <2>2, <2>4, <3>1 DEF ReadsInv, OneReadWhileLive, table, ctl, Live, UserPc
      <3> QED BY <3>2, <3>3 DEF ReadsInv
    <2>5. CASE CloseSession(o) /\ UNCHANGED <<recvPend, deaf, ctl>>
      <3>1. made' = made /\ ~Live(o)' /\ \A p \in Objs : p # o => (Live(p)' <=> Live(p))
        BY <1>3, <2>5, CloseEffect
      <3>2. FreshReads' /\ ServedMade'
        BY <1>1, <2>2, <2>5, <3>1 DEF ReadsInv, FreshReads, ServedMade, ctl, Objs
      <3>3. OneReadWhileLive'
        BY <1>1, <2>2, <2>5, <3>1 DEF ReadsInv, OneReadWhileLive, ctl, UserPc
      <3> QED BY <3>2, <3>3 DEF ReadsInv
    <2> QED BY <1>3, <2>3, <2>4, <2>5, PostsRead DEF DoRecv
  <1> QED BY <1>2, <1>3 DEF DispatchRead, Slot, Live

(* Serving an accept: the listener waits for the end of its callback. *)
LEMMA DispatchAcceptReads ==
  ASSUME TInv, Filed, ReadsInv, NEW l \in Objs, DispatchAccept(l)
  PROVE  ReadsInv'
  <1>1. /\ pc = "idle" /\ self = None /\ l # None
        /\ recvDone[l] > 0 /\ recvDone' = [recvDone EXCEPT ![l] = @ - 1]
        /\ l <= made /\ made \in Nat
    BY DEF DispatchAccept, ReadsInv, FreshReads, TInv, TypeOK, Serving, Objs, None
  <1>2. CASE Unserved(l) /\ UNCHANGED <<table, recvPend, deaf>>
    <2>1. ~Live(l) /\ UNCHANGED self /\ pc' \in {pc, "stale"}
      BY <1>2 DEF Unserved, Slot, Live
    <2>2. FreshReads'
      BY <1>1, <1>2 DEF ReadsInv, FreshReads, table, TInv, TypeOK
    <2>3. ServedMade' /\ OneReadWhileLive'
      BY <1>1, <1>2, <2>1 DEF ReadsInv, ServedMade, OneReadWhileLive, table, Live, TInv, TypeOK,
                              UserPc
    <2> QED BY <2>2, <2>3 DEF ReadsInv
  <1>3. CASE Overrun /\ UNCHANGED <<recvPend, deaf>>
    <2>1. made' = made + 1 /\ pc' = "overrun"
      BY <1>3 DEF Overrun
    <2>2. FreshReads'
      BY <1>1, <1>3, <2>1 DEF ReadsInv, FreshReads, TInv, TypeOK, Objs
    <2> QED BY <2>1, <2>2 DEF ReadsInv, ServedMade, OneReadWhileLive, UserPc
  <1>4. CASE Live(l) /\ NewEntry("accept")
    <2>1. recvPend[l] = 0 /\ recvDone[l] = 1 /\ l \notin deaf
      BY <1>1, <1>4 DEF ReadsInv, OneReadWhileLive, UserPc, TInv, TypeOK
    <2>2. \A p \in Objs : recvDone'[p] = IF p = l THEN 0 ELSE recvDone[p]
      BY <1>1, <2>1 DEF TInv, TypeOK
    <2>3. /\ made' = made + 1 /\ made + 1 \in Objs /\ l # made + 1
          /\ \A p \in Objs : p # made + 1 => (Live(p)' <=> Live(p))
      BY <1>1, <1>4, NewEntryEffect DEF Objs
    <2>4. recvPend[made + 1] = 0 /\ recvDone[made + 1] = 0 /\ made + 1 \notin deaf
      BY <1>1, <2>3 DEF ReadsInv, FreshReads
    <2>5. CASE Posted(made + 1) /\ pc' = "onAccept" /\ self' = l
      <3>1. /\ \A p \in Objs : p # made + 1 =>
                 recvPend'[p] = recvPend[p] /\ (p \in deaf' <=> p \in deaf)
            /\ recvPend'[made + 1] = IF made + 1 \in deaf' THEN 0 ELSE 1
        BY <2>3, <2>4, <2>5 DEF Posted, TInv, TypeOK
      <3>2. FreshReads'
        BY <1>1, <2>2, <2>3, <3>1 DEF ReadsInv, FreshReads, Objs
      <3>3. ServedMade'
        BY <1>1, <2>1, <2>3, <2>5, <3>1 DEF ServedMade, Objs
      <3>4. OneReadWhileLive'
        <4>1. ASSUME NEW p \in Objs, Live(p)'
              PROVE  recvPend'[p] + recvDone'[p] = IF p \in deaf' \/ p = self' THEN 0 ELSE 1
          <5>1. CASE p = made + 1
            BY <2>2, <2>3, <2>4, <2>5, <3>1, <5>1
          <5>2. CASE p = l
            BY <2>1, <2>2, <2>3, <2>5, <3>1, <5>2
          <5>3. CASE p # made + 1 /\ p # l
            <6>1. recvPend[p] + recvDone[p] = IF p \in deaf THEN 0 ELSE 1
              BY <1>1, <2>3, <4>1, <5>3 DEF ReadsInv, OneReadWhileLive, UserPc, Objs, None
            <6> QED BY <2>2, <2>5, <3>1, <5>3, <6>1
          <5> QED BY <5>1, <5>2, <5>3
        <4> QED BY <4>1 DEF OneReadWhileLive
      <3> QED BY <3>2, <3>3, <3>4 DEF ReadsInv
    <2>6. CASE deaf' = deaf \cup {l, made + 1} /\ UNCHANGED <<recvPend, ctl>>
      <3>1. FreshReads' /\ ServedMade'
        BY <1>1, <2>2, <2>3, <2>6 DEF ReadsInv, FreshReads, ServedMade, ctl, Objs
      <3>2. OneReadWhileLive'
        BY <1>1, <2>1, <2>2, <2>3, <2>4, <2>6 DEF ReadsInv, OneReadWhileLive, ctl, UserPc
      <3> QED BY <3>1, <3>2 DEF ReadsInv
    <2> QED BY <1>4, <2>5, <2>6, <1>1, <2>3, <1>2, <1>3, PostsRead DEF DispatchAccept, Accepted, ctl
  <1> QED BY <1>2, <1>3, <1>4 DEF DispatchAccept, Slot, Live

(* One read per session that is not deaf, after every step. *)
LEMMA NextReads ==
  ASSUME TInv, Filed, ReadsInv, [Next]_vars
  PROVE  ReadsInv'
  <1>1. CASE UNCHANGED <<table, reads, self>> /\ pc' \in {pc, "stale", "freed"}
    BY <1>1 DEF table, reads, ReadsInv, FreshReads, ServedMade, OneReadWhileLive, Live, UserPc
  <1>2. ASSUME NEW o \in Objs, Live(o), CloseSession(o), UNCHANGED <<reads, ctl>>
        PROVE  ReadsInv'
    <2>1. made' = made /\ ~Live(o)' /\ \A p \in Objs : p # o => (Live(p)' <=> Live(p))
      BY <1>2, CloseEffect
    <2> QED BY <1>2, <2>1 DEF reads, ctl, ReadsInv, FreshReads, ServedMade, OneReadWhileLive
  <1>3. ASSUME NEW o \in Objs, CompleteRecv(o) PROVE ReadsInv'
    <2>1. recvPend[o] > 0 /\ UNCHANGED <<table, deaf, ctl>>
      BY <1>3 DEF CompleteRecv
    <2>2. \A p \in Objs :
            /\ recvPend'[p] = IF p = o THEN recvPend[p] - 1 ELSE recvPend[p]
            /\ recvDone'[p] = IF p = o THEN recvDone[p] + 1 ELSE recvDone[p]
            /\ recvPend[p] \in Nat /\ recvDone[p] \in Nat
      BY <1>3 DEF CompleteRecv, TInv, TypeOK
    <2>3. FreshReads' /\ ServedMade'
      BY <2>1, <2>2 DEF table, ctl, ReadsInv, FreshReads, ServedMade, Objs
    <2>4. OneReadWhileLive'
      BY <2>1, <2>2 DEF table, ctl, ReadsInv, OneReadWhileLive, Live
    <2> QED BY <2>3, <2>4 DEF ReadsInv
  <1>4. CASE AfterRecv \/ AcceptDone
    <2>1. /\ self \in Objs /\ self <= made /\ self \notin deaf
          /\ UNCHANGED <<table, recvDone>> /\ pc \in {"onRecv", "onAccept"}
      BY <1>4 DEF AfterRecv, AcceptDone, ReadsInv, ServedMade, TInv, Serving
    <2>2. CASE pc' = "crashed" /\ UNCHANGED <<self, recvPend, deaf>>
      BY <2>1, <2>2 DEF table, ReadsInv, FreshReads, ServedMade, OneReadWhileLive, UserPc
    <2>3. CASE ~Live(self) /\ pc' = "idle" /\ self' = None /\ UNCHANGED <<recvPend, deaf>>
      BY <2>1, <2>3 DEF table, ReadsInv, FreshReads, ServedMade, OneReadWhileLive, Live, UserPc,
                        Objs, None
    <2>4. CASE pc' = "idle" /\ self' = None
               /\ Posted(self)
      <3>1. /\ \A p \in Objs : p # self =>
                 recvPend'[p] = recvPend[p] /\ (p \in deaf' <=> p \in deaf)
            /\ recvPend'[self] = IF self \in deaf' THEN recvPend[self] ELSE recvPend[self] + 1
        BY <2>1, <2>4 DEF Posted, TInv, TypeOK
      <3>2. FreshReads' /\ ServedMade'
        BY <2>1, <2>4, <3>1 DEF table, ReadsInv, FreshReads, ServedMade, TInv, TypeOK, Objs
      <3>3. ASSUME NEW p \in Objs, Live(p)'
            PROVE  recvPend'[p] + recvDone'[p] = IF p \in deaf' THEN 0 ELSE 1
        <4>1. Live(p) /\ recvDone'[p] = recvDone[p]
          BY <2>1, <3>3 DEF table, Live
        <4>2. recvPend[p] + recvDone[p] = IF p \in deaf \/ p = self THEN 0 ELSE 1
          BY <2>1, <4>1 DEF ReadsInv, OneReadWhileLive, UserPc
        <4>3. recvPend[p] \in Nat /\ recvDone[p] \in Nat
          BY DEF TInv, TypeOK
        <4> QED BY <2>1, <3>1, <4>1, <4>2, <4>3
      <3> QED BY <2>4, <3>2, <3>3 DEF ReadsInv, OneReadWhileLive, Objs, None
    <2> QED BY <1>4, <2>1, <2>2, <2>3, <2>4, PostsRead DEF AfterRecv, AcceptDone, Slot, Live, Objs, None
  <1>5. CASE Overrun /\ UNCHANGED <<recvPend, recvDone, deaf>>
    <2>1. made' = made + 1 /\ pc' = "overrun" /\ made \in Nat
      BY <1>5 DEF Overrun, TInv, TypeOK
    <2> QED BY <1>5, <2>1 DEF ReadsInv, FreshReads, ServedMade, OneReadWhileLive, UserPc, Objs
  <1> QED BY <1>1, <1>2, <1>3, <1>4, <1>5, MadeReads, DispatchReadReads, DispatchAcceptReads,
             StepReads DEF ReadsStep

-----------------------------------------------------------------------------
(* The first lap *)

(* IdGen gives out the ids in order as long as none was used twice. *)
LEMMA FirstIds ==
  ASSUME TInv, Filed, FirstLap, made < MaxId
  PROVE  IdGen = made
  <1>1. made \in Ids /\ curId + 1 = made /\ MaxId \in Nat /\ MaxId >= 2
    BY IocpAssumption DEF TInv, TypeOK, FirstLap, Ids
  <1>2. made % MaxId = made
    BY <1>1 DEF Ids
  <1>3. sessions[made] = None
    <2>1. SUFFICES ASSUME sessions[made] # None PROVE FALSE
      OBVIOUS
    <2>2. sessions[made] \in Objs /\ sessions[made] <= made /\ key[sessions[made]] = made
      BY <1>1, <2>1 DEF TInv, TypeOK, Filed
    <2>3. key[sessions[made]] = sessions[made] - 1
      BY <1>1, <2>2 DEF FirstLap, TInv, TypeOK
    <2> QED BY <1>1, <2>2, <2>3 DEF Objs, Ids
  <1>4. 1 \in FreeSteps /\ FreeSteps \subseteq Nat /\ \A y \in FreeSteps : 1 <= y
    BY <1>1, <1>2, <1>3 DEF FreeSteps
  <1>5. Min(FreeSteps) \in FreeSteps /\ \A y \in FreeSteps : Min(FreeSteps) <= y
    BY <1>4, MinNat
  <1>6. Min(FreeSteps) = 1
    <2>1. Min(FreeSteps) \in Nat /\ Min(FreeSteps) <= 1 /\ 1 <= Min(FreeSteps)
      BY <1>4, <1>5
    <2> QED BY <2>1
  <1> QED BY <1>1, <1>2, <1>4, <1>6 DEF IdGen

(* Until then no entry is found for a completion of another session. *)
LEMMA FirstSlot ==
  ASSUME TInv, Filed, FirstLap, made <= MaxId, NEW o \in Objs, o <= made, Slot(o) # None
  PROVE  Slot(o) = o
  <1>1. Slot(o) \in Objs /\ Slot(o) <= made /\ key[Slot(o)] = key[o]
    BY DEF TInv, TypeOK, Filed, Slot
  <1> QED BY <1>1 DEF FirstLap, Objs

(* How a step may leave the code defined, or not. *)
LEMMA StepPc ==
  ASSUME [Next]_vars, TInv
  PROVE  \/ pc' = pc \/ pc' \in UserPc \cup {"freed"}
         \/ Overrun
         \/ \E o \in Objs : (recvDone[o] > 0 \/ sendDone[o] > 0) /\ Slot(o) \notin {None, o}
         \/ pc = "onRecv" /\ Slot(self) \notin {None, self}
  <1>1. CASE KernelStep
    BY <1>1 DEF KernelStep, PeerConnects, PeerSends, PeerCloses, PeerResets, CompleteRecv,
                CompleteSend, ctl
  <1>2. ASSUME NEW o \in Objs, DispatchRead(o)
        PROVE  pc' = pc \/ pc' \in UserPc \/ (recvDone[o] > 0 /\ Slot(o) \notin {None, o})
    BY <1>2 DEF DispatchRead, DoRecv, Unserved, ctl, UserPc
  <1>3. ASSUME NEW o \in Objs, DispatchWrite(o)
        PROVE  pc' = pc \/ (sendDone[o] > 0 /\ Slot(o) \notin {None, o})
    BY <1>3 DEF DispatchWrite, Unserved, ctl
  <1>4. ASSUME NEW o \in Objs, DispatchAccept(o)
        PROVE  pc' = pc \/ pc' \in UserPc \/ Overrun \/ (recvDone[o] > 0 /\ Slot(o) \notin {None, o})
    BY <1>4 DEF DispatchAccept, Unserved, ctl, UserPc
  <1>5. CASE AfterRecv \/ AcceptNext \/ AcceptDone \/ AcceptFreed
    BY <1>5 DEF AfterRecv, AcceptNext, AcceptDone, AcceptFreed, ctl, UserPc
  <1>6. CASE UserStep
    BY <1>6 DEF UserStep, ListenTo, ListenFails, Connected, UserClose, SendTo, ctl
  <1>7. CASE UNCHANGED vars
    BY <1>7 DEF vars, ctl
  <1> QED BY <1>1, <1>2, <1>3, <1>4, <1>5, <1>6, <1>7 DEF Next, LoopStep

(* Objects and ids stay in step until the first id is used again. *)
LEMMA NextFirstLap ==
  ASSUME TInv, Filed, FreshSends, FreshReads, ServedMade, FirstLap, [Next]_vars
  PROVE  FirstLap'
  <1>1. made \in Nat /\ MaxId \in Nat
    BY IocpAssumption DEF TInv, TypeOK
  <1>2. SUFFICES ASSUME made' <= MaxId
                 PROVE  /\ pc' \in UserPc \cup {"freed"}
                        /\ curId' = made' - 1
                        /\ \A o \in Objs : o <= made' => key'[o] = o - 1
    BY DEF FirstLap
  <1>3. made' \in {made, made + 1}
    BY StepTable DEF TableStep, table, Overrun, NewEntry, CloseSession
  <1>4. made <= MaxId /\ pc \in UserPc \cup {"freed"} /\ curId = made - 1
        /\ \A o \in Objs : o <= made => key[o] = o - 1
    BY <1>1, <1>2, <1>3 DEF FirstLap
  <1>5. ~Overrun
    BY <1>1, <1>2, FirstIds DEF Overrun
  <1>6. pc' \in UserPc \cup {"freed"}
    <2>1. \A o \in Objs : recvDone[o] > 0 \/ sendDone[o] > 0 => Slot(o) \in {None, o}
      <3> SUFFICES ASSUME NEW o \in Objs, recvDone[o] > 0 \/ sendDone[o] > 0, Slot(o) # None
                   PROVE  Slot(o) = o
        OBVIOUS
      <3>1. o <= made
        BY <1>1 DEF FreshSends, FreshReads, Objs
      <3> QED BY <1>4, <3>1, FirstSlot
    <2>2. pc = "onRecv" => Slot(self) \in {None, self}
      BY <1>4, FirstSlot DEF ServedMade, TInv, Serving
    <2> QED BY <1>4, <1>5, <2>1, <2>2, StepPc
  <1>7. ASSUME NEW knd, NewEntry(knd)
        PROVE  curId' = made' - 1 /\ \A o \in Objs : o <= made' => key'[o] = o - 1
    <2>1. made < MaxId /\ made' = made + 1
      BY <1>1, <1>2, <1>7 DEF NewEntry
    <2>2. IdGen = made /\ curId' = IdGen
      BY <1>7, <2>1, FirstIds DEF NewEntry
    <2>3. key' = [key EXCEPT ![made + 1] = made]
      BY <1>7, <2>2 DEF NewEntry
    <2>4. \A o \in Objs : key'[o] = IF o = made + 1 THEN made ELSE key[o]
      BY <2>3 DEF TInv, TypeOK
    <2> QED BY <1>1, <1>4, <2>1, <2>2, <2>4 DEF Objs
  <1>8. CASE UNCHANGED <<made, curId, key>>
    BY <1>4, <1>6, <1>8
  <1> QED BY <1>5, <1>6, <1>7, <1>8, StepTable DEF TableStep, table, CloseSession

-----------------------------------------------------------------------------
(* The theorems *)

(* The invariant holds initially ... *)
THEOREM InitIInv == Init => IInv
  <1> SUFFICES ASSUME Init PROVE IInv
    OBVIOUS
  <1>1. /\ \A o \in Objs : ~Live(o) /\ o > made
        /\ Filed /\ FreshSends /\ FreshReads
    BY IocpAssumption DEF Init, Filed, FreshSends, FreshReads, Live, Objs, Ids, None
  <1>2. SpareOfListener /\ LostIsKnown /\ open = {}
    BY <1>1 DEF Init, SpareOfListener, LostIsKnown
  <1>3. made = 0 /\ curId = -1 /\ pc = "idle" /\ \A o \in Objs : ~(o <= 0)
    BY IocpAssumption DEF Init, Objs
  <1>4. ServedMade /\ ServesKind /\ FirstLap
    BY <1>3 DEF ServedMade, ServesKind, FirstLap, UserPc
  <1>5. TableOK /\ OneSendWhileUnsent /\ OneReadWhileLive
    BY <1>1, <1>2 DEF TableOK, OneSendWhileUnsent, OneReadWhileLive
  <1> QED BY <1>1, <1>4, <1>5, InitType DEF IInv

(* ... and every step keeps it. *)
THEOREM NextIInv == IInv /\ [Next]_vars => IInv'
  <1> SUFFICES ASSUME IInv, [Next]_vars PROVE IInv'
    OBVIOUS
  <1>1. TInv'
    BY NextType DEF IInv
  <1>2. TableOK' /\ ServesKind' /\ Filed
    BY NextTable, NextServes DEF IInv, TableOK
  <1>3. FreshSends' /\ OneSendWhileUnsent'
    BY <1>2, NextSends DEF IInv
  <1>4. ReadsInv'
    BY <1>2, NextReads DEF IInv, ReadsInv
  <1>5. FirstLap'
    BY <1>2, NextFirstLap DEF IInv
  <1> QED BY <1>1, <1>2, <1>3, <1>4, <1>5 DEF IInv, ReadsInv

(* The inductive invariant holds of every reachable state. *)
LEMMA Invariance == Spec => []IInv
  BY InitIInv, NextIInv, PTL DEF Spec

(* Whatever fails and however steps interleave, no session is filed under
   another's id, no open socket is without its session, and the only sockets
   lost are those AcceptEx had of a closed listener, and those ioctlsocket
   refused.                                                               *)
THEOREM TableAlways == Spec => []TableOK
  <1>1. IInv => TableOK
    BY DEF IInv
  <1> QED BY <1>1, Invariance, PTL

(* Unsent bytes always have exactly one send in progress. *)
THEOREM SendsAlways == Spec => []OneSendWhileUnsent
  <1>1. IInv => OneSendWhileUnsent
    BY DEF IInv
  <1> QED BY <1>1, Invariance, PTL

(* A session of the table is always being read from, unless it is deaf. *)
THEOREM ReadsAlways == Spec => []OneReadWhileLive
  <1>1. IInv => OneReadWhileLive
    BY DEF IInv
  <1> QED BY <1>1, Invariance, PTL

(* Nothing undefined happens before the ids come round again. *)
THEOREM DefinedAlways == Spec => []DefinedInFirstLap
  <1>1. IInv => DefinedInFirstLap
    BY IocpAssumption DEF IInv, FirstLap, DefinedInFirstLap, UserPc, Undefined, TInv, TypeOK
  <1> QED BY <1>1, Invariance, PTL
=============================================================================
