----------------------------- MODULE IocpPoller -----------------------------
(***************************************************************************)
(* The IOCP poller (IOCPPoller.cpp) as MsgHub drives it: the session table *)
(* and its round-robin ids, the overlapped operations each session has     *)
(* outstanding, the completion port, and loopOnce with the callbacks it    *)
(* makes.  One thread runs loopOnce and the application's code; the kernel *)
(* and the peers run beside it.                                            *)
(*                                                                         *)
(* A session object (IocpData) is named by its allocation number.  The     *)
(* code never frees one, so a number stands for an address and is never    *)
(* used twice; an id, the index in 'sessions', is.  The contexts of an     *)
(* object are freed by closeSession while the kernel may still owe         *)
(* completions for them.                                                   *)
(*                                                                         *)
(* The port and the batch loopOnce takes from it are one bag of finished   *)
(* operations (recvDone, sendDone), served in any order.  Data are byte    *)
(* counts: their content and order are the MessageBuffer module's.         *)
(*                                                                         *)
(* Faults names what may go wrong.  System calls that may fail: WSASocket, *)
(* ioctlsocket, the setsockopt, bind and listen of listenTo ("bind"),      *)
(* CreateIoCompletionPort ("assoc"), AcceptEx, WSARecv and WSASend.  And   *)
(* what the application may do: leave a session it connected unread        *)
(* ("noread"), close a listener in its own onAccept ("closeself").         *)
(***************************************************************************)
EXTENDS Integers, FiniteSets, FiniteSetsExt

CONSTANTS
  MaxId,    \* Poller::maxId, the length of the session table (1000 in the code)
  MaxObjs,  \* bound: session objects ever allocated
  MaxRx,    \* bound: unread bytes in a socket
  MaxW,     \* bound: bytes in a write buffer
  Faults    \* what may go wrong

ASSUME IocpAssumption ==
  /\ MaxId \in Nat /\ MaxId >= 2
  /\ MaxObjs \in Nat /\ MaxRx \in Nat /\ MaxW \in Nat
  /\ Faults \subseteq {"acceptex", "assoc", "wsarecv", "wsasend", "wsasocket", "ioctl", "bind",
                       "noread", "closeself"}

None == 0
Objs == 1..MaxObjs
Ids  == 0..(MaxId - 1)

VARIABLES
  sessions,  \* Poller::sessions, the session table
  curId,     \* Poller::curId, where IdGen starts from
  made,      \* session objects allocated so far
  key,       \* sessionId at creation: the completion key of the socket
  kind,      \* Session::type
  open,      \* objects whose socket is open
  spare,     \* listeners whose read context holds a socket made for AcceptEx
  lost,      \* listeners whose spare socket nothing refers to; None: listenTo's
  winsock,   \* "up"; WSACleanup called: "cleaned"; the port closed too: "closed"
  peer,      \* what the other end did: "up", "fin" (closed) or "rst"
  rx,        \* bytes the kernel holds for recv()
  backlog,   \* connections waiting on the listening socket
  wsize,     \* writeBuffer.size
  recvPend,  \* overlapped WSARecv or AcceptEx not finished
  recvDone,  \* ... finished, completion not yet served
  sendPend,  \* overlapped WSASend not finished
  sendDone,  \* ... finished, completion not yet served
  deaf,      \* sessions on which WSARecv or AcceptEx failed, unnoticed
  pc,        \* what the thread is doing
  self,      \* the session loopOnce is serving
  first      \* the session made for AcceptEx's own socket

table == <<sessions, curId, made, key, kind>>
socks == <<open, spare, lost, winsock>>
net   == <<peer, rx, backlog>>
reads == <<recvPend, recvDone, deaf>>
sends == <<wsize, sendPend, sendDone>>
ctl   == <<pc, self, first>>

vars == <<table, socks, net, reads, sends, ctl>>

Live(o) == sessions[key[o]] = o

(* Callbacks run inside loopOnce; elsewhere the application has the thread. *)
UserPc == {"idle", "onRecv", "onAccept"}

(* "overrun": sessions[-1] was written.  "stale": the freed context of a
   completion was read.  "freed": that of a listener closed in its onAccept.
   "crashed": a null context was dereferenced.                            *)
Undefined == {"overrun", "stale", "freed", "crashed"}

Init ==
  /\ sessions = [i \in Ids |-> None]
  /\ curId = -1
  /\ made = 0
  /\ key = [o \in Objs |-> 0]
  /\ kind = [o \in Objs |-> "none"]
  /\ open = {} /\ spare = {} /\ lost = {}
  /\ winsock = "up"
  /\ peer = [o \in Objs |-> "up"]
  /\ rx = [o \in Objs |-> 0]
  /\ backlog = 0
  /\ wsize = [o \in Objs |-> 0]
  /\ recvPend = [o \in Objs |-> 0]
  /\ recvDone = [o \in Objs |-> 0]
  /\ sendPend = [o \in Objs |-> 0]
  /\ sendDone = [o \in Objs |-> 0]
  /\ deaf = {}
  /\ pc = "idle"
  /\ self = None
  /\ first = None

-----------------------------------------------------------------------------
(* The session table *)

(* The first free id after curId; curId itself is never tried. *)
FreeSteps == {i \in 1..(MaxId - 1) : sessions[(curId + i) % MaxId] = None}
(* Mutants: the lowest free id; the search without the modulo. *)
IdGenLowest == IF FreeSteps = {} THEN -1 ELSE Min({i \in Ids : sessions[i] = None})
IdGenNoWrap == IF FreeSteps = {} THEN -1 ELSE curId + Min(FreeSteps)

IdGen == IF FreeSteps = {} THEN -1 ELSE (curId + Min(FreeSteps)) % MaxId

(* initNewSession up to the table entry.  Nothing tests the id: with no
   free one the entry written is sessions[-1].                            *)
NewEntry(knd) ==
  /\ made < MaxObjs
  /\ IdGen # -1
  /\ curId' = IdGen
  /\ made' = made + 1
  /\ sessions' = [sessions EXCEPT ![IdGen] = made + 1]
  /\ key' = [key EXCEPT ![made + 1] = IdGen]
  /\ kind' = [kind EXCEPT ![made + 1] = knd]

Overrun ==
  /\ made < MaxObjs
  /\ IdGen = -1
  /\ curId' = -1
  /\ made' = made + 1
  /\ pc' = "overrun"
  /\ UNCHANGED <<sessions, key, kind, socks, net, wsize, sendPend, sendDone, self, first>>

(* postRecv: every caller ignores that it failed. *)
PostRecv(o) ==
  \/ recvPend' = [recvPend EXCEPT ![o] = @ + 1] /\ UNCHANGED deaf
  \/ "wsarecv" \in Faults /\ deaf' = deaf \cup {o} /\ UNCHANGED recvPend

(* post_accept_ex: a socket is made and AcceptEx posted for it.  Callers
   ignore failures of both; when AcceptEx fails the socket stays.         *)
PostAccept(l) ==
  \/ /\ recvPend' = [recvPend EXCEPT ![l] = @ + 1]
     /\ spare' = spare \cup {l}
     /\ UNCHANGED deaf
  \/ /\ deaf' = deaf \cup {l}
     /\ \/ "wsasocket" \in Faults /\ UNCHANGED spare
        \/ "acceptex" \in Faults /\ spare' = spare \cup {l}
     /\ UNCHANGED recvPend

(* Mutant: closeSession without closeSocket. *)
CloseSessionKeepsSocket(o) ==
  /\ sessions' = [sessions EXCEPT ![key[o]] = None]
  /\ wsize' = [wsize EXCEPT ![o] = 0]
  /\ rx' = [rx EXCEPT ![o] = 0]
  /\ backlog' = backlog
  /\ spare' = spare \ {o} /\ lost' = lost \cup (spare \cap {o})
  /\ UNCHANGED <<curId, made, key, kind, open, winsock, peer>>

(* closeSession on a session that is in the table: the kernel aborts what is
   outstanding, and its completions will still arrive.  A listener's socket
   for AcceptEx is not closed, and its context is freed.                  *)
CloseSession(o) ==
  /\ sessions' = [sessions EXCEPT ![key[o]] = None]
  /\ open' = open \ {o}
  /\ spare' = spare \ {o} /\ lost' = lost \cup (spare \cap {o})
  /\ wsize' = [wsize EXCEPT ![o] = 0]
  /\ rx' = [rx EXCEPT ![o] = 0]
  /\ backlog' = IF kind[o] = "listen" THEN 0 ELSE backlog
  /\ UNCHANGED <<curId, made, key, kind, winsock, peer>>

Readable(o) == o \in open /\ peer[o] = "up"
Writable(o) == o \in open /\ peer[o] # "rst"

(* Mutant: send() would block, and nothing waits for room. *)
PostSendNoRetry(o, w) ==
  \/ \E r \in 0..w :
       /\ Writable(o)
       /\ wsize' = [wsize EXCEPT ![o] = r]
       /\ UNCHANGED <<table, socks, net, sendPend>>
  \/ /\ ~Writable(o) \/ "wsasend" \in Faults
     /\ CloseSession(o)
     /\ UNCHANGED sendPend

(* postSend with w bytes to send: all of them go; or send() would block, a
   zero-byte WSASend waits for room and r bytes stay; or send() or WSASend
   fails and the session is closed.                                       *)
PostSend(o, w) ==
  \/ /\ Writable(o)
     /\ wsize' = [wsize EXCEPT ![o] = 0]
     /\ UNCHANGED <<table, socks, net, sendPend>>
  \/ \E r \in 1..w :
       /\ Writable(o)
       /\ wsize' = [wsize EXCEPT ![o] = r]
       /\ sendPend' = [sendPend EXCEPT ![o] = @ + 1]
       /\ UNCHANGED <<table, socks, net>>
  \/ /\ ~Writable(o) \/ "wsasend" \in Faults
     /\ CloseSession(o)
     /\ UNCHANGED sendPend

-----------------------------------------------------------------------------
(* The kernel and the peers *)

(* Bound: objects made, and those the waiting connections will need. *)
Claimed ==
  made + backlog + Cardinality({l \in open : kind[l] = "listen" /\ recvDone[l] > 0})

PeerConnects ==
  /\ \E l \in open : kind[l] = "listen"
  /\ Claimed < MaxObjs
  /\ backlog' = backlog + 1
  /\ UNCHANGED <<table, socks, peer, rx, reads, sends, ctl>>

PeerSends(o) ==
  /\ o \in open /\ kind[o] # "listen" /\ peer[o] = "up"
  /\ rx[o] < MaxRx
  /\ rx' = [rx EXCEPT ![o] = @ + 1]
  /\ UNCHANGED <<table, socks, peer, backlog, reads, sends, ctl>>

PeerCloses(o) ==
  /\ o \in open /\ kind[o] # "listen" /\ peer[o] = "up"
  /\ peer' = [peer EXCEPT ![o] = "fin"]
  /\ UNCHANGED <<table, socks, rx, backlog, reads, sends, ctl>>

PeerResets(o) ==
  /\ o \in open /\ kind[o] # "listen" /\ peer[o] # "rst"
  /\ peer' = [peer EXCEPT ![o] = "rst"]
  /\ rx' = [rx EXCEPT ![o] = 0]
  /\ UNCHANGED <<table, socks, backlog, reads, sends, ctl>>

(* A zero-byte WSARecv finishes when there is something to read or the
   socket is gone; AcceptEx takes a connection off the backlog.           *)
CompleteRecv(o) ==
  /\ recvPend[o] > 0
  /\ o \in open /\ kind[o] = "listen" => backlog > 0
  /\ o \in open /\ kind[o] # "listen" => rx[o] > 0 \/ peer[o] # "up"
  /\ recvPend' = [recvPend EXCEPT ![o] = @ - 1]
  /\ recvDone' = [recvDone EXCEPT ![o] = @ + 1]
  /\ backlog' = IF o \in open /\ kind[o] = "listen" THEN backlog - 1 ELSE backlog
  /\ UNCHANGED <<table, socks, peer, rx, deaf, sends, ctl>>

CompleteSend(o) ==
  /\ sendPend[o] > 0
  /\ sendPend' = [sendPend EXCEPT ![o] = @ - 1]
  /\ sendDone' = [sendDone EXCEPT ![o] = @ + 1]
  /\ UNCHANGED <<table, socks, net, reads, wsize, ctl>>

-----------------------------------------------------------------------------
(* loopOnce: one completion of object o is served *)

Slot(o) == sessions[key[o]]

(* loopOnce looks up the completion key: an empty slot is skipped; a slot
   that holds another session means the context just freed is read.       *)
Unserved(o) ==
  /\ Slot(o) # o
  /\ IF Slot(o) = None THEN UNCHANGED pc ELSE pc' = "stale"
  /\ UNCHANGED <<self, first>>

(* Mutant: recv() returning 0 is taken for "nothing more to read". *)
DoRecvIgnoresEof(o) ==
  \/ /\ rx[o] > 0
     /\ rx' = [rx EXCEPT ![o] = 0]
     /\ pc' = "onRecv" /\ self' = o
     /\ UNCHANGED <<table, socks, peer, backlog, wsize, recvPend, deaf, first>>
  \/ /\ rx[o] = 0
     /\ PostRecv(o)
     /\ UNCHANGED <<table, socks, net, wsize, ctl>>

(* do_recv: recv() until it would block, the end of the stream or an error;
   in the last two cases what was read goes with the session, unseen.     *)
DoRecv(o) ==
  \/ /\ Readable(o) /\ rx[o] > 0
     /\ rx' = [rx EXCEPT ![o] = 0]
     /\ pc' = "onRecv" /\ self' = o
     /\ UNCHANGED <<table, socks, peer, backlog, wsize, recvPend, deaf, first>>
  \/ /\ Readable(o) /\ rx[o] = 0
     /\ PostRecv(o)
     /\ UNCHANGED <<table, socks, net, wsize, ctl>>
  \/ /\ ~Readable(o)
     /\ CloseSession(o)
     /\ UNCHANGED <<recvPend, deaf, ctl>>

DispatchRead(o) ==
  /\ pc = "idle" /\ winsock # "closed"
  /\ recvDone[o] > 0 /\ kind[o] # "listen"
  /\ recvDone' = [recvDone EXCEPT ![o] = @ - 1]
  /\ UNCHANGED <<sendPend, sendDone>>
  /\ \/ Unserved(o) /\ UNCHANGED <<table, socks, net, wsize, recvPend, deaf>>
     \/ Slot(o) = o /\ DoRecv(o)

(* Mutant: onRecv is not followed by postRecv. *)
AfterRecvNoPost ==
  /\ pc = "onRecv"
  /\ pc' = "idle" /\ self' = None
  /\ UNCHANGED <<table, socks, net, reads, sends, first>>

(* do_recv after onRecv returned: the slot is looked up again. *)
AfterRecv ==
  /\ pc = "onRecv"
  /\ \/ /\ Slot(self) = None
        /\ pc' = "idle" /\ self' = None
        /\ UNCHANGED <<recvPend, deaf>>
     \/ /\ Slot(self) = self
        /\ PostRecv(self)
        /\ pc' = "idle" /\ self' = None
     \/ /\ Slot(self) \notin {None, self}
        /\ pc' = "crashed"
        /\ UNCHANGED <<self, recvPend, deaf>>
  /\ UNCHANGED <<table, socks, net, recvDone, sends, first>>

(* Mutant: do_send does not call postSend. *)
DispatchWriteIgnored(o) ==
  /\ pc = "idle" /\ winsock # "closed"
  /\ sendDone[o] > 0
  /\ sendDone' = [sendDone EXCEPT ![o] = @ - 1]
  /\ UNCHANGED <<table, socks, net, reads, wsize, sendPend, ctl>>

(* do_send: what is left in the buffer is sent. *)
DispatchWrite(o) ==
  /\ pc = "idle" /\ winsock # "closed"
  /\ sendDone[o] > 0
  /\ sendDone' = [sendDone EXCEPT ![o] = @ - 1]
  /\ UNCHANGED reads
  /\ \/ Unserved(o) /\ UNCHANGED <<table, socks, net, wsize, sendPend>>
     \/ /\ Slot(o) = o
        /\ IF wsize[o] > 0
           THEN PostSend(o, wsize[o])
           ELSE UNCHANGED <<table, socks, net, wsize, sendPend>>
        /\ UNCHANGED ctl

(* The socket of a new session, and the postRecv of MsgHub::onAccept. *)
Accepted(o) ==
  /\ open' = open \cup {o}
  /\ PostRecv(o)
  /\ UNCHANGED <<lost, winsock>>

(* ClientIoAccept for the listener l: a session for AcceptEx's socket.  When
   the port refuses the socket, it is closed but its entry stays, and the
   loop goes on to the next completion without a new AcceptEx.            *)
DispatchAccept(l) ==
  /\ pc = "idle" /\ winsock # "closed"
  /\ recvDone[l] > 0 /\ kind[l] = "listen"
  /\ recvDone' = [recvDone EXCEPT ![l] = @ - 1]
  /\ UNCHANGED <<net, sends>>
  /\ \/ Unserved(l) /\ UNCHANGED <<table, socks, recvPend, deaf>>
     \/ /\ Slot(l) = l /\ NewEntry("accept")
        /\ Accepted(made + 1)
        /\ spare' = spare \ {l}
        /\ pc' = "onAccept" /\ self' = l /\ first' = made + 1
     \/ /\ Slot(l) = l /\ NewEntry("accept")
        /\ "assoc" \in Faults
        /\ deaf' = deaf \cup {l, made + 1}
        /\ spare' = spare \ {l}
        /\ UNCHANGED <<open, lost, winsock, recvPend, ctl>>
     \/ Slot(l) = l /\ Overrun /\ UNCHANGED <<recvPend, deaf>>

(* The WSAAccept loop finds another connection.  When the port refuses its
   socket, the socket closed is that of the first session.                *)
AcceptNext ==
  /\ pc = "onAccept" /\ Live(self)
  /\ backlog > 0
  /\ \/ /\ NewEntry("accept")
        /\ Accepted(made + 1)
        /\ backlog' = backlog - 1
        /\ UNCHANGED <<spare, peer, rx, wsize, sendPend, sendDone, ctl>>
     \/ /\ NewEntry("accept")
        /\ "assoc" \in Faults
        /\ deaf' = deaf \cup {made + 1}
        /\ open' = (open \cup {made + 1}) \ {first}
        /\ backlog' = backlog - 1
        /\ UNCHANGED <<spare, lost, winsock, peer, rx, wsize, sendPend, sendDone, recvPend, ctl>>
     \/ Overrun /\ UNCHANGED <<recvPend, deaf>>
  /\ UNCHANGED recvDone

(* Mutant: AcceptEx is not posted again. *)
AcceptDoneNoPost ==
  /\ pc = "onAccept"
  /\ pc' = "idle" /\ self' = None /\ first' = None
  /\ UNCHANGED <<table, socks, net, reads, sends>>

(* WSAAccept failed: AcceptEx is posted again. *)
AcceptDone ==
  /\ pc = "onAccept" /\ Live(self)
  /\ PostAccept(self)
  /\ pc' = "idle" /\ self' = None /\ first' = None
  /\ UNCHANGED <<table, open, lost, winsock, net, recvDone, sends>>

(* The listener was closed in onAccept: WSAAccept is called on the handle in
   its freed context.                                                     *)
AcceptFreed ==
  /\ pc = "onAccept" /\ ~Live(self)
  /\ pc' = "freed"
  /\ UNCHANGED <<table, socks, net, reads, sends, self, first>>

-----------------------------------------------------------------------------
(* The application, from its callbacks or between two calls of waitMsg *)

(* listenTo before initNewSession.  WSASocket fails: Winsock is shut down,
   and with it every socket.  ioctlsocket fails: the new socket is left.
   setsockopt, bind or listen fails: Winsock is shut down and the port
   closed.  The caller is told "true" of all three (-1 as a bool).        *)
ListenFails ==
  /\ \/ /\ "wsasocket" \in Faults
        /\ winsock' = "cleaned" /\ open' = {}
        /\ UNCHANGED lost
     \/ /\ "ioctl" \in Faults
        /\ lost' = lost \cup {None}
        /\ UNCHANGED <<open, winsock>>
     \/ /\ "bind" \in Faults
        /\ winsock' = "closed" /\ open' = {}
        /\ UNCHANGED lost
  /\ UNCHANGED <<table, spare, recvPend, deaf, ctl>>

(* listenTo.  Bound: one listening socket.  When the port refuses it, it
   stays open and in the table without an AcceptEx.                       *)
ListenTo ==
  /\ pc = "idle" /\ winsock = "up"
  /\ \A o \in Objs : kind[o] # "listen"
  /\ UNCHANGED <<net, sends, recvDone>>
  /\ \/ /\ NewEntry("listen")
        /\ open' = open \cup {made + 1}
        /\ PostAccept(made + 1)
        /\ UNCHANGED <<lost, winsock, ctl>>
     \/ /\ NewEntry("listen")
        /\ "assoc" \in Faults
        /\ open' = open \cup {made + 1}
        /\ deaf' = deaf \cup {made + 1}
        /\ UNCHANGED <<spare, lost, winsock, recvPend, ctl>>
     \/ Overrun /\ UNCHANGED <<recvPend, deaf>>
     \/ ListenFails

(* A connect succeeded: initNewSession, then MsgHub's onConnect, which posts
   no read: the application's is to.  A session whose socket the port
   refuses stays open and in the table.                                   *)
Connected ==
  /\ pc \in UserPc /\ winsock = "up"
  /\ Claimed < MaxObjs
  /\ UNCHANGED <<net, sends, recvDone>>
  /\ \/ /\ NewEntry("connect")
        /\ Accepted(made + 1)
        /\ UNCHANGED <<spare, ctl>>
     \/ /\ NewEntry("connect")
        /\ "assoc" \in Faults \/ "noread" \in Faults
        /\ open' = open \cup {made + 1}
        /\ deaf' = deaf \cup {made + 1}
        /\ UNCHANGED <<spare, lost, winsock, recvPend, ctl>>
     \/ Overrun /\ UNCHANGED <<recvPend, deaf>>

(* sendTo: the buffer takes the bytes; only an empty one starts a send. *)
SendTo(o, n) ==
  /\ pc \in UserPc
  /\ Live(o) /\ kind[o] # "listen"
  /\ wsize[o] + n <= MaxW
  /\ \/ /\ wsize[o] > 0
        /\ wsize' = [wsize EXCEPT ![o] = @ + n]
        /\ UNCHANGED <<table, socks, net, sendPend>>
     \/ wsize[o] = 0 /\ PostSend(o, n)
  /\ UNCHANGED <<reads, sendDone, ctl>>

(* closeSession by the application. *)
UserClose(o) ==
  /\ pc \in UserPc
  /\ Live(o)
  /\ pc = "onAccept" /\ o = self => "closeself" \in Faults
  /\ CloseSession(o)
  /\ UNCHANGED <<reads, sendPend, sendDone, ctl>>

-----------------------------------------------------------------------------

KernelStep ==
  \/ PeerConnects
  \/ \E o \in Objs :
       \/ PeerSends(o) \/ PeerCloses(o) \/ PeerResets(o)
       \/ CompleteRecv(o) \/ CompleteSend(o)

LoopStep ==
  \/ \E o \in Objs : DispatchRead(o) \/ DispatchWrite(o) \/ DispatchAccept(o)
  \/ AfterRecv \/ AcceptNext \/ AcceptDone \/ AcceptFreed

UserStep ==
  \/ ListenTo \/ Connected
  \/ \E o \in Objs : UserClose(o) \/ \E n \in 1..MaxW : SendTo(o, n)

Next == KernelStep \/ LoopStep \/ UserStep

Spec == Init /\ [][Next]_vars

(* The port is a queue and loopOnce serves every entry of the batch it takes
   from it, so a completion that is there is served (SF: callbacks come in
   between).  The kernel finishes what can be finished.  A peer that is up
   goes on reading, so a retried send eventually empties the buffer.      *)
Fairness ==
  /\ \A o \in Objs :
       /\ WF_vars(CompleteRecv(o))
       /\ WF_vars(CompleteSend(o))
       /\ SF_vars(DispatchRead(o) \/ DispatchAccept(o))
       /\ SF_vars(DispatchWrite(o))
       /\ SF_vars(DispatchWrite(o) /\ wsize'[o] = 0)
  /\ WF_vars(AfterRecv)
  /\ WF_vars(AcceptNext \/ AcceptDone)

LiveSpec == Spec /\ Fairness

-----------------------------------------------------------------------------

TypeOK ==
  /\ sessions \in [Ids -> Objs \cup {None}]
  /\ curId \in -1..(MaxId - 1)
  /\ made \in 0..MaxObjs
  /\ key \in [Objs -> Ids]
  /\ kind \in [Objs -> {"none", "listen", "accept", "connect"}]
  /\ open \subseteq Objs /\ spare \subseteq Objs /\ lost \subseteq Objs \cup {None}
  /\ winsock \in {"up", "cleaned", "closed"}
  /\ peer \in [Objs -> {"up", "fin", "rst"}]
  /\ rx \in [Objs -> Nat]
  /\ backlog \in Nat
  /\ wsize \in [Objs -> Nat]
  /\ recvPend \in [Objs -> Nat]
  /\ recvDone \in [Objs -> Nat]
  /\ sendPend \in [Objs -> Nat]
  /\ sendDone \in [Objs -> Nat]
  /\ deaf \subseteq Objs
  /\ pc \in UserPc \cup Undefined
  /\ self \in Objs \cup {None}
  /\ first \in Objs \cup {None}

(***************************************************************************)
(* The session table and the sockets.  Every entry holds a session whose   *)
(* id is its index.  An open socket belongs to a session of the table; and *)
(* a session of the table has its socket open, unless the port refused one *)
(* or a failed listenTo shut Winsock down.  A socket made for AcceptEx is  *)
(* its listener's as long as that is in the table; a listener that waits   *)
(* and is not deaf has one.  The sockets that are lost are those that a    *)
(* closed listener had for AcceptEx, one each, and those that ioctlsocket  *)
(* refused.                                                                *)
(***************************************************************************)
Filed == \A i \in Ids : sessions[i] # None => sessions[i] <= made /\ key[sessions[i]] = i

SpareOfListener ==
  /\ \A l \in spare : Live(l) /\ kind[l] = "listen"
  /\ \A l \in Objs : Live(l) /\ kind[l] = "listen" => l \in spare \cup deaf \cup {self}

LostIsKnown ==
  \A l \in lost :
    IF l = None THEN "ioctl" \in Faults ELSE l <= made /\ kind[l] = "listen" /\ ~Live(l)

TableOK ==
  /\ Filed
  /\ \A o \in open : Live(o)
  /\ winsock = "up" /\ "assoc" \notin Faults => \A o \in Objs : Live(o) => o \in open
  /\ SpareOfListener
  /\ LostIsKnown

(***************************************************************************)
(* A session with unsent bytes has exactly one WSASend outstanding, and    *)
(* one without has none: no interleaving of sendTo, completions, failures  *)
(* and ids used again strands bytes or doubles the OVERLAPPED in use.      *)
(***************************************************************************)
OneSendWhileUnsent ==
  \A o \in Objs : Live(o) => sendPend[o] + sendDone[o] = IF wsize[o] > 0 THEN 1 ELSE 0

(***************************************************************************)
(* A session in the table that is not being served has exactly one WSARecv *)
(* (or AcceptEx) outstanding, unless the last one could not be posted: it  *)
(* can neither be forgotten nor have its OVERLAPPED posted twice.          *)
(***************************************************************************)
OneReadWhileLive ==
  pc \in UserPc =>
    \A o \in Objs :
      Live(o) => recvPend[o] + recvDone[o] = IF o \in deaf \/ o = self THEN 0 ELSE 1

(***************************************************************************)
(* As long as no more sessions were made than the table has ids, no write  *)
(* goes to sessions[-1], no completion of a closed session reaches a later *)
(* one, and do_recv does not touch a session its callback closed.  (A      *)
(* listener closed in its own onAccept is read after it was freed at any   *)
(* time.)                                                                  *)
(***************************************************************************)
DefinedInFirstLap == pc \in Undefined \ {"freed"} => made > MaxId

(***************************************************************************)
(* Liveness, when no call fails without reason: what sendTo took is sent   *)
(* or the session closed; ...                                              *)
(***************************************************************************)
SentOrClosed == \A o \in Objs : wsize[o] > 0 ~> wsize[o] = 0

(* ... a peer that closed or reset is noticed, and its session closed; ... *)
GoneIsClosed == \A o \in Objs : Live(o) /\ peer[o] # "up" ~> ~Live(o)

(* ... bytes that arrive are read; ...                                     *)
Delivered == \A o \in Objs : rx[o] > 0 ~> rx[o] = 0

(* ... and every waiting connection is accepted.                           *)
BacklogServed == backlog > 0 ~> backlog = 0

=============================================================================
