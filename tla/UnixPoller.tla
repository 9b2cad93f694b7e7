----------------------------- MODULE UnixPoller -----------------------------
(***************************************************************************)
(* The event-driven poller (Poller.cpp) over one of the demultiplexers:    *)
(* sessions by id, what is watched for each socket, the batch of events a  *)
(* call of loopOnce works through, and the callbacks it makes, which may   *)
(* close any session of the batch and open others under the same ids and   *)
(* descriptors.  MsgHub posts a read in onAccept; of a connection the      *)
(* application must, in onConnect, and with "noread" it may not.           *)
(*                                                                         *)
(* A session freed by closeSession is never used again by the loop, which  *)
(* looks it up by id after each callback: a session is its entry.          *)
(***************************************************************************)
EXTENDS Demultiplexer, FiniteSets, FiniteSetsExt

CONSTANTS
  MaxId,   \* Poller::maxId (30000 in the code)
  MaxFd,   \* bound: the process's limit of descriptors
  MaxRx,   \* bound: unread bytes of a socket
  Backlog, \* bound: connections waiting at a socket
  MaxW,    \* bound: bytes in a write buffer
  Faults   \* what may fail without the peer's doing

ASSUME UnixAssumption ==
  /\ MaxId \in Nat \ {0} /\ MaxFd \in Nat /\ MaxRx \in Nat /\ Backlog \in Nat /\ MaxW \in Nat
  /\ Faults \subseteq {"bind", "maxSize", "connectFull", "polladd", "noread", "send"}

Ids == 0..(MaxId - 1)
Fds == 1..MaxFd

VARIABLES
  sessions,   \* Poller::sessions
  curId,      \* Poller::curId
  open,       \* descriptors in use
  lost,       \* those no session has: not bound, or the table was full
  deaf,       \* those of sessions that were never registered
  listening,  \* those that listen
  peer,       \* what the other end did: "up", "fin" (closed) or "rst"
  rx,         \* what the kernel holds for recv() or accept()
  watch,      \* what the demultiplexer has registered for each descriptor
  batch,      \* events of this loopOnce not served yet
  pc,         \* "idle", "loop", "onRecv", "read", "accept", "onAccept" or "crashed"
  id,         \* loopOnce: id, during onRecv and up to send()
  wants,      \* loopOnce: evFlag & EVENT_WRITE, likewise
  sock        \* loopOnce: sock, in the accept loop

table  == <<sessions, curId>>
kernel == <<open, lost, deaf, listening, peer, rx>>
event  == <<id, wants, sock>>
vars   == <<table, kernel, watch, batch, pc, event, Demux>>

Empty == [fd |-> 0, kind |-> "none", wsize |-> 0]

Live(i) == sessions[i] # Empty

(* The application has the thread. *)
UserPc == {"idle", "onRecv", "onAccept"}

(* The loop is between the two halves of serving a connection. *)
Serving == {"onRecv", "read"}

Init ==
  /\ Demux \in Demuxes
  /\ sessions = [i \in Ids |-> Empty]
  /\ curId = 0
  /\ open = {}
  /\ lost = {}
  /\ deaf = {}
  /\ listening = {}
  /\ peer = [f \in Fds |-> "up"]
  /\ rx = [f \in Fds |-> 0]
  /\ watch = [f \in Fds |-> Unwatched]
  /\ batch = {}
  /\ pc = "idle"
  /\ id = 0
  /\ wants = FALSE
  /\ sock = 0

-----------------------------------------------------------------------------
(* The session table *)

FreeSteps == {k \in Ids : ~Live((curId + k) % MaxId)}
Full == FreeSteps = {}

(* initNewSession takes the first free entry from curId on. *)
NewId == (curId + Min(FreeSteps)) % MaxId

(* The lowest descriptor that is free, as the kernel gives them. *)
FreeFds == Fds \ open
NewFd == Min(FreeFds)

InitNewSession(kind) ==
  /\ ~Full
  /\ sessions' = [sessions EXCEPT ![NewId] = [fd |-> NewFd, kind |-> kind, wsize |-> 0]]
  /\ curId' = (NewId + 1) % MaxId
  /\ open' = open \cup {NewFd}

(* pollAdd fails, which nobody looks at (that of SelectPoller cannot); or it
   is not called.                                                         *)
MayStayDeaf(kind) ==
  \/ "polladd" \in Faults /\ Demux # "select"
  \/ "noread" \in Faults /\ kind = "connect"

PostRecv(kind) ==
  \/ /\ watch' = [watch EXCEPT ![NewFd] = PollAdd(@, NewId)]
     /\ UNCHANGED deaf
  \/ /\ MayStayDeaf(kind)
     /\ deaf' = deaf \cup {NewFd}
     /\ UNCHANGED watch

(* Mutant: closeSocket without pollDel, under select. *)
CloseSessionNoDel(i) ==
  LET f == sessions[i].fd
  IN  /\ sessions' = [sessions EXCEPT ![i] = Empty]
      /\ open' = open \ {f}
      /\ deaf' = deaf \ {f}
      /\ listening' = listening \ {f}
      /\ rx' = [rx EXCEPT ![f] = 0]
      /\ peer' = [peer EXCEPT ![f] = "up"]
      /\ UNCHANGED <<curId, lost, watch>>

(* closeSession on a session that is there.  SelectPoller's pollDel removes
   the entry; of the others the kernel does, when the socket is closed.   *)
CloseSession(i) ==
  LET f == sessions[i].fd
  IN  /\ sessions' = [sessions EXCEPT ![i] = Empty]
      /\ open' = open \ {f}
      /\ deaf' = deaf \ {f}
      /\ listening' = listening \ {f}
      /\ rx' = [rx EXCEPT ![f] = 0]
      /\ peer' = [peer EXCEPT ![f] = "up"]
      /\ watch' = [watch EXCEPT ![f] = Unwatched]
      /\ UNCHANGED <<curId, lost>>

-----------------------------------------------------------------------------
(* The peers.  Nobody looks at what happens to a lost socket. *)

(* Bytes arrive, or on a listening socket a connection. *)
Arrives(f) ==
  /\ f \in open \ lost /\ peer[f] = "up"
  /\ rx[f] < IF f \in listening THEN Backlog ELSE MaxRx
  /\ rx' = [rx EXCEPT ![f] = @ + 1]
  /\ UNCHANGED <<table, open, lost, deaf, listening, peer, watch, batch, Demux, pc, event>>

PeerCloses(f) ==
  /\ f \in open \ (listening \cup lost) /\ peer[f] = "up"
  /\ peer' = [peer EXCEPT ![f] = "fin"]
  /\ UNCHANGED <<table, open, lost, deaf, listening, rx, watch, batch, Demux, pc, event>>

PeerResets(f) ==
  /\ f \in open \ (listening \cup lost) /\ peer[f] # "rst"
  /\ peer' = [peer EXCEPT ![f] = "rst"]
  /\ rx' = [rx EXCEPT ![f] = 0]
  /\ UNCHANGED <<table, open, lost, deaf, listening, watch, batch, Demux, pc, event>>

-----------------------------------------------------------------------------
(* loopOnce *)

Readable(f) == rx[f] > 0 \/ peer[f] # "up"

(* pollGetEvents, which may time out.  A socket has room to send or not. *)
PollGetEvents ==
  /\ pc = "idle"
  /\ \E rooms \in SUBSET {f \in Fds : watch[f].write # "off"}, kept \in BOOLEAN :
       /\ batch' = UNION {Reported(f, watch[f], Readable(f), f \in rooms, peer[f] # "up", kept) :
                            f \in Fds}
       /\ watch' = [f \in Fds |-> AfterReport(watch[f], Readable(f), f \in rooms)]
  /\ pc' = "loop"
  /\ UNCHANGED <<table, kernel, event, Demux>>

LoopDone ==
  /\ pc = "loop" /\ batch = {}
  /\ pc' = "idle"
  /\ UNCHANGED <<table, kernel, watch, batch, Demux, event>>

(* send() fails: the peer reset the connection, or the system cannot. *)
SendFails(f) == peer[f] = "rst" \/ "send" \in Faults

(* Mutant: postSend after every event. *)
FinishSendsAnyway(i, write) ==
  LET s == sessions[i]
  IN  \/ /\ s.wsize = 0
         /\ pc' = "loop"
         /\ watch' = [watch EXCEPT ![s.fd] = PollMod(@, FALSE, i)]
         /\ UNCHANGED <<table, kernel>>
      \/ /\ s.wsize > 0 /\ SendFails(s.fd)
         /\ pc' = "crashed"
         /\ CloseSession(i)

(* What postSend may leave of n bytes. *)
Left(f, n) == IF peer[f] = "rst" THEN {n} ELSE 0..n

(* The second half of serving session i: postSend if the event was a write
   event too, and pollMod, which waits for room only if it was one.  When
   send() fails the session is closed, and its descriptor is read from the
   null entry.                                                            *)
Finish(i, write) ==
  LET s == sessions[i]
  IN  \/ /\ ~write \/ s.wsize = 0
         /\ pc' = "loop"
         /\ watch' = [watch EXCEPT ![s.fd] = PollMod(@, FALSE, i)]
         /\ UNCHANGED <<table, kernel>>
      \/ /\ write /\ s.wsize > 0 /\ peer[s.fd] # "rst"
         /\ pc' = "loop"
         /\ \E left \in Left(s.fd, s.wsize) :
              /\ sessions' = [sessions EXCEPT ![i].wsize = left]
              /\ watch' = [watch EXCEPT ![s.fd] = PollMod(@, left > 0, i)]
         /\ UNCHANGED <<curId, kernel>>
      \/ /\ write /\ s.wsize > 0 /\ SendFails(s.fd)
         /\ pc' = "crashed"
         /\ CloseSession(i)

(* Mutants: a read that finds nothing is the end of the stream; the end of
   the stream is nothing to read.                                         *)
ReadFailsOnEmpty(f) == rx[f] = 0
ReadFailsResetOnly(f) == peer[f] = "rst"

(* recv() finds the end of the stream or an error. *)
ReadFails(f) == peer[f] = "rst" \/ (peer[f] = "fin" /\ rx[f] = 0)

(* A read or write event of a connection. *)
ServeConnection(e) ==
  LET s == sessions[e.id]
      f == s.fd
  IN  /\ s.kind \in {"accept", "connect"}
      /\ UNCHANGED sock
      /\ \/ (* handleReadEvent up to onRecv: one recv() *)
            /\ e.read /\ ~ReadFails(f) /\ rx[f] > 0
            /\ \E left \in 0..(rx[f] - 1) : rx' = [rx EXCEPT ![f] = left]
            /\ pc' = "onRecv" /\ id' = e.id /\ wants' = e.write
            /\ UNCHANGED <<table, open, lost, deaf, listening, peer, watch>>
         \/ (* nothing to read *)
            /\ e.read /\ ~ReadFails(f) /\ rx[f] = 0
            /\ pc' = "read" /\ id' = e.id /\ wants' = e.write
            /\ UNCHANGED <<table, kernel, watch>>
         \/ (* it fails, or the application left more than maxSize bytes *)
            /\ e.read /\ (ReadFails(f) \/ "maxSize" \in Faults)
            /\ CloseSession(e.id)
            /\ UNCHANGED <<pc, id, wants>>
         \/ (* not a read event *)
            /\ ~e.read
            /\ Finish(e.id, e.write)
            /\ UNCHANGED <<id, wants>>

ServeListener(e) ==
  /\ sessions[e.id].kind = "listen"
  /\ pc' = "accept" /\ sock' = sessions[e.id].fd
  /\ UNCHANGED <<table, kernel, watch, id, wants>>

Serve(e) ==
  /\ pc = "loop"
  /\ batch' = batch \ {e}
  /\ UNCHANGED Demux
  /\ \/ ~Live(e.id) /\ UNCHANGED <<table, kernel, watch, pc, event>>
     \/ ServeConnection(e)
     \/ ServeListener(e)

(* Mutant: after onRecv the loop goes on without pollMod. *)
AfterRecvNoMod ==
  /\ pc \in Serving
  /\ \/ pc = "onRecv" /\ pc' = "loop" /\ UNCHANGED <<table, kernel, watch>>
     \/ pc = "read" /\ Finish(id, wants)
  /\ id' = 0 /\ wants' = FALSE
  /\ UNCHANGED <<batch, Demux, sock>>

(* onRecv has returned, or there was nothing to read; the entry is looked
   up again.                                                              *)
AfterRecv ==
  /\ pc \in Serving
  /\ \/ ~Live(id) /\ pc' = "loop" /\ UNCHANGED <<table, kernel, watch>>
     \/ Live(id) /\ Finish(id, wants)
  /\ id' = 0 /\ wants' = FALSE
  /\ UNCHANGED <<batch, Demux, sock>>

Acceptable == sock \in listening /\ rx[sock] > 0 /\ FreeFds # {}

(* Mutant: a connection the table has no room for is not closed. *)
AcceptNextLeaks ==
  /\ pc = "accept" /\ Acceptable
  /\ rx' = [rx EXCEPT ![sock] = @ - 1]
  /\ \/ InitNewSession("accept") /\ PostRecv("accept") /\ pc' = "onAccept"
     \/ Full /\ open' = open \cup {NewFd} /\ UNCHANGED <<table, deaf, watch, pc>>
  /\ UNCHANGED <<lost, listening, peer, batch, Demux, event>>

(* accept() returns a connection: a session, a read posted and onAccept; or
   the table is full and the connection is closed.                        *)
AcceptNext ==
  /\ pc = "accept" /\ Acceptable
  /\ rx' = [rx EXCEPT ![sock] = @ - 1]
  /\ \/ InitNewSession("accept") /\ PostRecv("accept") /\ pc' = "onAccept"
     \/ Full /\ UNCHANGED <<table, open, deaf, watch, pc>>
  /\ UNCHANGED <<lost, listening, peer, batch, Demux, event>>

(* The application closed the listener or not: accept() is called again. *)
AfterAccept ==
  /\ pc = "onAccept"
  /\ pc' = "accept"
  /\ UNCHANGED <<table, kernel, watch, batch, Demux, event>>

AcceptFails ==
  /\ pc = "accept" /\ ~Acceptable
  /\ pc' = "loop" /\ sock' = 0
  /\ UNCHANGED <<table, kernel, watch, batch, Demux, id, wants>>

-----------------------------------------------------------------------------
(* The application *)

(* createListenSocket: a socket that cannot be bound is not closed. *)
MayNotBind == "bind" \in Faults

(* Bounds: one listening socket at a time, opened between two calls of
   waitMsg.                                                               *)
ListenTo ==
  /\ pc = "idle" /\ FreeFds # {} /\ listening = {}
  /\ \/ /\ InitNewSession("listen") /\ PostRecv("listen")
        /\ listening' = {NewFd}
        /\ UNCHANGED lost
     \/ /\ MayNotBind
        /\ open' = open \cup {NewFd}
        /\ lost' = lost \cup {NewFd}
        /\ UNCHANGED <<table, deaf, listening, watch>>
  /\ UNCHANGED <<peer, rx, batch, Demux, pc, event>>

(* A connect succeeded: a session, and onConnect; with the table full
   ("connectFull") its socket stays open.                                 *)
Connected ==
  /\ pc \in UserPc /\ FreeFds # {}
  /\ \/ InitNewSession("connect") /\ PostRecv("connect") /\ UNCHANGED lost
     \/ /\ Full /\ "connectFull" \in Faults
        /\ open' = open \cup {NewFd}
        /\ lost' = lost \cup {NewFd}
        /\ UNCHANGED <<table, deaf, watch>>
  /\ UNCHANGED <<listening, peer, rx, batch, Demux, pc, event>>

(* sendTo: postSend's result is not looked at, and what it could not send
   stays in the buffer.                                                   *)
SendTo(i, n) ==
  LET s == sessions[i]
  IN  /\ pc \in UserPc
      /\ Live(i) /\ s.kind # "listen" /\ s.wsize + n <= MaxW
      /\ \/ s.wsize > 0 /\ sessions' = [sessions EXCEPT ![i].wsize = @ + n]
         \/ /\ s.wsize = 0
            /\ \E left \in Left(s.fd, n) :
                 sessions' = [sessions EXCEPT ![i].wsize = left]
      /\ UNCHANGED <<curId, kernel, watch, batch, Demux, pc, event>>

UserClose(i) ==
  /\ pc \in UserPc
  /\ Live(i)
  /\ CloseSession(i)
  /\ UNCHANGED <<batch, Demux, pc, event>>

-----------------------------------------------------------------------------

Peers == \E f \in Fds : Arrives(f) \/ PeerCloses(f) \/ PeerResets(f)

LoopStep ==
  \/ PollGetEvents \/ LoopDone \/ AfterRecv
  \/ AcceptNext \/ AfterAccept \/ AcceptFails
  \/ \E e \in batch : Serve(e)

UserStep ==
  \/ ListenTo \/ Connected
  \/ \E i \in Ids : UserClose(i) \/ \E n \in 1..MaxW : SendTo(i, n)

Next == Peers \/ LoopStep \/ UserStep

Spec == Init /\ [][Next]_vars

(* waitMsg is called in a loop, callbacks return, and connections do not
   arrive for ever as fast as they are accepted.                          *)
LiveSpec == Spec /\ WF_vars(LoopStep) /\ SF_vars(AcceptFails)

-----------------------------------------------------------------------------

Session ==
  [fd : Fds, kind : {"listen", "accept", "connect"}, wsize : 0..MaxW] \cup {Empty}

Event ==
  [fd : Fds, id : Ids, filter : {"both", "read", "write"}, read : BOOLEAN, write : BOOLEAN]

TypeOK ==
  /\ Demux \in Demuxes
  /\ sessions \in [Ids -> Session]
  /\ curId \in Ids
  /\ open \subseteq Fds
  /\ lost \subseteq Fds
  /\ deaf \subseteq Fds
  /\ listening \subseteq Fds
  /\ peer \in [Fds -> {"up", "fin", "rst"}]
  /\ rx \in [Fds -> Nat]
  /\ watch \in [Fds -> Watches(Ids)]
  /\ batch \subseteq Event
  /\ pc \in UserPc \cup {"loop", "read", "accept", "crashed"}
  /\ id \in Ids
  /\ wants \in BOOLEAN
  /\ sock \in Fds \cup {0}

SocketOf(i) == sessions[i].fd

(***************************************************************************)
(* The sockets of the table are open and no two sessions share one: a      *)
(* descriptor closed and given out again belongs to its new session only.  *)
(* No other socket stays open, accepting with a full table included, but   *)
(* those that could not be bound or were connected with a full table.      *)
(***************************************************************************)
TableOK ==
  /\ \A i \in Ids : Live(i) => SocketOf(i) \in open
  /\ \A i, j \in Ids : Live(i) /\ Live(j) /\ SocketOf(i) = SocketOf(j) => i = j
  /\ open = lost \cup {SocketOf(i) : i \in {j \in Ids : Live(j)}}
  /\ \A i \in Ids : Live(i) => SocketOf(i) \notin lost

(***************************************************************************)
(* What is registered for a descriptor names the session that has it now,  *)
(* so an event reported after a close and an open under the same           *)
(* descriptor is the new session's own.                                    *)
(***************************************************************************)
WatchesOwn ==
  \A f \in Fds : watch[f].known => Live(watch[f].id) /\ SocketOf(watch[f].id) = f

(***************************************************************************)
(* A session of the table is watched for reading, or an event of it is in  *)
(* the batch, or it is being served: neither the one-shot registrations    *)
(* nor the sessions closed and opened inside a batch make one deaf.  One   *)
(* whose pollAdd failed, or was never called, is heard of by nobody.       *)
(***************************************************************************)
NeverDeaf ==
  \A i \in Ids :
    Live(i) /\ pc # "crashed" =>
      \/ watch[SocketOf(i)].read # "off"
      \/ \E e \in batch : e.id = i
      \/ pc \in Serving /\ id = i
      \/ SocketOf(i) \in deaf

(***************************************************************************)
(* What holds between any two steps of loopOnce and its callbacks: the     *)
(* table, the sockets and the registrations agree, whatever was closed,    *)
(* opened or used again inside a batch, and no session of the table is out *)
(* of the loop's sight.                                                    *)
(***************************************************************************)
Inv ==
  /\ TypeOK
  /\ TableOK
  /\ WatchesOwn
  /\ NeverDeaf

(***************************************************************************)
(* An event left in the batch for a session since closed may be served on  *)
(* another with the same id; it never closes that one: the loop closes a   *)
(* session only when the peer has closed or reset it.                      *)
(***************************************************************************)
OnlyGoneClosed ==
  [][\A i \in Ids :
       Live(i) /\ ~Live(i)' /\ Faults \cap {"maxSize", "send"} = {} /\ LoopStep
         => peer[SocketOf(i)] # "up"]_vars

(***************************************************************************)
(* The loop reads the descriptor of a session it has just closed under     *)
(* kqueue only: over the others no event asks for send() while bytes wait, *)
(* so the null entry behind a failed send() is never reached.              *)
(***************************************************************************)
OnlyKqueueCrashes == pc = "crashed" => Demux = "kqueue"

(***************************************************************************)
(* "Provides ... completion event callback interface" (README.md:2): while *)
(* a connection has bytes to read, onRecv is called of it again and again, *)
(* as long as it returns.  Not so under select, whose events are served    *)
(* on session 0.                                                           *)
(***************************************************************************)
Told(f) == pc = "onRecv" /\ SocketOf(id) = f

Delivered ==
  \A f \in Fds : rx[f] > 0 ~> Told(f) \/ f \in listening \/ rx[f] = 0

(***************************************************************************)
(* A connection whose peer closed or reset it is closed.                   *)
(***************************************************************************)
GoneIsClosed == \A f \in Fds : peer[f] # "up" /\ f \in open ~> peer[f] = "up" \/ f \notin open

(***************************************************************************)
(* The connections waiting are accepted or closed, while the process has   *)
(* descriptors left.                                                       *)
(***************************************************************************)
BacklogServed ==
  \A f \in Fds : f \in listening /\ rx[f] > 0 ~> f \notin listening \/ rx[f] = 0 \/ FreeFds = {}

(***************************************************************************)
(* "If the Socket send buffer is full, it will copy the data into the      *)
(* library's built-in IO buffer" (README.md:10): what was copied there is   *)
(* sent, or its session closed.                                            *)
(***************************************************************************)
SentOrClosed == \A i \in Ids : sessions[i].wsize > 0 ~> sessions[i].wsize = 0

=============================================================================
