-------------------------- MODULE WebSocketPoller --------------------------
(***************************************************************************)
(* The WebSocket example over MsgHub (WebSocketPoller.hpp, websocket.cpp   *)
(* and the task queue of MsgHub.cpp): the handshake of either side, the    *)
(* loop that cuts readBuffer into frames, sendMsg, and the tasks other     *)
(* threads leave for the loop thread.                                      *)
(*                                                                         *)
(* What a peer writes is a sequence of items, a handshake and then frames. *)
(* An item arrives in any segments: it is cut into parts (header lines and *)
(* "\r\n\r\n"; fixed header, extended length, masking key, payload), each   *)
(* one unit long, for all the code tests is whether a part is there whole. *)
(* readBuffer holds rsize units of the stream, from unit base on.          *)
(*                                                                         *)
(* The poller underneath is the IOCP one: sendTo may close the session,    *)
(* when the peer reset it or when WSASend fails, and a closed session is   *)
(* cleared but its memory is never used again, so an object stands for an  *)
(* address.  The queue keeps each thread's order (module ImplicitProducer) *)
(* and nothing more.                                                       *)
(***************************************************************************)
EXTENDS Integers, Sequences, SequencesExt

CONSTANTS
  Threads,   \* threads that call genTask
  Lengths,   \* length fields of the data frames, of 0, 1 and 126
  MaxId,     \* Poller::maxId
  MaxObjs,   \* bound: sessions ever made
  MaxItems,  \* bound: items the peers write
  MaxAsks    \* bound: messages and tasks the application makes

Loop == "loop thread"

ASSUME WebSocketAssumption ==
  /\ MaxId \in Nat \ {0}
  /\ MaxObjs \in Nat /\ MaxItems \in Nat /\ MaxAsks \in Nat
  /\ Loop \notin Threads
  /\ Lengths \subseteq {0, 1, 126}

None == 0
Objs == 1..MaxObjs
Ids  == 0..(MaxId - 1)

VARIABLES
  sessions,   \* Poller::sessions
  sid,        \* Session::sessionId, when the session was made
  mode,       \* Session::userData
  isConnect,  \* Session::isConnect
  stream,     \* what the peer of a session wrote, and at which unit each item starts
  base,       \* units erased from readBuffer
  rsize,      \* readBuffer.size
  rst,        \* sessions whose peer reset the connection
  hsKey,      \* whose key WebSocketPoller::hs holds
  told,       \* items given to onReadMsg
  out,        \* what was given to sendTo, and not lost with the session
  tasks,      \* MsgHub::q, by producing thread
  asks,       \* messages and tasks made so far
  pc,         \* what the loop thread is doing
  cur,        \* connp of onRecv
  parseSize   \* parseSize of onRecv

conns == <<sessions, sid, mode, isConnect, rsize>>
input == <<stream, rst>>
ctl   == <<pc, cur, parseSize>>
vars  == <<conns, base, input, hsKey, told, out, tasks, asks, ctl>>

Live(o) == sid[o] \in Ids /\ sessions[sid[o]] = o

-----------------------------------------------------------------------------
(* Items and their units; n0 is the seven-bit length field of a frame *)

(* A request passes with its own key ("GET"), passes unless there is no key
   at all, or is refused, with a key in it or without.                    *)
Requests == {"GET", "GET without key", "refused with key", "refused"}
Answers  == {"HTTP", "not HTTP"}

Handshakes == [op : Requests \cup Answers, mask : {FALSE}, n0 : {0}]

DataFrames == [op : {"data"}, mask : BOOLEAN, n0 : Lengths]

(* Nothing behind one of these is ever looked at. *)
LastFrames ==
  [op : {"control", "reserved", "bits"}, mask : {FALSE}, n0 : {0}]
  \cup [op : {"data"}, mask : {FALSE}, n0 : {127}]

Frames == DataFrames \cup LastFrames

(* The parts of an item, one unit each. *)
Headers == 1
Terminator == 1
FixedHeader == 1
Extension == 1
MaskingKey == 1

Extended(f) == f.n0 \in {126, 127}

(* Mutant: the masking key is not counted. *)
HeaderSizeNoMask(f) == FixedHeader + (IF Extended(f) THEN Extension ELSE 0)

(* header_size of onRecv. *)
HeaderSize(f) ==
  FixedHeader + (IF Extended(f) THEN Extension ELSE 0) + (IF f.mask THEN MaskingKey ELSE 0)

(* N of onRecv. *)
N(f) == IF f.n0 = 0 THEN 0 ELSE 1

(* What the peer wrote, whatever the parser makes of it. *)
FrameParts(f) ==
  1 + (IF f.n0 \in {126, 127} THEN 1 ELSE 0) + (IF f.mask THEN 1 ELSE 0)
    + (IF f.n0 = 0 THEN 0 ELSE 1)

Units(f) == IF f \in Handshakes THEN 2 ELSE FrameParts(f)

(* Where a stream ends, and where its item i starts or will. *)
End(s) == IF s = <<>> THEN 0 ELSE Last(s).at + Units(Last(s).item)
Start(s, i) == IF i <= Len(s) THEN s[i].at ELSE End(s)

(* The unit the parser is looking at, and the item that starts there. *)
Pos(o) == base[o] + (IF o = cur THEN parseSize ELSE 0)
AtFrame(o) == \E i \in 1..Len(stream[o]) : Start(stream[o], i) = Pos(o)
Index(o) == CHOOSE i \in 1..Len(stream[o]) : Start(stream[o], i) = Pos(o)
ItemAt(o) == stream[o][Index(o)].item

-----------------------------------------------------------------------------
Init ==
  /\ sessions = [i \in Ids |-> None]
  /\ sid = [o \in Objs |-> -1]
  /\ mode = [o \in Objs |-> "WAIT"]
  /\ isConnect = [o \in Objs |-> FALSE]
  /\ stream = [o \in Objs |-> <<>>]
  /\ base = [o \in Objs |-> 0]
  /\ rsize = [o \in Objs |-> 0]
  /\ rst = {}
  /\ hsKey = None
  /\ told = [o \in Objs |-> <<>>]
  /\ out = [o \in Objs |-> <<>>]
  /\ tasks = [t \in Threads |-> <<>>]
  /\ asks = 0
  /\ pc = "idle"
  /\ cur = None
  /\ parseSize = 0

(* The peers: units on the way are those written and not yet received. *)
Written == FoldLeft(LAMBDA a, o : a + Len(stream[o]), 0, [o \in Objs |-> o])

PeerWrites(o) ==
  /\ Live(o) /\ o \notin rst
  /\ Written < MaxItems
  /\ \E f \in Handshakes \cup Frames :
       /\ stream[o] = <<>> => f.op \in IF isConnect[o] THEN Answers ELSE Requests
       /\ stream[o] # <<>> => f \in Frames /\ Last(stream[o]).item \notin LastFrames
       /\ stream' = [stream EXCEPT ![o] = Append(@, [item |-> f, at |-> End(@)])]
  /\ UNCHANGED <<conns, base, rst, hsKey, told, out, tasks, asks, ctl>>

PeerResets(o) ==
  /\ Live(o) /\ o \notin rst
  /\ rst' = rst \cup {o}
  /\ UNCHANGED <<conns, base, stream, hsKey, told, out, tasks, asks, ctl>>

-----------------------------------------------------------------------------
(* Sessions *)

(* The next session, under a free id (IdGen: module IocpPoller). *)
NewSession(o, connect, m) ==
  /\ sid[o] = -1 /\ \A p \in Objs : p < o => sid[p] # -1
  /\ \E i \in Ids :
       /\ sessions[i] = None
       /\ sessions' = [sessions EXCEPT ![i] = o]
       /\ sid' = [sid EXCEPT ![o] = i]
  /\ isConnect' = [isConnect EXCEPT ![o] = connect]
  /\ mode' = [mode EXCEPT ![o] = m]
  /\ UNCHANGED rsize

(* closeSession clears the object. *)
Cleared(o, m, size) ==
  /\ sessions' = [sessions EXCEPT ![sid[o]] = None]
  /\ mode' = [mode EXCEPT ![o] = m]
  /\ rsize' = [rsize EXCEPT ![o] = size]
  /\ isConnect' = [isConnect EXCEPT ![o] = FALSE]
  /\ UNCHANGED sid

(* Mutant: closeSession leaves readBuffer as it is. *)
CloseSessionKeepsInput(o) == Cleared(o, mode[o], rsize[o])

CloseSession(o) == Cleared(o, "WAIT", 0)

(* onAccept: the one handshake record of the poller is emptied. *)
OnAccept ==
  /\ pc = "idle"
  /\ \E o \in Objs : NewSession(o, FALSE, "WAIT")
  /\ hsKey' = None
  /\ UNCHANGED <<base, input, told, out, tasks, asks, ctl>>

(* do_recv found the end of the stream or an error. *)
RecvFails(o) ==
  /\ pc = "idle"
  /\ Live(o) /\ o \in rst
  /\ CloseSession(o)
  /\ UNCHANGED <<base, input, hsKey, told, out, tasks, asks, ctl>>

-----------------------------------------------------------------------------
(* sendTo, sendMsg, and the tasks *)

Sent(o, units) == out' = [out EXCEPT ![o] = @ \o units]

Unit(kind, by, m) == [kind |-> kind, by |-> by, m |-> m]

(* Mutant: the payload is left out when the head had to wait. *)
SendMsgHeadOnly(o, by, m) ==
  /\ \/ Sent(o, <<Unit("head", by, m), Unit("body", by, m)>>)
     \/ Sent(o, <<Unit("head", by, m)>>)
  /\ UNCHANGED <<conns, pc>>

(* sendMsg2 calls sendTo for the head of the frame and for its payload.
   Either call may close the session: after the first did, the second
   follows a null context.                                                *)
SendMsg(o, by, m) ==
  \/ /\ Sent(o, <<Unit("head", by, m), Unit("body", by, m)>>)
     /\ UNCHANGED <<conns, pc>>
  \/ /\ Sent(o, <<Unit("head", by, m)>>)
     /\ CloseSession(o)
     /\ UNCHANGED pc
  \/ /\ CloseSession(o)
     /\ pc' = "crashed"
     /\ UNCHANGED out

(* The application's code on the loop thread, in a callback or outside. *)
AppHasControl == pc \in {"idle", "onReadMsg", "onHandShake"}

AppSends(o) ==
  /\ AppHasControl /\ Live(o)
  /\ asks < MaxAsks
  /\ asks' = asks + 1
  /\ SendMsg(o, Loop, asks)
  /\ UNCHANGED <<base, input, hsKey, told, tasks, cur, parseSize>>

AppCloses(o) ==
  /\ AppHasControl /\ Live(o)
  /\ CloseSession(o)
  /\ UNCHANGED <<base, input, hsKey, told, out, tasks, asks, ctl>>

(* The types of a task (enum TASK_TYPE); "SHORT" stands for one of the last
   three whose len does not exceed the size of its structure.             *)
TaskTypes == {"NONE", "SHORT", "SEND_TO", "CLOSE_SESSION", "CONNECT_TO"}

(* genTask on any thread, about a session it has heard of, which may have
   been closed since; a connection is asked for without one.              *)
GenTask(t) ==
  /\ asks < MaxAsks
  /\ asks' = asks + 1
  /\ \E task \in [type : TaskTypes, obj : {None} \cup Objs] :
       /\ task.obj = None <=> task.type \in {"NONE", "CONNECT_TO"}
       /\ task.obj # None => sid[task.obj] # -1
       /\ \E id \in IF task.obj = None THEN Ids ELSE {sid[task.obj]} :
            tasks' = [tasks EXCEPT ![t] =
                        Append(@, [type |-> task.type, obj |-> task.obj, id |-> id, m |-> asks])]
  /\ UNCHANGED <<conns, base, input, hsKey, told, out, ctl>>

(* onConnect: the request is sent; should that close the session, its
   object is already off the table.                                       *)
OnConnect(o) ==
  \/ NewSession(o, TRUE, "REQ") /\ Sent(o, <<Unit("request", Loop, None)>>)
  \/ /\ sid[o] = -1 /\ \A p \in Objs : p < o => sid[p] # -1
     /\ \E i \in Ids : sessions[i] = None /\ sid' = [sid EXCEPT ![o] = i]
     /\ mode' = [mode EXCEPT ![o] = "REQ"]
     /\ UNCHANGED <<sessions, isConnect, rsize, out>>

(* Mutant: only the id is looked up. *)
ForItsSessionById(task) == task.obj # None => sessions[task.id] # None

ForItsSession(task) == sessions[task.id] = task.obj

NextTask(t) == Head(tasks[t])

(* onTask takes one task: of any thread, that thread's oldest.  A short one
   is dropped, and one of type 0 ends the program.                        *)
OnTask(t) ==
  /\ pc = "idle"
  /\ tasks[t] # <<>>
  /\ tasks' = [tasks EXCEPT ![t] = Tail(@)]
  /\ LET task == NextTask(t)
     IN  \/ /\ ~ForItsSession(task)
            /\ UNCHANGED <<conns, out, pc>>
         \/ /\ ForItsSession(task) /\ task.type = "SHORT"
            /\ UNCHANGED <<conns, out, pc>>
         \/ /\ ForItsSession(task) /\ task.type = "NONE"
            /\ pc' = "aborted"
            /\ UNCHANGED <<conns, out>>
         \/ /\ ForItsSession(task) /\ task.type = "SEND_TO"
            /\ SendMsg(task.obj, t, task.m)
         \/ /\ ForItsSession(task) /\ task.type = "CLOSE_SESSION"
            /\ sessions[task.id] # None
            /\ CloseSession(sessions[task.id])
            /\ UNCHANGED <<out, pc>>
         \/ /\ ForItsSession(task) /\ task.type = "CONNECT_TO"
            /\ \/ \E o \in Objs : OnConnect(o)
               \/ UNCHANGED <<conns, out>>
            /\ UNCHANGED pc
  /\ UNCHANGED <<base, input, hsKey, told, asks, cur, parseSize>>

-----------------------------------------------------------------------------
(* onRecv *)

Unreceived(o) == End(stream[o]) - (base[o] + rsize[o])

(* do_recv read k units and calls onRecv. *)
Recv(o) ==
  /\ pc = "idle"
  /\ Live(o)
  /\ \E k \in 1..Unreceived(o) : rsize' = [rsize EXCEPT ![o] = @ + k]
  /\ cur' = o
  /\ pc' = CASE mode[o] = "WAIT" -> "request" [] mode[o] = "REQ" -> "answer" [] OTHER -> "parse"
  /\ UNCHANGED <<sessions, sid, mode, isConnect, base, input, hsKey, told, out, tasks, asks, parseSize>>

Return == pc' = "idle" /\ cur' = None /\ parseSize' = 0

(* memstr finds the end of the first header block in readBuffer. *)
HeadersEnd == Headers + Terminator
HeadersIn(o) == rsize[o] >= HeadersEnd

ClosedInOnRecv ==
  /\ CloseSession(cur)
  /\ Return
  /\ UNCHANGED <<base, input, told, out, tasks, asks>>

HeadersIncomplete ==
  /\ pc \in {"request", "answer"}
  /\ ~HeadersIn(cur)
  /\ Return
  /\ UNCHANGED <<conns, base, input, hsKey, told, out, tasks, asks>>

(* What wsParseHandshake leaves in hs.key, whatever it answers. *)
KeyAfterParse(f, o) == IF f.op \in {"GET", "refused with key"} THEN o ELSE hsKey

(* A request without a key passes when hs still holds one, whosever. *)
Passes(f, o) == f.op \in {"GET", "GET without key"} /\ KeyAfterParse(f, o) # None

RequestRefused ==
  /\ pc = "request" /\ HeadersIn(cur)
  /\ ~Passes(ItemAt(cur), cur)
  /\ hsKey' = KeyAfterParse(ItemAt(cur), cur)
  /\ ClosedInOnRecv

EraseHeaders(o) ==
  /\ base' = [base EXCEPT ![o] = @ + HeadersEnd]
  /\ rsize' = [rsize EXCEPT ![o] = @ - HeadersEnd]

(* The answer is sent.  When sendTo closes the session instead, onRecv goes
   on with the cleared object: its size turns negative.                   *)
RequestAccepted ==
  /\ pc = "request" /\ HeadersIn(cur)
  /\ Passes(ItemAt(cur), cur)
  /\ hsKey' = KeyAfterParse(ItemAt(cur), cur)
  /\ \/ /\ Sent(cur, <<Unit("answer", Loop, hsKey')>>)
        /\ mode' = [mode EXCEPT ![cur] = "FRAME"]
        /\ EraseHeaders(cur)
        /\ UNCHANGED <<sessions, sid, isConnect>>
        /\ IF rsize'[cur] = 0 THEN Return ELSE pc' = "parse" /\ UNCHANGED <<cur, parseSize>>
     \/ /\ Cleared(cur, "FRAME", -HeadersEnd)
        /\ base' = [base EXCEPT ![cur] = @ + HeadersEnd]
        /\ pc' = "parse"
        /\ UNCHANGED <<out, cur, parseSize>>
  /\ UNCHANGED <<input, told, tasks, asks>>

(* The answer to a client is looked at for "HTTP" only. *)
AnswerRefused ==
  /\ pc = "answer" /\ HeadersIn(cur)
  /\ ItemAt(cur).op = "not HTTP"
  /\ ClosedInOnRecv /\ UNCHANGED hsKey

AnswerAccepted ==
  /\ pc = "answer" /\ HeadersIn(cur)
  /\ ItemAt(cur).op = "HTTP"
  /\ mode' = [mode EXCEPT ![cur] = "FRAME"]
  /\ EraseHeaders(cur)
  /\ pc' = "onHandShake"
  /\ UNCHANGED <<sessions, sid, isConnect, input, hsKey, told, out, tasks, asks, cur, parseSize>>

AfterHandShake ==
  /\ pc = "onHandShake"
  /\ IF rsize[cur] = 0 THEN Return ELSE pc' = "parse" /\ UNCHANGED <<cur, parseSize>>
  /\ UNCHANGED <<conns, base, input, hsKey, told, out, tasks, asks>>

-----------------------------------------------------------------------------
(* The loop over the frames in readBuffer *)

InputLength == rsize[cur] - parseSize

HeadIn == InputLength >= FixedHeader

Known(f) == f.op \in {"data", "control"}

(* Mutant: a frame that ends where the buffer does is not there yet. *)
FrameInStrict(f) == InputLength > HeaderSize(f) + N(f)

FrameIn(f) == InputLength >= HeaderSize(f) + N(f)

(* The loop is left: what was parsed is erased. *)
ParseEnds ==
  /\ pc = "parse"
  /\ HeadIn => /\ AtFrame(cur)
               /\ LET f == ItemAt(cur)
                  IN  \/ f.op = "reserved"
                      \/ Known(f) /\ f.n0 # 127 /\ ~FrameIn(f)
                      \/ Known(f) /\ InputLength < HeaderSize(f)
  /\ rsize' = [rsize EXCEPT ![cur] = @ - parseSize]
  /\ base' = [base EXCEPT ![cur] = @ + parseSize]
  /\ Return
  /\ UNCHANGED <<sessions, sid, mode, isConnect, input, hsKey, told, out, tasks, asks>>

(* Extension bits, or a frame that is not the last of its message. *)
ParseRefuses ==
  /\ pc = "parse" /\ HeadIn /\ AtFrame(cur)
  /\ ItemAt(cur).op = "bits"
  /\ ClosedInOnRecv /\ UNCHANGED hsKey

ParseAborts ==
  /\ pc = "parse" /\ HeadIn /\ AtFrame(cur)
  /\ Known(ItemAt(cur)) /\ ItemAt(cur).n0 = 127
  /\ InputLength >= HeaderSize(ItemAt(cur))
  /\ pc' = "aborted"
  /\ UNCHANGED <<conns, base, input, hsKey, told, out, tasks, asks, cur, parseSize>>

ParseData ==
  /\ pc = "parse" /\ HeadIn /\ AtFrame(cur)
  /\ ItemAt(cur).op = "data" /\ ItemAt(cur).n0 # 127 /\ FrameIn(ItemAt(cur))
  /\ told' = [told EXCEPT ![cur] = Append(@, Index(cur))]
  /\ pc' = "onReadMsg"
  /\ UNCHANGED <<conns, base, input, hsKey, out, tasks, asks, cur, parseSize>>

(* onReadMsg returned.  The frame was in readBuffer, whose units the
   parser goes past whether or not the session was closed meanwhile.             *)
AfterReadMsg ==
  /\ pc = "onReadMsg"
  /\ pc' = "parse"
  /\ parseSize' = parseSize + HeaderSize(ItemAt(cur)) + N(ItemAt(cur))
  /\ UNCHANGED <<conns, base, input, hsKey, told, out, tasks, asks, cur>>

(* A whole ping, pong or close: the loop looks at it again and again. *)
Spinning ==
  /\ pc = "parse" /\ HeadIn /\ AtFrame(cur)
  /\ ItemAt(cur).op = "control" /\ FrameIn(ItemAt(cur))

-----------------------------------------------------------------------------

OnRecv ==
  \/ HeadersIncomplete \/ RequestRefused \/ RequestAccepted
  \/ AnswerRefused \/ AnswerAccepted \/ AfterHandShake
  \/ ParseData \/ AfterReadMsg \/ ParseEnds \/ ParseRefuses \/ ParseAborts

Next ==
  \/ OnAccept
  \/ OnRecv
  \/ \E o \in Objs :
       PeerWrites(o) \/ PeerResets(o) \/ RecvFails(o) \/ Recv(o) \/ AppSends(o) \/ AppCloses(o)
  \/ \E t \in Threads : GenTask(t) \/ OnTask(t)

Spec == Init /\ [][Next]_vars

(* The loop thread runs on and its callbacks return; between calls of
   waitMsg, which serves the sockets, the application calls onTask.       *)
LiveSpec ==
  /\ Spec
  /\ WF_vars(OnRecv)
  /\ \A o \in Objs : SF_vars(Recv(o))
  /\ \A t \in Threads : SF_vars(OnTask(t))

-----------------------------------------------------------------------------

TypeOK ==
  /\ sessions \in [Ids -> Objs \cup {None}]
  /\ sid \in [Objs -> Ids \cup {-1}]
  /\ mode \in [Objs -> {"WAIT", "REQ", "FRAME"}]
  /\ isConnect \in [Objs -> BOOLEAN]
  /\ stream \in [Objs -> Seq([item : Handshakes \cup Frames, at : Nat])]
  /\ base \in [Objs -> Nat]
  /\ rsize \in [Objs -> Int] /\ \A o \in Objs : Live(o) => rsize[o] >= 0
  /\ rst \subseteq Objs
  /\ hsKey \in Objs \cup {None}
  /\ told \in [Objs -> Seq(Nat)]
  /\ out \in [Objs -> Seq([kind : {"request", "answer", "head", "body"},
                           by : Threads \cup {Loop}, m : Nat])]
  /\ tasks \in [Threads -> Seq([type : TaskTypes, obj : Objs \cup {None}, id : Ids, m : Nat])]
  /\ asks \in 0..MaxAsks
  /\ pc \in {"idle", "request", "answer", "parse", "onReadMsg", "onHandShake", "crashed", "aborted"}
  /\ cur \in Objs \cup {None}
  /\ parseSize \in Nat

(***************************************************************************)
(* However the bytes are cut into segments, the parser stands at the start *)
(* of a frame, and the application was given the data frames before it,    *)
(* each once, in order and whole.  (A crash leaves it inside a callback.)  *)
(***************************************************************************)
MessagesInOrder ==
  \A o \in Objs :
    LET n    == Len(told[o]) + 1  \* items the parser is done with, the request first
        here == IF pc = "onReadMsg" /\ o = cur THEN n ELSE n + 1
    IN  /\ told[o] = [k \in 1..(n - 1) |-> k + 1]
        /\ Live(o) /\ pc # "crashed" =>
             IF mode[o] = "FRAME"
             THEN /\ Pos(o) = Start(stream[o], here)
                  /\ Start(stream[o], n + 1) <= base[o] + rsize[o]
             ELSE base[o] = 0 /\ n = 1

(***************************************************************************)
(* A closed session is silent: when onReadMsg closes its own session, or   *)
(* sendTo does, the rest of onRecv gives it no message and sends nothing,  *)
(* and a task made for it while it lived does nothing later.               *)
(***************************************************************************)
SilentAfterClose ==
  [][\A o \in Objs :
       sid[o] # -1 /\ ~Live(o) => told'[o] = told[o] /\ out'[o] = out[o]]_vars

(***************************************************************************)
(* A task acts on the session it was made for, and on no other that got    *)
(* its id meanwhile.                                                       *)
(***************************************************************************)
ActsOnItsSession ==
  [][\A t \in Threads : OnTask(t) =>
       \A o \in Objs : Live(o) /\ o # NextTask(t).obj => Live(o)' /\ out'[o] = out[o]]_vars

(***************************************************************************)
(* The output of a session is whole frames: a head is followed by its own  *)
(* payload, unless it is the last thing sent and the session was closed.   *)
(***************************************************************************)
FramesWhole ==
  \A o \in Objs :
    LET s == out[o]
    IN  /\ \A i \in 1..Len(s) :
             /\ s[i].kind = "head" =>
                  IF i = Len(s) THEN ~Live(o)
                  ELSE s[i + 1] = [s[i] EXCEPT !.kind = "body"]
             /\ s[i].kind = "body" => i > 1 /\ s[i - 1] = [s[i] EXCEPT !.kind = "head"]

(***************************************************************************)
(* At every point of onRecv and of the callbacks it makes, the parser and  *)
(* the session agree.                                                      *)
(***************************************************************************)
Inv ==
  /\ TypeOK
  /\ MessagesInOrder

(***************************************************************************)
(* A data frame that is not behind a frame of another kind is given to the *)
(* application, or its session is closed.  The exception is a loop thread  *)
(* that does not come back: a whole ping, pong or close frame at the front *)
(* leaves parseSize where it is and the loop goes round for ever; a null   *)
(* context, a length of 127 and a task of type 0 end the program.          *)
(***************************************************************************)
Hung == pc \in {"crashed", "aborted"} \/ Spinning

Owed(o) ==
  /\ Live(o)
  /\ \E n \in (Len(told[o]) + 2)..Len(stream[o]) :
       \A i \in 2..n : stream[o][i].item.op = "data" /\ stream[o][i].item.n0 # 127

MessagesTold == \A o \in Objs : Owed(o) ~> ~Owed(o) \/ Hung

=============================================================================
