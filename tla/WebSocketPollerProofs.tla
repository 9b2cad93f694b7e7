------------------------ MODULE WebSocketPollerProofs ------------------------
(***************************************************************************)
(* What holds of the WebSocket example for any number of sessions, ids,    *)
(* threads, items and messages: that every data frame is told once, in     *)
(* order and whole however the bytes are cut, that the output is whole     *)
(* frames, that a closed session is silent and a task acts on its own.     *)
(***************************************************************************)
EXTENDS WebSocketPoller, SequenceTheorems, TLAPS

-----------------------------------------------------------------------------
(* The inductive invariant *)

Items == [item : Handshakes \cup Frames, at : Nat]

(* A stream is a handshake and frames, each where the one before it ends. *)
Layout(s) ==
  /\ s # <<>> => s[1].at = 0 /\ s[1].item \in Handshakes
  /\ \A i \in 1..Len(s) : i > 1 => s[i].item \in Frames
  /\ \A i, j \in 1..Len(s) : j = i + 1 => s[j].at = s[i].at + Units(s[i].item)
  /\ \A i, j \in 1..Len(s) : i < j => s[i].at < s[j].at

StreamOK == \A o \in Objs : Layout(stream[o])

(* The objects no session was made of. *)
Fresh ==
  \A o \in Objs : sid[o] = -1 =>
    stream[o] = <<>> /\ base[o] = 0 /\ rsize[o] = 0 /\ told[o] = <<>> /\ out[o] = <<>>

(* Nothing is read from a session that is closed. *)
Gone == \A o \in Objs : ~Live(o) => rsize[o] <= 0

(* A task has the id of the session it was made for. *)
TasksOK ==
  \A t \in Threads : \A k \in 1..Len(tasks[t]) :
    LET task == tasks[t][k]
    IN  /\ task.obj = None <=> task.type \in {"NONE", "CONNECT_TO"}
        /\ task.obj # None => sid[task.obj] = task.id

(* What onRecv works on. *)
LoopOK ==
  /\ pc = "idle" => cur = None /\ parseSize = 0
  /\ pc \in {"request", "answer", "parse", "onReadMsg", "onHandShake"} =>
       cur \in Objs /\ sid[cur] # -1
  /\ pc \in {"request", "answer", "onHandShake"} => parseSize = 0
  /\ pc \in {"request", "answer"} => Live(cur) /\ mode[cur] # "FRAME"
  /\ pc \in {"parse", "onReadMsg", "onHandShake"} /\ Live(cur) => mode[cur] = "FRAME"

(* Items the parser is done with, the handshake first. *)
Done(o) == Len(told[o]) + 1

(* A data frame is in the hands of the application. *)
InHand(o) == pc = "onReadMsg" /\ o = cur

(* What was told are the first frames; what is in readBuffer was written;
   and the parser stands at the frame in hand or at the next.             *)
Reading(o) ==
  /\ told[o] = [k \in 1..(Done(o) - 1) |-> k + 1]
  /\ Live(o) /\ pc # "crashed" =>
       /\ base[o] + rsize[o] <= End(stream[o])
       /\ mode[o] = "FRAME" =>
            /\ Done(o) <= Len(stream[o])
            /\ Pos(o) = Start(stream[o], IF InHand(o) THEN Done(o) ELSE Done(o) + 1)
            /\ Start(stream[o], Done(o) + 1) <= base[o] + rsize[o]
       /\ mode[o] # "FRAME" => base[o] = 0 /\ Done(o) = 1
  /\ InHand(o) =>
       /\ Done(o) <= Len(stream[o]) /\ Pos(o) = stream[o][Done(o)].at
       /\ stream[o][Done(o)].item \in DataFrames

ReadingOK == \A o \in Objs : Reading(o)

BodyOf(u) == [u EXCEPT !.kind = "body"]
HeadOf(u) == [u EXCEPT !.kind = "head"]

(* A head is followed by its body, and a body follows its head. *)
Paired(s, i) ==
  /\ s[i].kind = "head" => i < Len(s) /\ s[i + 1] = BodyOf(s[i])
  /\ s[i].kind = "body" => i > 1 /\ s[i - 1] = HeadOf(s[i])

(* The output of a session is whole frames, but for the last of one closed. *)
WholeOut(s, live) ==
  \A i \in 1..Len(s) : Paired(s, i) \/ (s[i].kind = "head" /\ i = Len(s) /\ ~live)

OutputOK == \A o \in Objs : WholeOut(out[o], Live(o))

IInv ==
  /\ TypeOK
  /\ StreamOK
  /\ Fresh
  /\ Gone
  /\ TasksOK
  /\ LoopOK
  /\ ReadingOK
  /\ OutputOK

-----------------------------------------------------------------------------
(* Items and streams *)

(* An item is some units long, and the parser counts those of a data frame
   as its peer does.                                                      *)
LEMMA UnitsIs ==
  ASSUME NEW f \in Handshakes \cup Frames
  PROVE  /\ Units(f) \in Nat \ {0}
         /\ f \in Handshakes => Units(f) = HeadersEnd
         /\ f \in DataFrames => HeaderSize(f) + N(f) = Units(f) /\ HeaderSize(f) \in Nat /\ N(f) \in Nat
         /\ f.op = "data" /\ f.n0 # 127 => f \in DataFrames
  <1>1. /\ f \in Handshakes => f \notin DataFrames /\ f.op # "data"
        /\ f \in Frames => f \notin Handshakes /\ (f.op = "data" /\ f.n0 # 127 => f \in DataFrames)
    BY DEF Handshakes, Requests, Answers, Frames, DataFrames, LastFrames
  <1>2. f \in Handshakes => Units(f) = 2 /\ HeadersEnd = 2
    BY DEF Units, HeadersEnd, Headers, Terminator
  <1>3. f \notin Handshakes => Units(f) = FrameParts(f)
    BY DEF Units
  <1> DEFINE x == IF f.n0 \in {126, 127} THEN 1 ELSE 0
             m == IF f.mask THEN 1 ELSE 0
             b == IF f.n0 = 0 THEN 0 ELSE 1
  <1>4. x \in {0, 1} /\ m \in {0, 1} /\ b \in {0, 1}
    OBVIOUS
  <1>5. FrameParts(f) = 1 + x + m + b /\ HeaderSize(f) = 1 + x + m /\ N(f) = b
    BY DEF FrameParts, HeaderSize, N, Extended, FixedHeader, Extension, MaskingKey
  <1> HIDE DEF x, m, b
  <1>6. FrameParts(f) \in Nat \ {0} /\ HeaderSize(f) + N(f) = FrameParts(f)
        /\ HeaderSize(f) \in Nat /\ N(f) \in Nat
    BY <1>4, <1>5
  <1> QED BY <1>1, <1>2, <1>3, <1>6

(* Where items start and where the stream ends. *)
LEMMA LayoutIs ==
  ASSUME NEW s \in Seq(Items), Layout(s)
  PROVE  /\ End(s) \in Nat
         /\ \A i \in 1..Len(s) : /\ s[i].at \in Nat /\ s[i].at < End(s)
                                 /\ s[i].item \in Handshakes \cup Frames
                                 /\ Start(s, i + 1) = s[i].at + Units(s[i].item)
                                 /\ Start(s, i + 1) <= End(s)
  <1>1. \A i \in 1..Len(s) : s[i].at \in Nat /\ s[i].item \in Handshakes \cup Frames
    <2>1. \A i \in 1..Len(s) : s[i] \in Items
      OBVIOUS
    <2> QED BY <2>1 DEF Items
  <1>2. \A i \in 1..Len(s) : Units(s[i].item) \in Nat \ {0}
    BY <1>1, UnitsIs
  <1>3. CASE s = <<>>
    BY <1>3 DEF End
  <1>4. CASE s # <<>>
    <2>1. Len(s) \in Nat \ {0} /\ Len(s) \in 1..Len(s)
      BY <1>4
    <2>2. End(s) = s[Len(s)].at + Units(s[Len(s)].item)
      BY <1>4 DEF End, Last
    <2>3. End(s) \in Nat
      BY <1>1, <1>2, <2>1, <2>2
    <2>4. ASSUME NEW i \in 1..Len(s)
          PROVE  /\ s[i].at < End(s) /\ Start(s, i + 1) = s[i].at + Units(s[i].item)
                 /\ Start(s, i + 1) <= End(s)
      <3>1. CASE i = Len(s)
        BY <1>1, <1>2, <2>1, <2>2, <3>1 DEF Start
      <3>2. CASE i # Len(s)
        <4>1. i + 1 \in 1..Len(s) /\ i < Len(s)
          BY <2>1, <3>2
        <4>2. s[i].at < s[Len(s)].at /\ s[i + 1].at = s[i].at + Units(s[i].item) /\ s[i + 1].at <= s[Len(s)].at
          BY <1>1, <2>1, <4>1 DEF Layout
        <4>3. Start(s, i + 1) = s[i + 1].at /\ s[Len(s)].at < End(s)
          BY SMTT(30), <1>1, <1>2, <2>1, <2>2, <4>1 DEF Start
        <4> QED BY <1>1, <2>1, <2>3, <4>1, <4>2, <4>3
      <3> QED BY <3>1, <3>2
    <2> QED BY <1>1, <2>3, <2>4
  <1> QED BY <1>3, <1>4

(* The peer writes one more item. *)
LEMMA LayoutGrows ==
  ASSUME NEW s \in Seq(Items), Layout(s), NEW f \in Handshakes \cup Frames,
         s = <<>> => f \in Handshakes, s # <<>> => f \in Frames,
         NEW z, z = Append(s, [item |-> f, at |-> End(s)])
  PROVE  /\ z \in Seq(Items) /\ Layout(z) /\ Len(z) = Len(s) + 1
         /\ End(s) <= End(z)
         /\ \A i \in 1..Len(s) : z[i] = s[i] /\ Start(z, i + 1) = Start(s, i + 1)
  <1> DEFINE e == [item |-> f, at |-> End(s)]
             n == Len(s) + 1
  <1>1. End(s) \in Nat /\ \A i \in 1..Len(s) : s[i].at \in Nat /\ s[i].at < End(s)
    BY LayoutIs
  <1>2. e \in Items /\ e.item = f /\ e.at = End(s)
    BY <1>1 DEF Items
  <1> HIDE DEF e
  <1>3. /\ z \in Seq(Items) /\ Len(z) = n /\ z[n] = e /\ \A i \in 1..Len(s) : z[i] = s[i]
    BY <1>2 DEF e
  <1>4. Len(s) \in Nat /\ z # <<>> /\ (s = <<>> <=> Len(s) = 0) /\ Units(f) \in Nat \ {0}
    BY <1>3, UnitsIs
  <1>5. End(z) = End(s) + Units(f)
    BY <1>2, <1>3, <1>4 DEF End, Last
  <1>6. s # <<>> => End(s) = s[Len(s)].at + Units(s[Len(s)].item)
    BY DEF End, Last
  <1>7. Layout(z)
    <2>1. z[1].at = 0 /\ z[1].item \in Handshakes
      <3>1. CASE s = <<>>
        BY <1>2, <1>3, <1>4, <3>1 DEF End
      <3>2. CASE s # <<>>
        BY <1>3, <1>4, <3>2 DEF Layout
      <3> QED BY <3>1, <3>2
    <2>2. ASSUME NEW i \in 1..Len(z), i > 1 PROVE z[i].item \in Frames
      <3>1. CASE i = n
        BY <1>2, <1>3, <1>4, <2>2, <3>1
      <3>2. CASE i # n
        BY <1>3, <1>4, <2>2, <3>2 DEF Layout
      <3> QED BY <3>1, <3>2
    <2>3. ASSUME NEW i \in 1..Len(z), NEW j \in 1..Len(z), j = i + 1
          PROVE  z[j].at = z[i].at + Units(z[i].item)
      <3>1. CASE j = n
        BY <1>2, <1>3, <1>4, <1>6, <2>3, <3>1
      <3>2. CASE j # n
        BY <1>3, <1>4, <2>3, <3>2 DEF Layout
      <3> QED BY <3>1, <3>2
    <2>4. ASSUME NEW i \in 1..Len(z), NEW j \in 1..Len(z), i < j
          PROVE  z[i].at < z[j].at
      <3>1. CASE j = n
        BY <1>1, <1>2, <1>3, <1>4, <2>4, <3>1
      <3>2. CASE j # n
        BY <1>3, <1>4, <2>4, <3>2 DEF Layout
      <3> QED BY <3>1, <3>2
    <2> QED BY <2>1, <2>2, <2>3, <2>4 DEF Layout
  <1>8. ASSUME NEW i \in 1..Len(s) PROVE Start(z, i + 1) = Start(s, i + 1)
    <2>1. CASE i = Len(s)
      BY <1>2, <1>3, <1>4, <2>1 DEF Start
    <2>2. CASE i # Len(s)
      BY <1>3, <1>4, <2>2 DEF Start
    <2> QED BY <2>1, <2>2
  <1> QED BY <1>1, <1>3, <1>4, <1>5, <1>7, <1>8

(* The item the parser stands at is the one that starts there. *)
LEMMA IndexIs ==
  ASSUME StreamOK, stream \in [Objs -> Seq(Items)], NEW o \in Objs, AtFrame(o)
  PROVE  /\ Index(o) \in 1..Len(stream[o]) /\ stream[o][Index(o)].at = Pos(o)
         /\ \A i \in 1..Len(stream[o]) : stream[o][i].at = Pos(o) => Index(o) = i
         /\ ItemAt(o) \in Handshakes \cup Frames
  <1> DEFINE s == stream[o]
  <1>1. \A i \in 1..Len(s) : Start(s, i) = s[i].at /\ s[i].at \in Nat /\ s[i].item \in Handshakes \cup Frames
    <2>1. s \in Seq(Items) /\ Len(s) \in Nat
      OBVIOUS
    <2>2. \A i \in 1..Len(s) : s[i] \in Items /\ i <= Len(s)
      BY <2>1
    <2> QED BY <2>2 DEF Items, Start
  <1>2. Index(o) \in 1..Len(s) /\ s[Index(o)].at = Pos(o)
    BY <1>1 DEF AtFrame, Index
  <1>3. \A i, j \in 1..Len(s) : s[i].at = s[j].at => i = j
    BY <1>1 DEF StreamOK, Layout
  <1> QED BY <1>1, <1>2, <1>3 DEF ItemAt

-----------------------------------------------------------------------------
(* Sessions *)

Modes == {"WAIT", "REQ", "FRAME"}

ConnTypeOK ==
  /\ sessions \in [Ids -> Objs \cup {None}]
  /\ sid \in [Objs -> Ids \cup {-1}]
  /\ mode \in [Objs -> Modes]
  /\ isConnect \in [Objs -> BOOLEAN]
  /\ rsize \in [Objs -> Int] /\ \A o \in Objs : Live(o) => rsize[o] >= 0

(* A session is after a step what it was before. *)
Kept(p) ==
  /\ Live(p)' <=> Live(p)
  /\ sid'[p] = sid[p] /\ mode'[p] = mode[p] /\ rsize'[p] = rsize[p]

(* closeSession touches its session only. *)
LEMMA ClosingIs ==
  ASSUME ConnTypeOK, Gone, NEW o \in Objs, Live(o),
         NEW m \in Modes, NEW size \in Int, size <= 0, Cleared(o, m, size)
  PROVE  /\ ConnTypeOK' /\ Gone' /\ ~Live(o)'
         /\ sid' = sid /\ rsize'[o] = size /\ sid[o] \in Ids
         /\ \A p \in Objs \ {o} : Kept(p)
  <1>1. /\ sessions' = [sessions EXCEPT ![sid[o]] = None] /\ mode' = [mode EXCEPT ![o] = m]
        /\ rsize' = [rsize EXCEPT ![o] = size] /\ isConnect' = [isConnect EXCEPT ![o] = FALSE]
        /\ sid' = sid
    BY DEF Cleared
  <1>2. sid[o] \in Ids /\ sessions[sid[o]] = o /\ None \notin Objs
    BY DEF Live, None, Objs
  <1>3. ~Live(o)' /\ rsize'[o] = size
    BY <1>1, <1>2 DEF Live, ConnTypeOK
  <1>4. \A p \in Objs \ {o} : Kept(p)
    BY <1>1, <1>2 DEF Live, Kept, ConnTypeOK
  <1>5. /\ sessions' \in [Ids -> Objs \cup {None}] /\ sid' \in [Objs -> Ids \cup {-1}]
        /\ mode' \in [Objs -> Modes] /\ isConnect' \in [Objs -> BOOLEAN] /\ rsize' \in [Objs -> Int]
    BY <1>1 DEF ConnTypeOK
  <1>6. \A p \in Objs : (Live(p)' => rsize'[p] >= 0) /\ (~Live(p)' => rsize'[p] <= 0)
    BY <1>3, <1>4 DEF Kept, ConnTypeOK, Gone
  <1> QED BY <1>1, <1>2, <1>3, <1>4, <1>5, <1>6 DEF ConnTypeOK, Gone

(* A session is made of a fresh object, and may be off the table again. *)
LEMMA OpeningIs ==
  ASSUME ConnTypeOK, Gone, Fresh, NEW o \in Objs, sid[o] = -1, NEW m \in Modes,
         NEW i \in Ids, sessions[i] = None, sid' = [sid EXCEPT ![o] = i],
         sessions' = [sessions EXCEPT ![i] = o] \/ sessions' = sessions,
         mode' = [mode EXCEPT ![o] = m], isConnect' \in [Objs -> BOOLEAN], rsize' = rsize
  PROVE  /\ ConnTypeOK' /\ Gone'
         /\ sid'[o] = i /\ mode'[o] = m /\ rsize'[o] = 0
         /\ \A p \in Objs \ {o} : Kept(p)
  <1>1. None \notin Objs /\ sid'[o] = i /\ mode'[o] = m /\ rsize'[o] = 0
    BY DEF None, Objs, ConnTypeOK, Fresh
  <1>2. \A p \in Objs \ {o} : Kept(p)
    BY <1>1 DEF Live, Kept, ConnTypeOK
  <1>3. /\ sessions' \in [Ids -> Objs \cup {None}] /\ sid' \in [Objs -> Ids \cup {-1}]
        /\ mode' \in [Objs -> Modes] /\ rsize' \in [Objs -> Int]
    BY DEF ConnTypeOK
  <1>4. \A p \in Objs : (Live(p)' => rsize'[p] >= 0) /\ (~Live(p)' => rsize'[p] <= 0)
    BY <1>1, <1>2 DEF Kept, ConnTypeOK, Gone
  <1> QED BY <1>1, <1>2, <1>3, <1>4 DEF ConnTypeOK, Gone

-----------------------------------------------------------------------------
(* Output *)

Output == [kind : {"request", "answer", "head", "body"}, by : Threads \cup {Loop}, m : Nat]

(* FramesWhole, in these terms. *)
LEMMA WholeIs ==
  ASSUME \A o \in Objs : out[o] \in Seq(Output)
  PROVE  FramesWhole <=> OutputOK
  <1> SUFFICES ASSUME NEW o \in Objs, NEW i \in 1..Len(out[o])
               PROVE  LET s == out[o]
                      IN  (/\ s[i].kind = "head" => IF i = Len(s) THEN ~Live(o)
                                                    ELSE s[i + 1] = [s[i] EXCEPT !.kind = "body"]
                           /\ s[i].kind = "body" => i > 1 /\ s[i - 1] = [s[i] EXCEPT !.kind = "head"])
                          <=> Paired(s, i) \/ (s[i].kind = "head" /\ i = Len(s) /\ ~Live(o))
    BY ZenonT(40) DEF FramesWhole, WholeOut, OutputOK
  <1> DEFINE s == out[o]
  <1>1. Len(s) \in Nat /\ (i = Len(s) \/ i < Len(s)) /\ ~(i = Len(s) /\ i < Len(s))
    OBVIOUS
  <1>2. [s[i] EXCEPT !.kind = "body"] = BodyOf(s[i]) /\ [s[i] EXCEPT !.kind = "head"] = HeadOf(s[i])
    BY DEF BodyOf, HeadOf
  <1> HIDE DEF s
  <1>3. (/\ s[i].kind = "head" => IF i = Len(s) THEN ~Live(o) ELSE s[i + 1] = BodyOf(s[i])
         /\ s[i].kind = "body" => i > 1 /\ s[i - 1] = HeadOf(s[i]))
        <=> Paired(s, i) \/ (s[i].kind = "head" /\ i = Len(s) /\ ~Live(o))
    BY <1>1 DEF Paired
  <1> QED BY <1>2, <1>3 DEF s

(* A closed session may be left with a head. *)
LEMMA WholeAfterClose ==
  ASSUME NEW s, NEW live \in BOOLEAN, WholeOut(s, live)
  PROVE  WholeOut(s, FALSE)
  BY DEF WholeOut

(* What was paired stays so when more is sent. *)
LEMMA WholeLonger ==
  ASSUME NEW s \in Seq(Output), WholeOut(s, TRUE), NEW z \in Seq(Output), Len(z) >= Len(s),
         \A i \in 1..Len(s) : z[i] = s[i]
  PROVE  \A i \in 1..Len(s) : Paired(z, i)
  <1> SUFFICES ASSUME NEW i \in 1..Len(s) PROVE Paired(z, i)
    OBVIOUS
  <1>1. Paired(s, i) /\ Len(s) \in Nat /\ Len(z) \in Nat /\ z[i] = s[i]
    BY DEF WholeOut
  <1>2. i < Len(s) => i < Len(z) /\ z[i + 1] = s[i + 1]
    BY <1>1
  <1>3. i > 1 => z[i - 1] = s[i - 1]
    BY <1>1
  <1> QED BY <1>1, <1>2, <1>3 DEF Paired

(* sendMsg2 sends a whole frame. *)
LEMMA WholeFrame ==
  ASSUME NEW s \in Seq(Output), WholeOut(s, TRUE), NEW by \in Threads \cup {Loop}, NEW m \in Nat,
         NEW live \in BOOLEAN, NEW z,
         z = s \o <<Unit("head", by, m), Unit("body", by, m)>>
  PROVE  z \in Seq(Output) /\ WholeOut(z, live)
  <1> DEFINE h == Unit("head", by, m)
             b == Unit("body", by, m)
  <1>1. /\ h \in Output /\ b \in Output /\ h.kind = "head" /\ b.kind = "body"
        /\ b = BodyOf(h) /\ h = HeadOf(b)
    BY DEF Unit, Output, BodyOf, HeadOf
  <1> HIDE DEF h, b
  <1>2. z \in Seq(Output) /\ Len(z) = Len(s) + 2 /\ Len(s) \in Nat
        /\ z[Len(s) + 1] = h /\ z[Len(s) + 2] = b /\ \A i \in 1..Len(s) : z[i] = s[i]
    BY <1>1 DEF h, b
  <1>6. Len(z) >= Len(s)
    BY <1>2
  <1>3. \A i \in 1..Len(s) : Paired(z, i)
    BY <1>2, <1>6, WholeLonger
  <1>4. Paired(z, Len(s) + 1) /\ Paired(z, Len(s) + 2)
    <2>1. (Len(s) + 1) + 1 = Len(s) + 2 /\ (Len(s) + 2) - 1 = Len(s) + 1
          /\ Len(s) + 1 < Len(z) /\ Len(s) + 2 > 1
      BY <1>2
    <2> QED BY <1>1, <1>2, <2>1 DEF Paired
  <1>5. \A i \in 1..Len(z) : i \in 1..Len(s) \/ i = Len(s) + 1 \/ i = Len(s) + 2
    BY <1>2
  <1> QED BY <1>2, <1>3, <1>4, <1>5 DEF WholeOut

(* Or it sends the head and closes the session. *)
LEMMA WholeHead ==
  ASSUME NEW s \in Seq(Output), WholeOut(s, TRUE), NEW by \in Threads \cup {Loop}, NEW m \in Nat,
         NEW z, z = s \o <<Unit("head", by, m)>>
  PROVE  z \in Seq(Output) /\ WholeOut(z, FALSE)
  <1> DEFINE h == Unit("head", by, m)
  <1>1. h \in Output /\ h.kind = "head"
    BY DEF Unit, Output
  <1> HIDE DEF h
  <1>2. z \in Seq(Output) /\ Len(z) = Len(s) + 1 /\ Len(s) \in Nat
        /\ z[Len(s) + 1] = h /\ \A i \in 1..Len(s) : z[i] = s[i]
    BY <1>1 DEF h
  <1>6. Len(z) >= Len(s)
    BY <1>2
  <1>3. \A i \in 1..Len(s) : Paired(z, i)
    BY <1>2, <1>6, WholeLonger
  <1>4. z[Len(s) + 1].kind = "head" /\ Len(s) + 1 = Len(z)
    BY <1>1, <1>2 DEF Paired
  <1>5. \A i \in 1..Len(z) : i \in 1..Len(s) \/ i = Len(s) + 1
    BY <1>2
  <1> QED BY <1>1, <1>2, <1>3, <1>4, <1>5 DEF WholeOut

(* The request or the answer of the handshake. *)
LEMMA WholeOther ==
  ASSUME NEW s \in Seq(Output), WholeOut(s, TRUE), NEW kind \in {"request", "answer"}, NEW m \in Nat,
         NEW live \in BOOLEAN, NEW z, z = s \o <<Unit(kind, Loop, m)>>
  PROVE  z \in Seq(Output) /\ WholeOut(z, live)
  <1> DEFINE h == Unit(kind, Loop, m)
  <1>1. h \in Output /\ h.kind = kind
    BY DEF Unit, Output
  <1> HIDE DEF h
  <1>2. z \in Seq(Output) /\ Len(z) = Len(s) + 1 /\ Len(s) \in Nat
        /\ z[Len(s) + 1] = h /\ \A i \in 1..Len(s) : z[i] = s[i]
    BY <1>1 DEF h
  <1>6. Len(z) >= Len(s)
    BY <1>2
  <1>3. \A i \in 1..Len(s) : Paired(z, i)
    BY <1>2, <1>6, WholeLonger
  <1>4. Paired(z, Len(s) + 1)
    BY <1>1, <1>2 DEF Paired
  <1>5. \A i \in 1..Len(z) : i \in 1..Len(s) \/ i = Len(s) + 1
    BY <1>2
  <1> QED BY <1>1, <1>2, <1>3, <1>4, <1>5 DEF WholeOut

-----------------------------------------------------------------------------
(* What the parser knows of a session that a step leaves alone *)

(* A session whose input and place in it stay is read as before. *)
LEMMA ReadingKept ==
  ASSUME NEW o \in Objs, Reading(o), pc # "crashed" \/ pc' = "crashed",
         stream'[o] = stream[o], told'[o] = told[o], base'[o] = base[o], Pos(o)' = Pos(o),
         InHand(o)' => InHand(o), pc' # "crashed" => (InHand(o) => InHand(o)' \/ ~Live(o)'),
         Live(o)' => Live(o) /\ mode'[o] = mode[o] /\ rsize'[o] = rsize[o]
  PROVE  Reading(o)'
  <1>1. Done(o)' = Done(o)
    BY DEF Done
  <1>2. told'[o] = [k \in 1..(Done(o) - 1) |-> k + 1]
    BY DEF Reading
  <1>3. InHand(o)' =>
          /\ Done(o)' <= Len(stream'[o]) /\ Pos(o)' = stream'[o][Done(o)'].at
          /\ stream'[o][Done(o)'].item \in DataFrames
    BY <1>1 DEF Reading
  <1>4. Live(o)' /\ pc' # "crashed" =>
          /\ base'[o] + rsize'[o] <= End(stream'[o])
          /\ mode'[o] = "FRAME" =>
               /\ Done(o)' <= Len(stream'[o])
               /\ Pos(o)' = Start(stream'[o], IF InHand(o)' THEN Done(o)' ELSE Done(o)' + 1)
               /\ Start(stream'[o], Done(o)' + 1) <= base'[o] + rsize'[o]
          /\ mode'[o] # "FRAME" => base'[o] = 0 /\ Done(o)' = 1
    BY <1>1 DEF Reading
  <1> QED BY <1>1, <1>2, <1>3, <1>4 DEF Reading

-----------------------------------------------------------------------------
(* The parts of TypeOK *)

Tasks == [type : TaskTypes, obj : Objs \cup {None}, id : Ids, m : Nat]

RestTypeOK ==
  /\ stream \in [Objs -> Seq(Items)]
  /\ base \in [Objs -> Nat]
  /\ rst \subseteq Objs
  /\ hsKey \in Objs \cup {None}
  /\ told \in [Objs -> Seq(Nat)]
  /\ out \in [Objs -> Seq(Output)]
  /\ tasks \in [Threads -> Seq(Tasks)]
  /\ asks \in 0..MaxAsks
  /\ pc \in {"idle", "request", "answer", "parse", "onReadMsg", "onHandShake", "crashed", "aborted"}
  /\ cur \in Objs \cup {None}
  /\ parseSize \in Nat

(* The type invariant in two parts. *)
LEMMA TypeParts == TypeOK <=> ConnTypeOK /\ RestTypeOK
  BY DEF TypeOK, ConnTypeOK, RestTypeOK, Modes, Items, Output, Tasks

(* No task is new, but what was one still is. *)
TasksKept ==
  /\ tasks' \in [Threads -> Seq(Tasks)]
  /\ \A t \in Threads : \A k \in 1..Len(tasks'[t]) : \E j \in 1..Len(tasks[t]) : tasks'[t][k] = tasks[t][j]

(* A session keeps its id. *)
LEMMA TasksOKKept ==
  ASSUME TypeOK, TasksOK, TasksKept, \A p \in Objs : sid[p] # -1 => sid'[p] = sid[p]
  PROVE  TasksOK'
  <1> SUFFICES ASSUME NEW t \in Threads, NEW k \in 1..Len(tasks'[t]), NEW task, task = tasks'[t][k]
               PROVE  /\ task.obj = None <=> task.type \in {"NONE", "CONNECT_TO"}
                      /\ task.obj # None => sid'[task.obj] = task.id
    BY DEF TasksOK
  <1>1. PICK j \in 1..Len(tasks[t]) : task = tasks[t][j]
    BY DEF TasksKept
  <1>2. tasks[t] \in Seq(Tasks)
    BY DEF TypeOK, Tasks
  <1>3. task \in Tasks
    BY <1>1, <1>2
  <1>4. task.id # -1
    BY <1>3, WebSocketAssumption DEF Tasks, Ids
  <1>5. task.obj # None => task.obj \in Objs /\ sid[task.obj] = task.id
    BY <1>1, <1>3 DEF TasksOK, Tasks
  <1> QED BY <1>1, <1>4, <1>5 DEF TasksOK

(***************************************************************************)
(* A step that touches one session, as the application, a task, an accept, *)
(* a connect or a failed recv() do: the parser does not move, and a        *)
(* session it works on is as it was, or closed.                            *)
(***************************************************************************)
LEMMA SessionStep ==
  ASSUME IInv, NEW o \in Objs, ConnTypeOK', Gone',
         \A p \in Objs \ {o} : Kept(p) /\ out'[p] = out[p],
         sid[o] # -1 => sid'[o] = sid[o], sid'[o] # -1,
         rsize'[o] = rsize[o] \/ ~Live(o)',
         Live(o)' => (Live(o) /\ mode'[o] = mode[o]) \/ (sid[o] = -1 /\ mode'[o] # "FRAME"),
         out' \in [Objs -> Seq(Output)], WholeOut(out'[o], Live(o)'),
         UNCHANGED <<base, stream, rst, told, cur, parseSize>>, hsKey' \in Objs \cup {None},
         TasksKept, asks' \in 0..MaxAsks,
         pc \in {"idle", "onReadMsg", "onHandShake"}, sid[o] = -1 => pc = "idle",
         pc' = pc \/ (pc' = "crashed" /\ ~Live(o)')
  PROVE  IInv'
  <1>1. RestTypeOK /\ RestTypeOK' /\ ConnTypeOK
    BY TypeParts DEF IInv, RestTypeOK, TasksKept
  <1>2. TypeOK'
    BY <1>1 DEF TypeOK, ConnTypeOK, RestTypeOK, Modes, Items, Output, Tasks
  <1>3. StreamOK'
    BY DEF IInv, StreamOK
  <1>4. Fresh'
    BY DEF IInv, Fresh, Kept
  <1>5. \A p \in Objs : sid[p] # -1 => sid'[p] = sid[p]
    BY DEF Kept
  <1>6. TasksOK'
    BY <1>5, TasksOKKept DEF IInv
  <1>7. LoopOK'
    BY DEF IInv, LoopOK, Kept
  <1>8. OutputOK'
    <2> SUFFICES ASSUME NEW p \in Objs PROVE WholeOut(out'[p], Live(p)')
      BY DEF OutputOK
    <2>1. CASE p = o
      BY <2>1
    <2>2. CASE p # o
      <3>1. WholeOut(out[p], Live(p)) /\ out'[p] = out[p] /\ (Live(p)' <=> Live(p))
        BY <2>2 DEF IInv, OutputOK, Kept
      <3> QED BY <3>1 DEF WholeOut
    <2> QED BY <2>1, <2>2
  <1>9. ReadingOK'
    <2> SUFFICES ASSUME NEW p \in Objs PROVE Reading(p)'
      BY DEF ReadingOK
    <2>1. /\ Reading(p) /\ stream'[p] = stream[p] /\ told'[p] = told[p] /\ base'[p] = base[p]
          /\ Pos(p)' = Pos(p) /\ (pc' = "crashed" \/ (InHand(p)' <=> InHand(p))) /\ (InHand(p)' => InHand(p))
      BY DEF IInv, ReadingOK, Pos, InHand
    <2>2. CASE Live(p)' => Live(p) /\ mode'[p] = mode[p] /\ rsize'[p] = rsize[p]
      BY <2>1, <2>2, ReadingKept
    <2>3. CASE p = o /\ Live(o)' /\ sid[o] = -1 /\ mode'[o] # "FRAME"
      <3>1. stream'[o] = <<>> /\ told'[o] = <<>> /\ base'[o] = 0 /\ rsize'[o] = 0
        BY <2>3 DEF IInv, Fresh
      <3>2. Done(o)' = 1 /\ End(stream'[o]) = 0
        BY <3>1 DEF Done, End
      <3>3. ~InHand(o)'
        BY <2>3 DEF InHand
      <3> QED BY <2>1, <2>3, <3>1, <3>2, <3>3 DEF Reading, Done
    <2> QED BY <2>2, <2>3 DEF Kept
  <1> QED BY <1>2, <1>3, <1>4, <1>6, <1>7, <1>8, <1>9 DEF IInv

(***************************************************************************)
(* A step of onRecv, or do_recv that calls it, touches the session it      *)
(* works on and no other.                                                  *)
(***************************************************************************)
LEMMA ParserStep ==
  ASSUME IInv, NEW o \in Objs, cur \in {o, None}, cur' \in {o, None}, sid[o] # -1,
         ConnTypeOK', Gone', UNCHANGED <<sid, stream, rst, tasks, asks>>,
         \A p \in Objs \ {o} :
           Kept(p) /\ out'[p] = out[p] /\ told'[p] = told[p] /\ base'[p] = base[p],
         base' \in [Objs -> Nat], told' \in [Objs -> Seq(Nat)], out' \in [Objs -> Seq(Output)],
         hsKey' \in Objs \cup {None}, parseSize' \in Nat,
         pc # "crashed",
         pc' \in {"idle", "request", "answer", "parse", "onReadMsg", "onHandShake", "aborted"},
         LoopOK', Reading(o)', WholeOut(out'[o], Live(o)')
  PROVE  IInv'
  <1>1. RestTypeOK /\ ConnTypeOK /\ None \notin Objs
    BY TypeParts DEF IInv, None, Objs
  <1>2. TypeOK'
    <2>1. RestTypeOK'
      BY <1>1 DEF RestTypeOK
    <2> QED BY <2>1 DEF TypeOK, ConnTypeOK, RestTypeOK, Modes, Items, Output, Tasks
  <1>3. StreamOK'
    BY DEF IInv, StreamOK
  <1>4. Fresh'
    BY DEF IInv, Fresh, Kept
  <1>5. TasksOK'
    BY DEF IInv, TasksOK
  <1>6. OutputOK'
    <2> SUFFICES ASSUME NEW p \in Objs PROVE WholeOut(out'[p], Live(p)')
      BY DEF OutputOK
    <2>1. CASE p = o
      BY <2>1
    <2>2. CASE p # o
      <3>1. WholeOut(out[p], Live(p)) /\ out'[p] = out[p] /\ (Live(p)' <=> Live(p))
        BY <2>2 DEF IInv, OutputOK, Kept
      <3> QED BY <3>1 DEF WholeOut
    <2> QED BY <2>1, <2>2
  <1>7. ReadingOK'
    <2> SUFFICES ASSUME NEW p \in Objs, p # o PROVE Reading(p)'
      BY DEF ReadingOK
    <2>1. /\ Reading(p) /\ stream'[p] = stream[p] /\ told'[p] = told[p] /\ base'[p] = base[p]
          /\ Pos(p)' = Pos(p) /\ ~InHand(p)' /\ ~InHand(p)
      BY <1>1 DEF IInv, ReadingOK, Pos, InHand
    <2>2. Live(p)' => Live(p) /\ mode'[p] = mode[p] /\ rsize'[p] = rsize[p]
      BY DEF Kept
    <2> QED BY <2>1, <2>2, ReadingKept
  <1> QED BY <1>2, <1>3, <1>4, <1>5, <1>6, <1>7 DEF IInv

-----------------------------------------------------------------------------
(* The steps of onRecv *)

(* What IInv says of the session onRecv works on. *)
WorksOn(o) ==
  /\ cur = o /\ sid[o] # -1 /\ None \notin Objs
  /\ ConnTypeOK /\ RestTypeOK /\ Gone /\ LoopOK /\ StreamOK /\ Reading(o)
  /\ stream[o] \in Seq(Items) /\ Layout(stream[o])
  /\ WholeOut(out[o], Live(o))
  /\ base[o] \in Nat /\ rsize[o] \in Int /\ parseSize \in Nat
  /\ told[o] \in Seq(Nat) /\ out[o] \in Seq(Output)

(* While a handler works, there is a session it works on. *)
LEMMA Working ==
  ASSUME IInv, pc \in {"request", "answer", "parse", "onReadMsg", "onHandShake"}
  PROVE  \E o \in Objs : WorksOn(o)
  <1> SUFFICES ASSUME NEW o \in Objs, o = cur, sid[o] # -1 PROVE WorksOn(o)
    BY DEF IInv, LoopOK
  <1>1. ConnTypeOK /\ RestTypeOK
    BY TypeParts DEF IInv
  <1>2. /\ stream[o] \in Seq(Items) /\ base[o] \in Nat /\ rsize[o] \in Int /\ parseSize \in Nat
        /\ told[o] \in Seq(Nat) /\ out[o] \in Seq(Output)
    BY <1>1 DEF ConnTypeOK, RestTypeOK
  <1>3. Gone /\ LoopOK /\ StreamOK /\ Reading(o) /\ Layout(stream[o]) /\ WholeOut(out[o], Live(o))
    BY DEF IInv, ReadingOK, StreamOK, OutputOK
  <1>4. None \notin Objs
    BY DEF None, Objs
  <1> QED BY <1>1, <1>2, <1>3, <1>4 DEF WorksOn

(* onRecv closes the session it works on and returns. *)
LEMMA ClosedInOnRecvStep ==
  ASSUME IInv, pc \in {"request", "answer", "parse"}, Live(cur), ClosedInOnRecv,
         hsKey' \in Objs \cup {None}
  PROVE  IInv'
  <1>1. PICK o \in Objs : WorksOn(o)
    BY Working
  <1>2. /\ cur = o /\ Live(o) /\ Reading(o) /\ WholeOut(out[o], Live(o)) /\ Gone /\ ConnTypeOK
        /\ RestTypeOK /\ sid[o] # -1
    BY <1>1 DEF WorksOn
  <1>3. /\ Cleared(o, "WAIT", 0) /\ pc' = "idle" /\ cur' = None /\ parseSize' = 0
        /\ UNCHANGED <<base, input, told, out, tasks, asks>>
    BY <1>2 DEF ClosedInOnRecv, CloseSession, Return
  <1>4. /\ ConnTypeOK' /\ Gone' /\ ~Live(o)' /\ sid' = sid /\ \A p \in Objs \ {o} : Kept(p)
    BY <1>2, <1>3, ClosingIs DEF Modes
  <1>5. Reading(o)'
    BY <1>2, <1>3, <1>4 DEF Reading, InHand, Done
  <1>6. WholeOut(out'[o], Live(o)')
    BY <1>2, <1>3, <1>4 DEF WholeOut
  <1>7. LoopOK'
    BY <1>3 DEF LoopOK
  <1>8. UNCHANGED <<stream, rst>>
    BY <1>3 DEF input
  <1> QED BY <1>2, <1>3, <1>4, <1>5, <1>6, <1>7, <1>8, ParserStep DEF RestTypeOK

(* A step that changes nothing of the session but what onRecv does next. *)
LEMMA MovesOn ==
  ASSUME IInv, pc \in {"request", "answer", "parse", "onHandShake"},
         UNCHANGED <<conns, base, input, hsKey, told, out, tasks, asks>>,
         pc' \in {"idle", "parse", "aborted"}, LoopOK', cur' \in {cur, None}, parseSize' \in Nat,
         pc' = "idle" => parseSize = 0 /\ parseSize' = 0,
         pc' # "idle" => cur' = cur /\ parseSize' = parseSize
  PROVE  IInv'
  <1>1. PICK o \in Objs : WorksOn(o)
    BY Working
  <1>2. /\ cur = o /\ Reading(o) /\ WholeOut(out[o], Live(o)) /\ Gone /\ ConnTypeOK
        /\ RestTypeOK /\ sid[o] # -1 /\ base[o] \in Nat
    BY <1>1 DEF WorksOn
  <1>3. /\ UNCHANGED <<sessions, sid, mode, isConnect, rsize, base, stream, rst, hsKey, told, out, tasks, asks>>
    BY DEF conns, input
  <1>4. ConnTypeOK' /\ Gone' /\ \A p \in Objs : Kept(p)
    BY <1>2, <1>3 DEF ConnTypeOK, Gone, Live, Kept
  <1>5. Pos(o)' = Pos(o)
    BY <1>2, <1>3 DEF Pos
  <1>6. Reading(o)'
    BY <1>2, <1>3, <1>4, <1>5, ReadingKept DEF InHand, Kept
  <1>7. WholeOut(out'[o], Live(o)')
    BY <1>2, <1>3, <1>4 DEF WholeOut, Kept
  <1> QED BY <1>2, <1>3, <1>4, <1>6, <1>7, ParserStep DEF RestTypeOK

(* onRecv returns until the headers are whole. *)
LEMMA HeadersIncompleteStep == ASSUME IInv, HeadersIncomplete PROVE IInv'
  <1>1. /\ pc \in {"request", "answer"} /\ pc' = "idle" /\ cur' = None /\ parseSize' = 0
        /\ UNCHANGED <<conns, base, input, hsKey, told, out, tasks, asks>>
    BY DEF HeadersIncomplete, Return
  <1>2. parseSize = 0
    BY <1>1 DEF IInv, LoopOK
  <1>3. LoopOK'
    BY <1>1 DEF LoopOK
  <1> QED BY <1>1, <1>2, <1>3, MovesOn

(* onHandShake returns, and what was received with it is parsed. *)
LEMMA AfterHandShakeStep == ASSUME IInv, AfterHandShake PROVE IInv'
  <1>1. /\ pc = "onHandShake"
        /\ UNCHANGED <<conns, base, input, hsKey, told, out, tasks, asks>>
        /\ \/ pc' = "idle" /\ cur' = None /\ parseSize' = 0
           \/ pc' = "parse" /\ cur' = cur /\ parseSize' = parseSize
    BY DEF AfterHandShake, Return
  <1>2. parseSize = 0 /\ parseSize \in Nat
    BY <1>1 DEF IInv, LoopOK
  <1>3. LoopOK'
    BY <1>1 DEF IInv, LoopOK, conns, Live
  <1> QED BY <1>1, <1>2, <1>3, MovesOn

(* The parser aborts on a frame it does not know. *)
LEMMA ParseAbortsStep == ASSUME IInv, ParseAborts PROVE IInv'
  <1>1. /\ pc = "parse" /\ pc' = "aborted" /\ cur' = cur /\ parseSize' = parseSize
        /\ UNCHANGED <<conns, base, input, hsKey, told, out, tasks, asks>>
    BY DEF ParseAborts
  <1>2. LoopOK'
    BY <1>1 DEF LoopOK
  <1> QED BY <1>1, <1>2, MovesOn DEF IInv, TypeOK

(* onRecv closes the session over bad headers or a bad frame. *)
LEMMA RefusedStep ==
  ASSUME IInv, RequestRefused \/ AnswerRefused \/ ParseRefuses
  PROVE  IInv'
  <1>1. ClosedInOnRecv /\ pc \in {"request", "answer", "parse"} /\ (pc = "parse" => HeadIn)
    BY DEF RequestRefused, AnswerRefused, ParseRefuses
  <1>2. Live(cur)
    <2>1. CASE pc = "parse"
      <3>1. PICK o \in Objs : WorksOn(o)
        BY <1>1, Working
      <3> QED BY <1>1, <2>1, <3>1 DEF WorksOn, HeadIn, InputLength, FixedHeader, Gone
    <2>2. CASE pc # "parse"
      BY <1>1, <2>2 DEF IInv, LoopOK
    <2> QED BY <2>1, <2>2
  <1>3. hsKey' \in Objs \cup {None}
    <2>1. hsKey \in Objs \cup {None} /\ cur \in Objs
      BY <1>1 DEF IInv, TypeOK, LoopOK
    <2> QED BY <2>1 DEF RequestRefused, AnswerRefused, ParseRefuses, KeyAfterParse
  <1> QED BY <1>1, <1>2, <1>3, ClosedInOnRecvStep

(* The header block is in: the parser goes past it, and stands at frame 2. *)
LEMMA HeadersErased ==
  ASSUME NEW o \in Objs, WorksOn(o), Live(o), mode[o] # "FRAME", HeadersIn(o), parseSize = 0,
         pc \in {"request", "answer"}
  PROVE  /\ base[o] = 0 /\ rsize[o] - HeadersEnd \in Nat /\ told[o] = <<>>
         /\ 1 <= Len(stream[o]) /\ Start(stream[o], 2) = HeadersEnd
         /\ rsize[o] <= End(stream[o]) /\ HeadersEnd \in Nat
  <1> DEFINE s == stream[o]
  <1>1. HeadersEnd = 2
    BY DEF HeadersEnd, Headers, Terminator
  <1>2. /\ base[o] = 0 /\ Done(o) = 1 /\ base[o] + rsize[o] <= End(s) /\ rsize[o] >= 2
        /\ rsize[o] \in Int /\ told[o] \in Seq(Nat) /\ s \in Seq(Items) /\ Layout(s)
    BY <1>1 DEF WorksOn, Reading, HeadersIn
  <1>3. Len(told[o]) = 0 /\ told[o] = <<>>
    BY <1>2 DEF Done
  <1>4. s # <<>> /\ Len(s) \in Nat
    BY <1>2 DEF End
  <1>5. 1 \in 1..Len(s) /\ s[1].at = 0 /\ s[1].item \in Handshakes
    BY <1>2, <1>4 DEF Layout
  <1>6. Start(s, 1 + 1) = s[1].at + Units(s[1].item)
    BY <1>2, <1>5, LayoutIs
  <1>7. Units(s[1].item) = 2
    BY <1>1, <1>5, UnitsIs
  <1> QED BY <1>1, <1>2, <1>3, <1>4, <1>5, <1>6, <1>7

(* The handshake is done with: the session is in its frames. *)
LEMMA HandshakeDone ==
  ASSUME IInv, pc \in {"request", "answer"}, HeadersIn(cur),
         NEW o \in Objs, o = cur, NEW units, units \in {<<>>, <<Unit("answer", Loop, hsKey')>>},
         mode' = [mode EXCEPT ![o] = "FRAME"], EraseHeaders(o),
         UNCHANGED <<sessions, sid, isConnect, input, told, tasks, asks>>,
         hsKey' \in Objs \cup {None}, out' = [out EXCEPT ![o] = @ \o units],
         \/ pc' = "idle" /\ cur' = None /\ parseSize' = 0
         \/ pc' \in {"parse", "onHandShake"} /\ UNCHANGED <<cur, parseSize>>
  PROVE  IInv'
  <1>1. WorksOn(o) /\ parseSize = 0 /\ Live(o) /\ mode[o] # "FRAME"
    BY Working DEF WorksOn, IInv, LoopOK
  <1>2. /\ Reading(o) /\ WholeOut(out[o], Live(o)) /\ Gone /\ ConnTypeOK /\ RestTypeOK /\ sid[o] # -1
        /\ base[o] \in Nat /\ rsize[o] \in Int /\ out[o] \in Seq(Output) /\ None \notin Objs
    BY <1>1 DEF WorksOn
  <1>3. /\ base[o] = 0 /\ rsize[o] - HeadersEnd \in Nat /\ told[o] = <<>>
        /\ 1 <= Len(stream[o]) /\ Start(stream[o], 2) = HeadersEnd
        /\ rsize[o] <= End(stream[o]) /\ HeadersEnd \in Nat
    BY <1>1, HeadersErased
  <1>4. /\ base' = [base EXCEPT ![o] = @ + HeadersEnd] /\ rsize' = [rsize EXCEPT ![o] = @ - HeadersEnd]
        /\ UNCHANGED <<stream, rst>>
    BY DEF EraseHeaders, input
  <1>5. base' \in [Objs -> Nat] /\ base'[o] = HeadersEnd /\ rsize'[o] = rsize[o] - HeadersEnd
    BY <1>2, <1>3, <1>4 DEF RestTypeOK, ConnTypeOK
  <1>6. /\ \A p \in Objs : sid'[p] = sid[p] /\ (Live(p)' <=> Live(p))
        /\ \A p \in Objs \ {o} : Kept(p) /\ base'[p] = base[p] /\ out'[p] = out[p]
    BY <1>2, <1>4 DEF Live, Kept, ConnTypeOK, RestTypeOK
  <1>7. ConnTypeOK' /\ Gone'
    <2>1. rsize' \in [Objs -> Int] /\ mode' \in [Objs -> Modes]
      BY <1>2, <1>4 DEF ConnTypeOK, Modes, HeadersEnd, Headers, Terminator
    <2>2. \A p \in Objs : (Live(p)' => rsize'[p] >= 0) /\ (~Live(p)' => rsize'[p] <= 0)
      <3>1. Live(o)' /\ rsize'[o] >= 0
        BY <1>1, <1>3, <1>5, <1>6
      <3>2. ASSUME NEW p \in Objs \ {o}
            PROVE  (Live(p)' => rsize'[p] >= 0) /\ (~Live(p)' => rsize'[p] <= 0)
        BY <1>2, <1>6 DEF Kept, ConnTypeOK, Gone
      <3> QED BY <3>1, <3>2
    <2> QED BY <1>2, <2>1, <2>2 DEF ConnTypeOK, Gone
  <1>8. Reading(o)'
    <2>1. Done(o)' = 1 /\ Pos(o)' = HeadersEnd /\ ~InHand(o)' /\ mode'[o] = "FRAME"
      BY <1>1, <1>2, <1>3, <1>5 DEF Done, Pos, InHand, ConnTypeOK
    <2>2. told'[o] = [k \in 1..(1 - 1) |-> k + 1]
      BY <1>3
    <2>3. base'[o] + rsize'[o] = rsize[o] /\ HeadersEnd <= rsize[o] /\ 1 + 1 = 2
      BY <1>2, <1>3, <1>5
    <2> QED BY <1>3, <1>4, <2>1, <2>2, <2>3 DEF Reading
  <1>9. out' \in [Objs -> Seq(Output)] /\ WholeOut(out'[o], Live(o)')
    <2>1. out'[o] = out[o] \o units
      BY <1>2 DEF RestTypeOK
    <2>2. WholeOut(out[o], TRUE)
      BY <1>1, <1>2 DEF WholeOut
    <2>3. CASE units = <<>>
      <3>1. out'[o] = out[o]
        BY <1>2, <2>1, <2>3
      <3>2. WholeOut(out'[o], Live(o)')
        BY <1>2, <1>6, <3>1 DEF WholeOut
      <3> QED BY <1>2, <3>1, <3>2 DEF RestTypeOK
    <2>4. CASE units = <<Unit("answer", Loop, hsKey')>>
      <3>1. hsKey' \in Nat /\ Live(o)' \in BOOLEAN
        BY DEF Objs, None, Live
      <3>2. out'[o] \in Seq(Output) /\ WholeOut(out'[o], Live(o)')
        BY <1>2, <2>1, <2>2, <2>4, <3>1, WholeOther
      <3> QED BY <1>2, <3>2 DEF RestTypeOK
    <2> QED BY <2>3, <2>4
  <1>10. LoopOK'
    BY <1>1, <1>2 DEF LoopOK, ConnTypeOK
  <1>11. parseSize' \in Nat
    BY <1>1
  <1> QED BY <1>2, <1>4, <1>5, <1>6, <1>7, <1>8, <1>9, <1>10, <1>11, ParserStep DEF RestTypeOK

(* The client takes the answer: frames follow. *)
LEMMA AnswerAcceptedStep == ASSUME IInv, AnswerAccepted PROVE IInv'
  <1>1. PICK o \in Objs : WorksOn(o)
    BY Working DEF AnswerAccepted
  <1>2. /\ o = cur /\ hsKey \in Objs \cup {None} /\ out \in [Objs -> Seq(Output)]
    BY <1>1 DEF WorksOn, RestTypeOK
  <1>3. /\ pc = "answer" /\ HeadersIn(cur) /\ mode' = [mode EXCEPT ![o] = "FRAME"] /\ EraseHeaders(o)
        /\ pc' = "onHandShake"
        /\ UNCHANGED <<sessions, sid, isConnect, input, hsKey, told, out, tasks, asks, cur, parseSize>>
    BY <1>2 DEF AnswerAccepted
  <1>4. out[o] \o <<>> = out[o]
    BY <1>2
  <1>5. out' = [out EXCEPT ![o] = @ \o <<>>]
    BY <1>2, <1>3, <1>4
  <1> QED BY <1>2, <1>3, <1>5, HandshakeDone

(* The server takes the request and answers: frames follow. *)
LEMMA RequestAcceptedStep == ASSUME IInv, RequestAccepted PROVE IInv'
  <1>1. PICK o \in Objs : WorksOn(o)
    BY Working DEF RequestAccepted
  <1>2. /\ o = cur /\ hsKey \in Objs \cup {None} /\ out \in [Objs -> Seq(Output)]
        /\ ConnTypeOK /\ RestTypeOK /\ Gone /\ Reading(o) /\ WholeOut(out[o], Live(o))
        /\ sid[o] # -1 /\ base[o] \in Nat /\ None \notin Objs
    BY <1>1 DEF WorksOn, RestTypeOK
  <1>3. /\ pc = "request" /\ HeadersIn(cur) /\ hsKey' = KeyAfterParse(ItemAt(o), o)
        /\ UNCHANGED <<input, told, tasks, asks>>
    BY <1>2 DEF RequestAccepted
  <1>4. hsKey' \in Objs \cup {None}
    BY <1>2, <1>3 DEF KeyAfterParse
  <1>5. CASE /\ Sent(o, <<Unit("answer", Loop, hsKey')>>)
             /\ mode' = [mode EXCEPT ![o] = "FRAME"] /\ EraseHeaders(o)
             /\ UNCHANGED <<sessions, sid, isConnect>>
             /\ IF rsize'[o] = 0 THEN Return ELSE pc' = "parse" /\ UNCHANGED <<cur, parseSize>>
    BY <1>2, <1>3, <1>4, <1>5, HandshakeDone DEF Sent, Return
  <1>6. CASE /\ Cleared(o, "FRAME", -HeadersEnd)
             /\ base' = [base EXCEPT ![o] = @ + HeadersEnd]
             /\ pc' = "parse" /\ UNCHANGED <<out, cur, parseSize>>
    <2>1. HeadersEnd \in Nat /\ -HeadersEnd \in Int /\ -HeadersEnd <= 0
      BY DEF HeadersEnd, Headers, Terminator
    <2>2. Live(o)
      BY <1>2, <1>3 DEF IInv, LoopOK
    <2>3. /\ ConnTypeOK' /\ Gone' /\ ~Live(o)' /\ sid' = sid /\ \A p \in Objs \ {o} : Kept(p)
      BY <1>2, <1>6, <2>1, <2>2, ClosingIs DEF Modes
    <2>4. base' \in [Objs -> Nat] /\ \A p \in Objs \ {o} : base'[p] = base[p]
      <3>1. base \in [Objs -> Nat] /\ base[o] + HeadersEnd \in Nat
        BY <1>2, <2>1 DEF RestTypeOK
      <3> QED BY <1>6, <3>1
    <2>5. Reading(o)'
      BY <1>2, <1>3, <1>6, <2>3 DEF Reading, InHand, Done
    <2>6. WholeOut(out'[o], Live(o)')
      BY <1>2, <1>6, <2>3 DEF WholeOut
    <2>7. LoopOK'
      BY <1>2, <1>6, <2>3 DEF LoopOK
    <2>8. UNCHANGED <<stream, rst>> /\ parseSize \in Nat
      BY <1>2, <1>3 DEF input, RestTypeOK
    <2> QED BY <1>2, <1>3, <1>4, <1>6, <2>3, <2>4, <2>5, <2>6, <2>7, <2>8, ParserStep DEF RestTypeOK
  <1> QED BY <1>2, <1>5, <1>6 DEF RequestAccepted

-----------------------------------------------------------------------------
(* The loop over the frames *)

(* A data frame is in readBuffer whole: it is the one after those done. *)
LEMMA NextFrame ==
  ASSUME NEW o \in Objs, WorksOn(o), pc = "parse", HeadIn, AtFrame(o), stream \in [Objs -> Seq(Items)]
  PROVE  /\ Live(o) /\ mode[o] = "FRAME" /\ Done(o) + 1 <= Len(stream[o])
         /\ Index(o) = Done(o) + 1 /\ stream[o][Done(o) + 1].at = Pos(o)
         /\ ItemAt(o) = stream[o][Done(o) + 1].item
         /\ Done(o) \in Nat
  <1> DEFINE s == stream[o]
             n == Done(o) + 1
  <1>1. /\ cur = o /\ Gone /\ LoopOK /\ StreamOK /\ Reading(o) /\ s \in Seq(Items) /\ Layout(s)
        /\ rsize[o] \in Int /\ parseSize \in Nat /\ told[o] \in Seq(Nat)
    BY DEF WorksOn
  <1>2. Live(o)
    BY <1>1 DEF HeadIn, InputLength, FixedHeader, Gone
  <1>3. mode[o] = "FRAME"
    BY <1>1, <1>2 DEF LoopOK
  <1>4. Done(o) \in Nat
    BY <1>1 DEF Done
  <1>5. Pos(o) = Start(s, n)
    BY <1>1, <1>2, <1>3 DEF Reading, InHand
  <1>6. Index(o) \in 1..Len(s) /\ s[Index(o)].at = Pos(o)
        /\ \A i \in 1..Len(s) : s[i].at = Pos(o) => Index(o) = i
    BY <1>1, IndexIs
  <1>7. \A i \in 1..Len(s) : s[i].at \in Nat /\ s[i].at < End(s) /\ End(s) \in Nat
    BY <1>1, LayoutIs
  <1>8. n <= Len(s)
    BY <1>4, <1>5, <1>6, <1>7 DEF Start
  <1>9. s[n].at = Pos(o) /\ n \in 1..Len(s)
    BY <1>1, <1>4, <1>5, <1>8 DEF Start
  <1>10. Index(o) = n
    BY <1>6, <1>9
  <1> QED BY <1>2, <1>3, <1>4, <1>8, <1>9, <1>10 DEF ItemAt

(* A step of the loop that touches neither the session nor its output. *)
LEMMA ParseStep ==
  ASSUME IInv, NEW o \in Objs, WorksOn(o), pc \in {"parse", "onReadMsg"},
         UNCHANGED <<sessions, sid, mode, isConnect, input, hsKey, out, tasks, asks>>,
         rsize' \in [Objs -> Int], base' \in [Objs -> Nat], told' \in [Objs -> Seq(Nat)],
         \A p \in Objs \ {o} : rsize'[p] = rsize[p] /\ base'[p] = base[p] /\ told'[p] = told[p],
         Live(o) => rsize'[o] >= 0, ~Live(o) => rsize'[o] <= 0,
         pc' \in {"idle", "parse", "onReadMsg"}, cur' = IF pc' = "idle" THEN None ELSE o,
         parseSize' \in Nat, pc' = "idle" => parseSize' = 0, Reading(o)'
  PROVE  IInv'
  <1>1. /\ cur = o /\ WholeOut(out[o], Live(o)) /\ Gone /\ ConnTypeOK /\ RestTypeOK /\ sid[o] # -1
        /\ None \notin Objs
    BY DEF WorksOn
  <1>2. \A p \in Objs : Live(p)' <=> Live(p)
    BY DEF Live
  <1>3. ConnTypeOK' /\ Gone' /\ UNCHANGED <<stream, rst>>
    BY <1>1, <1>2 DEF ConnTypeOK, Gone, input
  <1>4. \A p \in Objs \ {o} : Kept(p)
    BY <1>2 DEF Kept
  <1>5. LoopOK'
    BY <1>1, <1>2 DEF IInv, LoopOK
  <1>6. WholeOut(out'[o], Live(o)')
    BY <1>1, <1>2 DEF WholeOut
  <1> QED BY <1>1, <1>3, <1>4, <1>5, <1>6, ParserStep DEF RestTypeOK

(* A whole data frame is told to the application. *)
LEMMA ParseDataStep == ASSUME IInv, ParseData PROVE IInv'
  <1>1. PICK o \in Objs : WorksOn(o)
    BY Working DEF ParseData
  <1>2. /\ cur = o /\ stream \in [Objs -> Seq(Items)] /\ told \in [Objs -> Seq(Nat)] /\ Reading(o)
        /\ ConnTypeOK /\ Gone /\ base \in [Objs -> Nat] /\ base[o] \in Nat
        /\ parseSize \in Nat /\ rsize[o] \in Int /\ stream[o] \in Seq(Items) /\ Layout(stream[o])
        /\ told[o] \in Seq(Nat) /\ None \notin Objs
    BY <1>1 DEF WorksOn, RestTypeOK
  <1>3. /\ pc = "parse" /\ HeadIn /\ AtFrame(o) /\ ItemAt(o).op = "data" /\ ItemAt(o).n0 # 127
        /\ FrameIn(ItemAt(o)) /\ told' = [told EXCEPT ![o] = Append(@, Index(o))]
        /\ pc' = "onReadMsg"
        /\ UNCHANGED <<conns, base, input, hsKey, out, tasks, asks, cur, parseSize>>
    BY <1>2 DEF ParseData
  <1>4. /\ Live(o) /\ mode[o] = "FRAME" /\ Done(o) + 1 <= Len(stream[o])
        /\ Index(o) = Done(o) + 1 /\ stream[o][Done(o) + 1].at = Pos(o)
        /\ ItemAt(o) = stream[o][Done(o) + 1].item /\ Done(o) \in Nat
    BY <1>1, <1>2, <1>3, NextFrame
  <1>5. SUFFICES ASSUME NEW n \in Nat, n = Done(o) + 1, NEW f, f = ItemAt(o) PROVE IInv'
    BY <1>4
  <1>6. n \in 1..Len(stream[o]) /\ stream[o][n].at = Pos(o) /\ stream[o][n].item = f /\ Len(stream[o]) \in Nat
    BY <1>2, <1>4, <1>5
  <1>7. Start(stream[o], n + 1) = Pos(o) + Units(f) /\ f \in Handshakes \cup Frames /\ Start(stream[o], n + 1) <= End(stream[o])
    BY <1>2, <1>6, LayoutIs
  <1>8. f \in DataFrames /\ HeaderSize(f) + N(f) = Units(f) /\ Units(f) \in Nat
    BY <1>3, <1>5, <1>7, UnitsIs
  <1>9. Pos(o) = base[o] + parseSize /\ rsize[o] - parseSize >= Units(f)
    BY <1>2, <1>3, <1>5, <1>8 DEF Pos, FrameIn, InputLength
  <1>10. told'[o] = Append(told[o], n) /\ told' \in [Objs -> Seq(Nat)]
         /\ \A p \in Objs \ {o} : told'[p] = told[p]
    BY <1>2, <1>3, <1>4, <1>5
  <1>11. UNCHANGED <<sessions, sid, mode, isConnect, rsize, stream, base, cur, parseSize>>
    BY <1>3 DEF conns, input
  <1>12. Done(o)' = n /\ InHand(o)' /\ Pos(o)' = Pos(o) /\ (Live(o)' <=> Live(o))
    BY <1>2, <1>3, <1>4, <1>5, <1>10, <1>11 DEF Done, InHand, Pos, Live
  <1>13. told'[o] = [k \in 1..(n - 1) |-> k + 1]
    <2>1. Len(told[o]) = n - 2 /\ n - 2 \in Nat /\ told[o] = [k \in 1..(n - 2) |-> k + 1]
      BY <1>2, <1>4, <1>5 DEF Reading, Done
    <2>2. told'[o] \in Seq(Nat) /\ Len(told'[o]) = n - 1 /\ told'[o][n - 1] = n
          /\ \A k \in 1..(n - 2) : told'[o][k] = k + 1
      BY <1>2, <1>10, <2>1
    <2>3. DOMAIN told'[o] = 1..(n - 1) /\ \A k \in 1..(n - 1) : told'[o][k] = k + 1
      BY <2>1, <2>2
    <2> QED BY <2>2, <2>3
  <1>14. Reading(o)'
    <2>1. Start(stream[o], n) = stream[o][n].at
      BY <1>6 DEF Start
    <2>2. Start(stream[o], n + 1) <= base[o] + rsize[o]
      BY <1>2, <1>7, <1>8, <1>9
    <2>3. base[o] + rsize[o] <= End(stream[o])
      BY <1>2, <1>3, <1>4 DEF Reading
    <2> QED BY <1>4, <1>6, <1>8, <1>11, <1>12, <1>13, <2>1, <2>2, <2>3 DEF Reading
  <1>15. (Live(o) => rsize'[o] >= 0) /\ (~Live(o) => rsize'[o] <= 0) /\ rsize' \in [Objs -> Int]
    BY <1>2, <1>11 DEF ConnTypeOK, Gone
  <1> QED BY <1>1, <1>2, <1>3, <1>10, <1>11, <1>14, <1>15, ParseStep

(* onReadMsg returns, and the parser goes on after that frame. *)
LEMMA AfterReadMsgStep == ASSUME IInv, AfterReadMsg PROVE IInv'
  <1>1. PICK o \in Objs : WorksOn(o)
    BY Working DEF AfterReadMsg
  <1>2. /\ cur = o /\ stream \in [Objs -> Seq(Items)] /\ told \in [Objs -> Seq(Nat)] /\ Reading(o)
        /\ ConnTypeOK /\ Gone /\ base \in [Objs -> Nat] /\ base[o] \in Nat /\ StreamOK
        /\ parseSize \in Nat /\ rsize[o] \in Int /\ stream[o] \in Seq(Items) /\ Layout(stream[o])
        /\ told[o] \in Seq(Nat) /\ None \notin Objs
    BY <1>1 DEF WorksOn, RestTypeOK
  <1>3. /\ pc = "onReadMsg" /\ pc' = "parse"
        /\ parseSize' = parseSize + HeaderSize(ItemAt(o)) + N(ItemAt(o))
        /\ UNCHANGED <<conns, base, input, hsKey, told, out, tasks, asks, cur>>
    BY <1>2 DEF AfterReadMsg
  <1>4. Len(told[o]) \in Nat
    BY <1>2
  <1>5. Done(o) \in Nat \ {0}
    BY <1>4 DEF Done
  <1>6. SUFFICES ASSUME NEW n \in Nat \ {0}, n = Done(o), NEW f, f = stream[o][n].item PROVE IInv'
    BY <1>5
  <1>7. n \in 1..Len(stream[o]) /\ stream[o][n].at = Pos(o) /\ f \in DataFrames /\ Len(stream[o]) \in Nat
    BY <1>2, <1>3, <1>6 DEF Reading, InHand
  <1>8. ItemAt(o) = f
    <2>1. AtFrame(o)
      BY <1>7 DEF AtFrame, Start
    <2> QED BY <1>2, <1>6, <1>7, <2>1, IndexIs DEF ItemAt
  <1>9. Start(stream[o], n + 1) = Pos(o) + Units(f) /\ f \in Handshakes \cup Frames
    BY <1>2, <1>6, <1>7, LayoutIs
  <1>10. HeaderSize(f) + N(f) = Units(f) /\ HeaderSize(f) \in Nat /\ N(f) \in Nat
    BY <1>7, <1>9, UnitsIs
  <1>11. UNCHANGED <<sessions, sid, mode, isConnect, rsize, stream, base, cur, told>>
    BY <1>3 DEF conns, input
  <1>12. Pos(o)' = Start(stream[o], n + 1) /\ parseSize' \in Nat
    BY <1>2, <1>3, <1>8, <1>9, <1>10, <1>11 DEF Pos
  <1>13. Done(o)' = n /\ ~InHand(o)' /\ (Live(o)' <=> Live(o)) /\ InHand(o)
    BY <1>2, <1>3, <1>6, <1>11 DEF Done, InHand, Live
  <1>14. Reading(o)'
    <2>1. told'[o] = [k \in 1..(n - 1) |-> k + 1]
      BY <1>2, <1>6, <1>11 DEF Reading
    <2>2. Live(o) =>
            /\ base[o] + rsize[o] <= End(stream[o])
            /\ mode[o] = "FRAME" => n <= Len(stream[o]) /\ Start(stream[o], n + 1) <= base[o] + rsize[o]
            /\ mode[o] # "FRAME" => base[o] = 0 /\ n = 1
      BY <1>2, <1>3, <1>6 DEF Reading
    <2> QED BY <1>11, <1>12, <1>13, <2>1, <2>2 DEF Reading
  <1>15. (Live(o) => rsize'[o] >= 0) /\ (~Live(o) => rsize'[o] <= 0) /\ rsize' \in [Objs -> Int]
    BY <1>2, <1>11 DEF ConnTypeOK, Gone
  <1> QED BY <1>1, <1>2, <1>3, <1>11, <1>12, <1>14, <1>15, ParseStep

(* The parser returns what it read, which is erased. *)
LEMMA ParseEndsStep == ASSUME IInv, ParseEnds PROVE IInv'
  <1>1. PICK o \in Objs : WorksOn(o)
    BY Working DEF ParseEnds
  <1>2. /\ cur = o /\ told \in [Objs -> Seq(Nat)] /\ Reading(o) /\ stream[o] \in Seq(Items) /\ Layout(stream[o])
        /\ ConnTypeOK /\ Gone /\ LoopOK /\ base \in [Objs -> Nat] /\ base[o] \in Nat
        /\ parseSize \in Nat /\ rsize[o] \in Int /\ None \notin Objs
    BY <1>1 DEF WorksOn, RestTypeOK
  <1>3. /\ pc = "parse" /\ pc' = "idle" /\ cur' = None /\ parseSize' = 0
        /\ rsize' = [rsize EXCEPT ![o] = @ - parseSize] /\ base' = [base EXCEPT ![o] = @ + parseSize]
        /\ UNCHANGED <<sessions, sid, mode, isConnect, input, hsKey, told, out, tasks, asks>>
    BY <1>2 DEF ParseEnds, Return
  <1>4. /\ rsize' \in [Objs -> Int] /\ base' \in [Objs -> Nat] /\ rsize'[o] = rsize[o] - parseSize
        /\ base'[o] = base[o] + parseSize
        /\ \A p \in Objs \ {o} : rsize'[p] = rsize[p] /\ base'[p] = base[p] /\ told'[p] = told[p]
    BY <1>2, <1>3 DEF ConnTypeOK
  <1>5. Pos(o) = base'[o] /\ Pos(o)' = base'[o] /\ (Live(o)' <=> Live(o)) /\ Done(o)' = Done(o)
        /\ ~InHand(o)' /\ ~InHand(o) /\ base'[o] + rsize'[o] = base[o] + rsize[o]
    BY <1>2, <1>3, <1>4 DEF Pos, Live, Done, InHand
  <1>6. Live(o) => mode[o] = "FRAME" /\ rsize'[o] >= 0
    <2> SUFFICES ASSUME Live(o) PROVE mode[o] = "FRAME" /\ rsize'[o] >= 0
      OBVIOUS
    <2>1. mode[o] = "FRAME"
      BY <1>2, <1>3 DEF LoopOK
    <2>2. Pos(o) <= base[o] + rsize[o]
      BY <1>2, <1>3, <1>5, <2>1 DEF Reading
    <2> QED BY <1>2, <1>4, <1>5, <2>1, <2>2
  <1>7. ~Live(o) => rsize'[o] <= 0
    BY <1>2, <1>4 DEF Gone
  <1>8. Reading(o)'
    BY <1>2, <1>3, <1>5, <1>6 DEF Reading, input
  <1> QED BY <1>1, <1>2, <1>3, <1>4, <1>6, <1>7, <1>8, ParseStep

(* do_recv reads what was written, and calls onRecv. *)
LEMMA RecvStep == ASSUME IInv, NEW o \in Objs, Recv(o) PROVE IInv'
  <1>1. PICK k \in 1..Unreceived(o) : rsize' = [rsize EXCEPT ![o] = @ + k]
    BY DEF Recv
  <1>2. /\ pc = "idle" /\ Live(o) /\ cur' = o
        /\ pc' = CASE mode[o] = "WAIT" -> "request" [] mode[o] = "REQ" -> "answer" [] OTHER -> "parse"
        /\ UNCHANGED <<sessions, sid, mode, isConnect, base, input, hsKey, told, out, tasks, asks, parseSize>>
    BY DEF Recv
  <1>3. /\ ConnTypeOK /\ RestTypeOK /\ Gone /\ Reading(o) /\ WholeOut(out[o], Live(o)) /\ cur = None /\ parseSize = 0
        /\ Layout(stream[o])
    BY <1>2, TypeParts DEF IInv, ReadingOK, OutputOK, LoopOK, StreamOK
  <1>4. stream[o] \in Seq(Items) /\ base[o] \in Nat /\ rsize[o] \in Int /\ rsize[o] >= 0 /\ None \notin Objs
    BY <1>2, <1>3 DEF RestTypeOK, ConnTypeOK, None, Objs
  <1>5. End(stream[o]) \in Nat
    BY <1>3, <1>4, LayoutIs
  <1>6. k \in Nat /\ k <= End(stream[o]) - (base[o] + rsize[o])
    BY <1>4, <1>5 DEF Unreceived
  <1>7. rsize'[o] = rsize[o] + k /\ rsize' \in [Objs -> Int] /\ \A p \in Objs \ {o} : rsize'[p] = rsize[p]
    BY <1>1, <1>3, <1>6 DEF ConnTypeOK
  <1>8. \A p \in Objs : Live(p)' <=> Live(p)
    BY <1>2 DEF Live
  <1>9. UNCHANGED <<stream, rst>>
    BY <1>2 DEF input
  <1>10. ConnTypeOK' /\ Gone'
    <2>1. Live(o)' /\ rsize'[o] >= 0
      BY <1>2, <1>4, <1>6, <1>7, <1>8
    <2>2. \A p \in Objs : (Live(p)' => rsize'[p] >= 0) /\ (~Live(p)' => rsize'[p] <= 0)
      BY <1>3, <1>7, <1>8, <2>1 DEF ConnTypeOK, Gone
    <2> QED BY <1>2, <1>3, <1>7, <2>2 DEF ConnTypeOK, Gone
  <1>11. \A p \in Objs \ {o} : Kept(p)
    BY <1>2, <1>7, <1>8 DEF Kept
  <1>12. \/ mode[o] = "WAIT" /\ pc' = "request"
         \/ mode[o] = "REQ" /\ pc' = "answer"
         \/ mode[o] = "FRAME" /\ pc' = "parse"
    BY <1>2, <1>3 DEF ConnTypeOK, Modes
  <1>13. sid[o] # -1
    BY <1>2, WebSocketAssumption DEF Live, Ids
  <1>14. LoopOK'
    BY <1>2, <1>3, <1>8, <1>12, <1>13 DEF LoopOK
  <1>15. Reading(o)'
    <2>1. Done(o)' = Done(o) /\ Pos(o) = base[o] /\ Pos(o)' = base[o] /\ ~InHand(o) /\ ~InHand(o)'
      BY <1>2, <1>3, <1>4, <1>12 DEF Done, Pos, InHand
    <2>2. base[o] + rsize'[o] <= End(stream[o]) /\ base[o] + rsize[o] <= base[o] + rsize'[o]
      BY <1>4, <1>5, <1>6, <1>7
    <2>3. mode[o] = "FRAME" => Start(stream[o], Done(o) + 1) = base[o]
      BY <1>2, <1>3, <2>1 DEF Reading
    <2>4. mode[o] = "FRAME" => Start(stream[o], Done(o) + 1) <= base[o] + rsize'[o]
      BY <1>4, <1>6, <1>7, <2>3
    <2> QED BY <1>2, <1>3, <1>8, <1>9, <2>1, <2>2, <2>3, <2>4 DEF Reading
  <1>16. WholeOut(out'[o], Live(o)')
    BY <1>2, <1>3, <1>8 DEF WholeOut
  <1> QED BY <1>2, <1>3, <1>9, <1>10, <1>11, <1>12, <1>13, <1>14, <1>15, <1>16, ParserStep DEF RestTypeOK

-----------------------------------------------------------------------------
(* The application, the tasks and new sessions *)

(* The session a step works on is live: what IInv says of it. *)
LEMMA LiveIs ==
  ASSUME IInv, NEW o \in Objs, Live(o)
  PROVE  /\ ConnTypeOK /\ RestTypeOK /\ Gone /\ sid[o] \in Ids /\ sid[o] # -1
         /\ out[o] \in Seq(Output) /\ WholeOut(out[o], TRUE) /\ out \in [Objs -> Seq(Output)]
  <1>1. ConnTypeOK /\ RestTypeOK
    BY TypeParts DEF IInv
  <1>2. sid[o] \in Ids /\ sid[o] # -1
    BY WebSocketAssumption DEF Live, Ids
  <1>3. WholeOut(out[o], Live(o)) /\ Gone
    BY DEF IInv, OutputOK
  <1>4. WholeOut(out[o], TRUE)
    BY <1>3 DEF WholeOut
  <1> QED BY <1>1, <1>2, <1>3, <1>4 DEF RestTypeOK

(* closeSession, called by the application, a task or a failed recv(). *)
LEMMA CloseStep ==
  ASSUME IInv, NEW o \in Objs, Live(o), CloseSession(o),
         pc \in {"idle", "onReadMsg", "onHandShake"},
         UNCHANGED <<base, input, hsKey, told, out, asks, ctl>>, TasksKept
  PROVE  IInv'
  <1>1. /\ ConnTypeOK /\ RestTypeOK /\ Gone /\ sid[o] # -1 /\ WholeOut(out[o], TRUE)
    BY LiveIs
  <1>2. /\ ConnTypeOK' /\ Gone' /\ ~Live(o)' /\ sid' = sid /\ \A p \in Objs \ {o} : Kept(p)
    BY <1>1, ClosingIs DEF CloseSession, Modes
  <1>3. UNCHANGED <<base, stream, rst, hsKey, told, out, asks, pc, cur, parseSize>>
    BY DEF input, ctl
  <1>4. WholeOut(out'[o], Live(o)')
    BY <1>1, <1>2, <1>3 DEF WholeOut
  <1> QED BY <1>1, <1>2, <1>3, <1>4, SessionStep DEF RestTypeOK

(* sendMsg, called by the application or a task. *)
LEMMA SendStep ==
  ASSUME IInv, NEW o \in Objs, Live(o), NEW by \in Threads \cup {Loop}, NEW m \in Nat, SendMsg(o, by, m),
         pc \in {"idle", "onReadMsg", "onHandShake"},
         UNCHANGED <<base, input, hsKey, told, cur, parseSize>>, TasksKept, asks' \in 0..MaxAsks
  PROVE  IInv'
  <1>1. /\ ConnTypeOK /\ RestTypeOK /\ Gone /\ sid[o] # -1 /\ WholeOut(out[o], TRUE)
        /\ out[o] \in Seq(Output) /\ out \in [Objs -> Seq(Output)]
    BY LiveIs
  <1>2. UNCHANGED <<base, stream, rst, hsKey, told, cur, parseSize>>
    BY DEF input
  <1>3. CASE /\ Sent(o, <<Unit("head", by, m), Unit("body", by, m)>>) /\ UNCHANGED <<conns, pc>>
    <2>1. /\ UNCHANGED <<sessions, sid, mode, isConnect, rsize, pc>>
          /\ out'[o] = out[o] \o <<Unit("head", by, m), Unit("body", by, m)>>
          /\ \A p \in Objs \ {o} : out'[p] = out[p]
      BY <1>1, <1>3 DEF conns, Sent
    <2>2. /\ ConnTypeOK' /\ Gone' /\ \A p \in Objs : Kept(p)
      BY <1>1, <2>1 DEF ConnTypeOK, Gone, Live, Kept
    <2>3. Live(o)' \in BOOLEAN
      BY DEF Live
    <2>4. out'[o] \in Seq(Output) /\ WholeOut(out'[o], Live(o)')
      BY <1>1, <2>1, <2>3, WholeFrame
    <2>5. out' \in [Objs -> Seq(Output)]
      BY <1>1, <1>3, <2>1, <2>4 DEF Sent
    <2> QED BY <1>1, <1>2, <2>1, <2>2, <2>4, <2>5, SessionStep DEF RestTypeOK, Kept
  <1>4. CASE /\ Sent(o, <<Unit("head", by, m)>>) /\ CloseSession(o) /\ UNCHANGED pc
    <2>1. /\ out'[o] = out[o] \o <<Unit("head", by, m)>>
          /\ \A p \in Objs \ {o} : out'[p] = out[p]
      BY <1>1, <1>4 DEF Sent
    <2>2. /\ ConnTypeOK' /\ Gone' /\ ~Live(o)' /\ sid' = sid /\ \A p \in Objs \ {o} : Kept(p)
      BY <1>1, <1>4, ClosingIs DEF CloseSession, Modes
    <2>3. out'[o] \in Seq(Output) /\ WholeOut(out'[o], FALSE)
      BY <1>1, <2>1, WholeHead
    <2>4. out' \in [Objs -> Seq(Output)] /\ WholeOut(out'[o], Live(o)')
      BY <1>1, <1>4, <2>1, <2>2, <2>3 DEF Sent, WholeOut
    <2> QED BY <1>1, <1>2, <1>4, <2>1, <2>2, <2>4, SessionStep DEF RestTypeOK
  <1>5. CASE /\ CloseSession(o) /\ pc' = "crashed" /\ UNCHANGED out
    <2>1. /\ ConnTypeOK' /\ Gone' /\ ~Live(o)' /\ sid' = sid /\ \A p \in Objs \ {o} : Kept(p)
      BY <1>1, <1>5, ClosingIs DEF CloseSession, Modes
    <2>2. WholeOut(out'[o], Live(o)')
      BY <1>1, <1>5, <2>1 DEF WholeOut
    <2> QED BY <1>1, <1>2, <1>5, <2>1, <2>2, SessionStep DEF RestTypeOK
  <1> QED BY <1>3, <1>4, <1>5 DEF SendMsg

(* No task is taken or made. *)
LEMMA SameTasks == ASSUME IInv, tasks' = tasks PROVE TasksKept
  <1>1. RestTypeOK
    BY TypeParts DEF IInv
  <1> QED BY <1>1 DEF TasksKept, RestTypeOK

(* The application sends or closes, or recv() fails. *)
LEMMA AppStep ==
  ASSUME IInv, NEW o \in Objs, AppSends(o) \/ AppCloses(o) \/ RecvFails(o)
  PROVE  IInv'
  <1>1. TasksKept /\ Live(o) /\ pc \in {"idle", "onReadMsg", "onHandShake"}
    BY SameTasks DEF AppSends, AppCloses, RecvFails, AppHasControl
  <1>2. CASE AppSends(o)
    <2>1. /\ asks \in Nat /\ asks' \in 0..MaxAsks
      BY <1>2, WebSocketAssumption DEF AppSends, IInv, TypeOK
    <2>2. /\ SendMsg(o, Loop, asks) /\ UNCHANGED <<base, input, hsKey, told, cur, parseSize>>
      BY <1>2 DEF AppSends
    <2> QED BY <1>1, <2>1, <2>2, SendStep
  <1>3. CASE AppCloses(o) \/ RecvFails(o)
    <2>1. CloseSession(o) /\ UNCHANGED <<base, input, hsKey, told, out, asks, ctl>>
      BY <1>3 DEF AppCloses, RecvFails
    <2> QED BY <1>1, <2>1, CloseStep
  <1> QED BY <1>2, <1>3

(* A session is made of the next object, and may be off the table again
   when onConnect returns.                                                *)
LEMMA OpenStep ==
  ASSUME IInv, pc = "idle", NEW o \in Objs, sid[o] = -1, NEW m \in {"WAIT", "REQ"},
         NEW i \in Ids, sessions[i] = None, sid' = [sid EXCEPT ![o] = i],
         sessions' = [sessions EXCEPT ![i] = o] \/ sessions' = sessions,
         mode' = [mode EXCEPT ![o] = m], isConnect' \in [Objs -> BOOLEAN], rsize' = rsize,
         out' = out \/ Sent(o, <<Unit("request", Loop, None)>>),
         UNCHANGED <<base, input, told, asks, ctl>>, hsKey' \in Objs \cup {None}, TasksKept
  PROVE  IInv'
  <1>1. ConnTypeOK /\ RestTypeOK /\ Gone /\ Fresh /\ out \in [Objs -> Seq(Output)]
    BY TypeParts DEF IInv, RestTypeOK
  <1>2. /\ ConnTypeOK' /\ Gone' /\ sid'[o] = i /\ mode'[o] = m /\ rsize'[o] = 0
        /\ \A p \in Objs \ {o} : Kept(p)
    BY <1>1, OpeningIs DEF Modes
  <1>3. UNCHANGED <<base, stream, rst, told, asks, pc, cur, parseSize>>
    BY DEF input, ctl
  <1>4. out[o] = <<>> /\ rsize[o] = 0 /\ i # -1
    BY <1>1, WebSocketAssumption DEF Fresh, Ids
  <1>5. out' \in [Objs -> Seq(Output)] /\ WholeOut(out'[o], Live(o)') /\ \A p \in Objs \ {o} : out'[p] = out[p]
    <2>1. CASE out' = out
      BY <1>1, <1>4, <2>1 DEF WholeOut
    <2>2. CASE Sent(o, <<Unit("request", Loop, None)>>)
      <3>1. out'[o] = out[o] \o <<Unit("request", Loop, None)>> /\ \A p \in Objs \ {o} : out'[p] = out[p]
        BY <1>1, <2>2 DEF Sent
      <3>2. out[o] \in Seq(Output) /\ WholeOut(out[o], TRUE) /\ None \in Nat /\ Live(o)' \in BOOLEAN
        BY <1>1, <1>4 DEF WholeOut, None, Live
      <3>3. out'[o] \in Seq(Output) /\ WholeOut(out'[o], Live(o)')
        BY <3>1, <3>2, WholeOther
      <3> QED BY <1>1, <2>2, <3>1, <3>3 DEF Sent
    <2> QED BY <2>1, <2>2
  <1> QED BY <1>1, <1>2, <1>3, <1>4, <1>5, SessionStep DEF RestTypeOK

(* A session is made for an accepted connection. *)
LEMMA OnAcceptStep == ASSUME IInv, OnAccept PROVE IInv'
  <1>1. PICK o \in Objs : NewSession(o, FALSE, "WAIT")
    BY DEF OnAccept
  <1>2. /\ pc = "idle" /\ hsKey' = None /\ UNCHANGED <<base, input, told, out, tasks, asks, ctl>>
    BY DEF OnAccept
  <1>3. PICK i \in Ids : /\ sessions[i] = None /\ sessions' = [sessions EXCEPT ![i] = o]
                         /\ sid' = [sid EXCEPT ![o] = i]
    BY <1>1 DEF NewSession
  <1>4. /\ sid[o] = -1 /\ isConnect' = [isConnect EXCEPT ![o] = FALSE]
        /\ mode' = [mode EXCEPT ![o] = "WAIT"] /\ rsize' = rsize
    BY <1>1 DEF NewSession
  <1>5. isConnect' \in [Objs -> BOOLEAN]
    BY <1>4 DEF IInv, TypeOK
  <1> QED BY <1>2, <1>3, <1>4, <1>5, SameTasks, OpenStep

(* A session is made for a connection, and asks for an upgrade. *)
LEMMA OnConnectStep ==
  ASSUME IInv, pc = "idle", NEW o \in Objs, OnConnect(o),
         UNCHANGED <<base, input, hsKey, told, asks, ctl>>, TasksKept
  PROVE  IInv'
  <1>1. isConnect \in [Objs -> BOOLEAN] /\ hsKey \in Objs \cup {None}
    BY DEF IInv, TypeOK
  <1>2. CASE NewSession(o, TRUE, "REQ") /\ Sent(o, <<Unit("request", Loop, None)>>)
    <2>1. PICK i \in Ids : /\ sessions[i] = None /\ sessions' = [sessions EXCEPT ![i] = o]
                           /\ sid' = [sid EXCEPT ![o] = i]
      BY <1>2 DEF NewSession
    <2>2. /\ sid[o] = -1 /\ isConnect' = [isConnect EXCEPT ![o] = TRUE]
          /\ mode' = [mode EXCEPT ![o] = "REQ"] /\ rsize' = rsize
      BY <1>2 DEF NewSession
    <2>3. isConnect' \in [Objs -> BOOLEAN]
      BY <1>1, <2>2
    <2> QED BY <1>1, <1>2, <2>1, <2>2, <2>3, OpenStep
  <1>3. CASE /\ sid[o] = -1 /\ \E i \in Ids : sessions[i] = None /\ sid' = [sid EXCEPT ![o] = i]
             /\ mode' = [mode EXCEPT ![o] = "REQ"]
             /\ UNCHANGED <<sessions, isConnect, rsize, out>>
    <2>1. PICK i \in Ids : sessions[i] = None /\ sid' = [sid EXCEPT ![o] = i]
      BY <1>3
    <2> QED BY <1>1, <1>3, <2>1, OpenStep
  <1> QED BY <1>2, <1>3 DEF OnConnect

(* Nothing but the tasks changes, unless a task ends the program. *)
LEMMA TasksStep ==
  ASSUME IInv, UNCHANGED <<conns, base, input, hsKey, told, out, cur, parseSize>>, asks' \in 0..MaxAsks,
         pc' = pc \/ (pc = "idle" /\ pc' = "aborted"),
         tasks' \in [Threads -> Seq(Tasks)], TasksOK'
  PROVE  IInv'
  <1>1. UNCHANGED <<sessions, sid, mode, isConnect, rsize, base, stream, rst, hsKey, told, out, cur, parseSize>>
    BY DEF conns, input
  <1>2. TypeOK'
    BY <1>1 DEF IInv, TypeOK, Live, Tasks
  <1>3. StreamOK' /\ Fresh' /\ Gone' /\ LoopOK' /\ OutputOK'
    BY <1>1 DEF IInv, StreamOK, Fresh, Gone, LoopOK, OutputOK, Live
  <1>4. ReadingOK'
    <2> SUFFICES ASSUME NEW p \in Objs PROVE Reading(p)'
      BY DEF ReadingOK
    <2>1. Reading(p) /\ Pos(p)' = Pos(p) /\ (InHand(p)' <=> InHand(p)) /\ (Live(p)' <=> Live(p))
      BY <1>1 DEF IInv, ReadingOK, Pos, InHand, Live
    <2> QED BY <1>1, <2>1, ReadingKept
  <1> QED BY <1>2, <1>3, <1>4 DEF IInv

(* A task is taken from the queue of a thread. *)
LEMMA TaskTaken ==
  ASSUME IInv, NEW t \in Threads, tasks[t] # <<>>, tasks' = [tasks EXCEPT ![t] = Tail(@)]
  PROVE  /\ TasksKept /\ NextTask(t) \in Tasks
         /\ NextTask(t).obj = None <=> NextTask(t).type \in {"NONE", "CONNECT_TO"}
         /\ NextTask(t).obj # None => sid[NextTask(t).obj] = NextTask(t).id
  <1>1. tasks \in [Threads -> Seq(Tasks)]
    BY TypeParts DEF IInv, RestTypeOK
  <1>2. /\ tasks[t] \in Seq(Tasks) /\ 1 \in 1..Len(tasks[t]) /\ NextTask(t) = tasks[t][1]
    BY <1>1 DEF NextTask
  <1>3. TasksKept
    <2>1. Tail(tasks[t]) \in Seq(Tasks)
      BY <1>2
    <2>2. tasks' \in [Threads -> Seq(Tasks)]
      BY <1>1, <2>1
    <2>3. ASSUME NEW u \in Threads, NEW k \in 1..Len(tasks'[u])
          PROVE  \E j \in 1..Len(tasks[u]) : tasks'[u][k] = tasks[u][j]
      <3>1. CASE u = t
        <4>1. /\ tasks'[u] = Tail(tasks[t]) /\ k + 1 \in 1..Len(tasks[t])
              /\ tasks'[u][k] = tasks[t][k + 1]
          BY <1>1, <1>2, <2>3, <3>1
        <4> QED BY <3>1, <4>1
      <3>2. CASE u # t
        BY <1>1, <2>3, <3>2
      <3> QED BY <3>1, <3>2
    <2> QED BY <2>2, <2>3 DEF TasksKept
  <1>4. NextTask(t) \in Tasks
    BY <1>2
  <1> QED BY <1>2, <1>3, <1>4 DEF IInv, TasksOK

(* The loop runs a task of another thread. *)
LEMMA OnTaskStep == ASSUME IInv, NEW t \in Threads, OnTask(t) PROVE IInv'
  <1> SUFFICES ASSUME NEW task, task = NextTask(t) PROVE IInv'
    OBVIOUS
  <1>1. /\ pc = "idle" /\ tasks[t] # <<>> /\ tasks' = [tasks EXCEPT ![t] = Tail(@)]
        /\ UNCHANGED <<base, input, hsKey, told, asks, cur, parseSize>>
    BY DEF OnTask
  <1>2. /\ TasksKept /\ task \in Tasks /\ (task.obj = None <=> task.type \in {"NONE", "CONNECT_TO"})
        /\ task.obj # None => sid[task.obj] = task.id
    BY <1>1, TaskTaken
  <1>3. asks \in 0..MaxAsks /\ TypeOK /\ TasksOK
    BY DEF IInv, TypeOK
  <1>4. ForItsSession(task) /\ task.obj # None => task.obj \in Objs /\ Live(task.obj)
    BY <1>2 DEF ForItsSession, Tasks, Live
  <1>5. task.m \in Nat /\ task.id \in Ids
    BY <1>2 DEF Tasks
  <1>6. CASE UNCHANGED <<conns, out>> /\ pc' \in {pc, "aborted"}
    <2>1. TasksOK'
      BY <1>2, <1>3, <1>6, TasksOKKept DEF conns
    <2> QED BY <1>1, <1>2, <1>3, <1>6, <2>1, TasksStep DEF TasksKept
  <1>7. CASE ForItsSession(task) /\ task.type = "SEND_TO" /\ SendMsg(task.obj, t, task.m)
    BY <1>1, <1>2, <1>3, <1>4, <1>5, <1>7, SendStep
  <1>8. CASE /\ ForItsSession(task) /\ task.type = "CLOSE_SESSION"
             /\ CloseSession(sessions[task.id]) /\ UNCHANGED <<out, pc>>
    <2>1. sessions[task.id] = task.obj
      BY <1>8 DEF ForItsSession
    <2> QED BY <1>1, <1>2, <1>4, <1>8, <2>1, CloseStep DEF ctl
  <1>9. ASSUME NEW o \in Objs, OnConnect(o), UNCHANGED pc PROVE IInv'
    BY <1>1, <1>2, <1>9, OnConnectStep DEF ctl
  <1> QED BY <1>6, <1>7, <1>8, <1>9 DEF OnTask

(* Another thread makes a task. *)
LEMMA GenTaskStep == ASSUME IInv, NEW t \in Threads, GenTask(t) PROVE IInv'
  <1>1. PICK task \in [type : TaskTypes, obj : {None} \cup Objs] :
          /\ task.obj = None <=> task.type \in {"NONE", "CONNECT_TO"}
          /\ task.obj # None => sid[task.obj] # -1
          /\ \E id \in IF task.obj = None THEN Ids ELSE {sid[task.obj]} :
               tasks' = [tasks EXCEPT ![t] =
                           Append(@, [type |-> task.type, obj |-> task.obj, id |-> id, m |-> asks])]
    BY DEF GenTask
  <1>2. PICK id \in IF task.obj = None THEN Ids ELSE {sid[task.obj]} :
          tasks' = [tasks EXCEPT ![t] =
                      Append(@, [type |-> task.type, obj |-> task.obj, id |-> id, m |-> asks])]
    BY <1>1
  <1>3. asks < MaxAsks /\ asks' = asks + 1 /\ UNCHANGED <<conns, base, input, hsKey, told, out, ctl>>
    BY DEF GenTask
  <1>4. RestTypeOK /\ ConnTypeOK /\ TasksOK
    BY TypeParts DEF IInv
  <1>5. asks \in Nat /\ asks' \in 0..MaxAsks
    <2>1. asks \in 0..MaxAsks
      BY <1>4 DEF RestTypeOK
    <2> QED BY <1>3, <2>1, WebSocketAssumption
  <1>6. id \in Ids /\ (task.obj # None => sid[task.obj] = id)
    BY <1>1, <1>2, <1>4 DEF ConnTypeOK
  <1> DEFINE e == [type |-> task.type, obj |-> task.obj, id |-> id, m |-> asks]
  <1>7. /\ e \in Tasks /\ (e.obj = None <=> e.type \in {"NONE", "CONNECT_TO"})
        /\ e.obj # None => sid[e.obj] = e.id
    BY <1>1, <1>5, <1>6 DEF Tasks
  <1>8. tasks' = [tasks EXCEPT ![t] = Append(@, e)]
    BY <1>2
  <1> HIDE DEF e
  <1>9. tasks \in [Threads -> Seq(Tasks)] /\ tasks[t] \in Seq(Tasks) /\ tasks' \in [Threads -> Seq(Tasks)]
    BY <1>4, <1>7, <1>8 DEF RestTypeOK
  <1>10. TasksOK'
    <2> SUFFICES ASSUME NEW u \in Threads, NEW k \in 1..Len(tasks'[u])
                 PROVE  LET x == tasks'[u][k]
                        IN  (x.obj = None <=> x.type \in {"NONE", "CONNECT_TO"}) /\ (x.obj # None => sid'[x.obj] = x.id)
      BY DEF TasksOK
    <2>1. sid' = sid
      BY <1>3 DEF conns
    <2>2. CASE u = t
      <3>1. tasks'[u] = Append(tasks[t], e)
        BY <1>8, <1>9, <2>2
      <3>2. CASE k = Len(tasks[t]) + 1
        BY <1>7, <1>9, <2>1, <3>1, <3>2
      <3>3. CASE k # Len(tasks[t]) + 1
        <4>1. k \in 1..Len(tasks[t]) /\ tasks'[u][k] = tasks[t][k]
          BY <1>7, <1>9, <3>1, <3>3
        <4> QED BY <1>4, <2>1, <4>1 DEF TasksOK
      <3> QED BY <3>2, <3>3
    <2>3. CASE u # t
      <3>1. tasks'[u] = tasks[u]
        BY <1>8, <1>9, <2>3
      <3> QED BY <1>4, <2>1, <3>1 DEF TasksOK
    <2> QED BY <2>2, <2>3
  <1> QED BY <1>3, <1>5, <1>9, <1>10, TasksStep DEF ctl

-----------------------------------------------------------------------------
(* The peers *)

(* A peer writes an item: what was received and parsed is where it was. *)
LEMMA PeerWritesStep == ASSUME IInv, NEW o \in Objs, PeerWrites(o) PROVE IInv'
  <1>1. PICK f \in Handshakes \cup Frames :
          /\ stream[o] = <<>> =>
               f.op \in IF isConnect[o] THEN Answers ELSE Requests
          /\ stream[o] # <<>> => f \in Frames /\ Last(stream[o]).item \notin LastFrames
          /\ stream' = [stream EXCEPT ![o] = Append(@, [item |-> f, at |-> End(@)])]
    BY DEF PeerWrites
  <1>2. Live(o) /\ UNCHANGED <<conns, base, rst, hsKey, told, out, tasks, asks, ctl>>
    BY DEF PeerWrites
  <1>3. UNCHANGED <<sessions, sid, mode, isConnect, rsize, base, rst, hsKey, told, out, tasks, asks, pc, cur, parseSize>>
    BY <1>2 DEF conns, ctl
  <1>4. ConnTypeOK /\ RestTypeOK /\ Layout(stream[o]) /\ stream[o] \in Seq(Items)
    BY TypeParts DEF IInv, StreamOK, RestTypeOK
  <1>5. stream[o] = <<>> => f \in Handshakes
    <2>1. f \in Frames => f.op \in {"data", "control", "reserved", "bits"}
      BY DEF Frames, DataFrames, LastFrames
    <2> QED BY <1>1, <2>1 DEF Answers, Requests
  <1>6. SUFFICES ASSUME NEW s, s = stream[o], NEW z, z = Append(s, [item |-> f, at |-> End(s)])
                 PROVE  IInv'
    OBVIOUS
  <1>7. stream' = [stream EXCEPT ![o] = z] /\ stream \in [Objs -> Seq(Items)] /\ s \in Seq(Items)
    BY <1>1, <1>4, <1>6 DEF RestTypeOK
  <1>8. /\ z \in Seq(Items) /\ Layout(z) /\ Len(z) = Len(s) + 1 /\ Len(s) \in Nat
        /\ End(s) <= End(z)
        /\ \A i \in 1..Len(s) : z[i] = s[i] /\ Start(z, i + 1) = Start(s, i + 1)
    <2>1. (s = <<>> => f \in Handshakes) /\ (s # <<>> => f \in Frames)
      BY <1>1, <1>5, <1>6
    <2>2. Layout(s) /\ s \in Seq(Items)
      BY <1>4, <1>6
    <2>3. Len(s) \in Nat
      BY <2>2
    <2>4. z = Append(s, [item |-> f, at |-> End(s)])
      BY <1>6
    <2>5. /\ z \in Seq(Items) /\ Layout(z) /\ Len(z) = Len(s) + 1
          /\ End(s) <= End(z)
          /\ \A i \in 1..Len(s) : z[i] = s[i] /\ Start(z, i + 1) = Start(s, i + 1)
      BY ZenonT(40), <2>1, <2>2, <2>4, LayoutGrows
    <2> QED BY <2>3, <2>5
  <1>9. stream' \in [Objs -> Seq(Items)] /\ stream'[o] = z /\ \A p \in Objs \ {o} : stream'[p] = stream[p]
    BY <1>7, <1>8
  <1>10. TypeOK'
    <2>1. ConnTypeOK' /\ RestTypeOK'
      BY <1>3, <1>4, <1>9 DEF ConnTypeOK, RestTypeOK, Live
    <2> QED BY <2>1 DEF TypeOK, ConnTypeOK, RestTypeOK, Modes, Items, Output, Tasks
  <1>11. StreamOK'
    BY <1>8, <1>9 DEF IInv, StreamOK
  <1>12. sid[o] # -1
    BY <1>2, WebSocketAssumption DEF Live, Ids
  <1>13. Fresh'
    BY <1>3, <1>9, <1>12 DEF IInv, Fresh
  <1>14. Gone' /\ TasksOK' /\ LoopOK' /\ OutputOK'
    BY <1>3 DEF IInv, Gone, TasksOK, LoopOK, OutputOK, Live
  <1>15. ASSUME NEW p \in Objs \ {o} PROVE Reading(p)'
    <2>1. Reading(p) /\ Pos(p)' = Pos(p) /\ (InHand(p)' <=> InHand(p)) /\ (Live(p)' <=> Live(p))
      BY <1>3 DEF IInv, ReadingOK, Pos, InHand, Live
    <2> QED BY <1>3, <1>9, <2>1, ReadingKept
  <1>16. Reading(o)'
    <2>1. /\ Reading(o) /\ Pos(o)' = Pos(o) /\ (InHand(o)' <=> InHand(o)) /\ (Live(o)' <=> Live(o))
          /\ Done(o)' = Done(o)
      BY <1>3 DEF IInv, ReadingOK, Pos, InHand, Live, Done
    <2>2. End(s) \in Nat /\ base[o] \in Nat /\ rsize[o] \in Int /\ Done(o) \in Nat \ {0}
      <3>1. End(s) \in Nat /\ base[o] \in Nat /\ rsize[o] \in Int
        BY <1>4, <1>6, LayoutIs DEF RestTypeOK, ConnTypeOK
      <3>2. told[o] \in Seq(Nat) /\ Len(told[o]) \in Nat
        BY <1>4 DEF RestTypeOK
      <3> QED BY <3>1, <3>2 DEF Done
    <2>3. SUFFICES ASSUME NEW n \in Nat \ {0}, n = Done(o) PROVE Reading(o)'
      BY <2>2
    <2>4. n <= Len(s) =>
            /\ n \in 1..Len(s) /\ n <= Len(z) /\ z[n] = s[n] /\ Start(z, n + 1) = Start(s, n + 1)
            /\ Start(z, n) = z[n].at /\ Start(s, n) = s[n].at
      BY <1>8 DEF Start
    <2>5. told'[o] = [k \in 1..(n - 1) |-> k + 1]
      BY <1>3, <2>1, <2>3 DEF Reading
    <2>6. Live(o) /\ pc # "crashed" =>
            /\ base[o] + rsize[o] <= End(z)
            /\ mode[o] = "FRAME" =>
                 /\ n <= Len(z)
                 /\ Pos(o) = Start(z, IF InHand(o) THEN n ELSE n + 1)
                 /\ Start(z, n + 1) <= base[o] + rsize[o]
            /\ mode[o] # "FRAME" => base[o] = 0 /\ n = 1
      <3> SUFFICES ASSUME Live(o), pc # "crashed"
                   PROVE  /\ base[o] + rsize[o] <= End(z)
                          /\ mode[o] = "FRAME" =>
                               /\ n <= Len(z)
                               /\ Pos(o) = Start(z, IF InHand(o) THEN n ELSE n + 1)
                               /\ Start(z, n + 1) <= base[o] + rsize[o]
                          /\ mode[o] # "FRAME" => base[o] = 0 /\ n = 1
        OBVIOUS
      <3>1. base[o] + rsize[o] <= End(s)
        BY <1>6, <2>1 DEF Reading
      <3>2. End(z) \in Nat
        BY <1>8, LayoutIs
      <3>3. base[o] + rsize[o] <= End(z)
        BY <1>8, <2>2, <3>1, <3>2
      <3>4. mode[o] = "FRAME" =>
              /\ n <= Len(s) /\ Pos(o) = Start(s, IF InHand(o) THEN n ELSE n + 1)
              /\ Start(s, n + 1) <= base[o] + rsize[o]
        BY <1>6, <2>1, <2>3 DEF Reading
      <3>5. mode[o] # "FRAME" => base[o] = 0 /\ n = 1
        BY <2>1, <2>3 DEF Reading
      <3> QED BY <2>4, <3>3, <3>4, <3>5
    <2>7. InHand(o) => /\ n <= Len(z) /\ Pos(o) = z[n].at /\ z[n].item \in DataFrames
      <3>1. InHand(o) => n <= Len(s) /\ Pos(o) = s[n].at /\ s[n].item \in DataFrames
        BY <1>6, <2>1, <2>3 DEF Reading
      <3> QED BY <2>4, <3>1
    <2> QED BY <1>3, <1>9, <2>1, <2>3, <2>5, <2>6, <2>7 DEF Reading
  <1>17. ReadingOK'
    BY <1>15, <1>16 DEF ReadingOK
  <1> QED BY <1>10, <1>11, <1>13, <1>14, <1>17 DEF IInv

(* The peer resets the connection. *)
LEMMA PeerResetsStep == ASSUME IInv, NEW o \in Objs, PeerResets(o) PROVE IInv'
  <1>1. rst' = rst \cup {o} /\ UNCHANGED <<conns, base, stream, hsKey, told, out, tasks, asks, ctl>>
    BY DEF PeerResets
  <1>2. UNCHANGED <<sessions, sid, mode, isConnect, rsize, base, stream, hsKey, told, out, tasks, asks, pc, cur, parseSize>>
    BY <1>1 DEF conns, ctl
  <1>3. TypeOK'
    BY <1>1, <1>2 DEF IInv, TypeOK, Live
  <1>4. StreamOK' /\ Fresh' /\ Gone' /\ TasksOK' /\ LoopOK' /\ OutputOK'
    BY <1>2 DEF IInv, StreamOK, Fresh, Gone, TasksOK, LoopOK, OutputOK, Live
  <1>5. ReadingOK'
    <2> SUFFICES ASSUME NEW p \in Objs PROVE Reading(p)'
      BY DEF ReadingOK
    <2>1. Reading(p) /\ Pos(p)' = Pos(p) /\ (InHand(p)' <=> InHand(p)) /\ (Live(p)' <=> Live(p))
      BY <1>2 DEF IInv, ReadingOK, Pos, InHand, Live
    <2> QED BY <1>2, <2>1, ReadingKept
  <1> QED BY <1>3, <1>4, <1>5 DEF IInv

-----------------------------------------------------------------------------
(* The invariant holds *)

(* There are no sessions and no tasks at first. *)
LEMMA InitIInv == Init => IInv
  <1> SUFFICES ASSUME Init PROVE IInv
    OBVIOUS
  <1>1. \A o \in Objs : ~Live(o)
    BY WebSocketAssumption DEF Init, Live, Ids
  <1>2. TypeOK
    BY <1>1, WebSocketAssumption DEF Init, TypeOK
  <1>3. StreamOK /\ Fresh /\ Gone /\ TasksOK /\ LoopOK /\ OutputOK
    <2>1. \A o \in Objs : Layout(stream[o])
      BY DEF Init, Layout
    <2>2. \A o \in Objs : WholeOut(out[o], Live(o))
      BY DEF Init, WholeOut
    <2> QED BY <2>1, <2>2 DEF Init, StreamOK, Fresh, Gone, TasksOK, LoopOK, OutputOK
  <1>4. ReadingOK
    <2> SUFFICES ASSUME NEW o \in Objs PROVE Reading(o)
      BY DEF ReadingOK
    <2>1. told[o] = <<>> /\ Done(o) = 1 /\ ~InHand(o)
      BY DEF Init, Done, InHand
    <2> QED BY <1>1, <2>1 DEF Reading
  <1> QED BY <1>2, <1>3, <1>4 DEF IInv

(* Every step keeps the invariant. *)
LEMMA NextIInv == IInv /\ [Next]_vars => IInv'
  <1> SUFFICES ASSUME IInv, [Next]_vars PROVE IInv'
    OBVIOUS
  <1>1. CASE OnAccept
    BY <1>1, OnAcceptStep
  <1>2. CASE OnRecv
    BY <1>2, HeadersIncompleteStep, RefusedStep, RequestAcceptedStep, AnswerAcceptedStep,
       AfterHandShakeStep, ParseDataStep, AfterReadMsgStep, ParseEndsStep, ParseAbortsStep DEF OnRecv
  <1>3. ASSUME NEW o \in Objs,
               PeerWrites(o) \/ PeerResets(o) \/ RecvFails(o) \/ Recv(o) \/ AppSends(o) \/ AppCloses(o)
        PROVE  IInv'
    BY <1>3, PeerWritesStep, PeerResetsStep, AppStep, RecvStep
  <1>4. ASSUME NEW t \in Threads, GenTask(t) \/ OnTask(t) PROVE IInv'
    BY <1>4, GenTaskStep, OnTaskStep
  <1>5. CASE UNCHANGED vars
    <2>1. asks' \in 0..MaxAsks /\ tasks' \in [Threads -> Seq(Tasks)] /\ TasksOK'
          /\ UNCHANGED <<conns, base, input, hsKey, told, out, ctl>>
      BY <1>5 DEF vars, conns, IInv, TypeOK, TasksOK, Tasks
    <2> QED BY <2>1, TasksStep DEF ctl
  <1> QED BY <1>1, <1>2, <1>3, <1>4, <1>5 DEF Next

(* The inductive invariant holds in every reachable state. *)
THEOREM Invariance == Spec => []IInv
  BY InitIInv, NextIInv, PTL DEF Spec

(***************************************************************************)
(* Whatever the segments, the callbacks and the tasks: every data frame    *)
(* before the parser was told once, in order and whole, and the parser     *)
(* stands at the start of a frame.                                         *)
(***************************************************************************)
THEOREM InvHolds == Spec => []Inv
  <1>1. IInv => Inv
    <2> SUFFICES ASSUME IInv PROVE Inv
      OBVIOUS
    <2>1. TypeOK /\ \A o \in Objs : Reading(o)
      BY DEF IInv, ReadingOK
    <2>2. ASSUME NEW o \in Objs
          PROVE LET n    == Len(told[o]) + 1
                    here == IF pc = "onReadMsg" /\ o = cur THEN n ELSE n + 1
                IN  /\ told[o] = [k \in 1..(n - 1) |-> k + 1]
                    /\ Live(o) /\ pc # "crashed" =>
                         IF mode[o] = "FRAME"
                         THEN /\ Pos(o) = Start(stream[o], here)
                              /\ Start(stream[o], n + 1) <= base[o] + rsize[o]
                         ELSE base[o] = 0 /\ n = 1
      BY <2>1 DEF Reading, Done, InHand
    <2> QED BY <2>1, <2>2 DEF Inv, MessagesInOrder
  <1> QED BY <1>1, Invariance, PTL

(***************************************************************************)
(* The output of a session is whole frames, each head followed by its own  *)
(* payload, unless it is the last thing sent and the session was closed.   *)
(***************************************************************************)
THEOREM FramesWholeHolds == Spec => []FramesWhole
  <1>1. IInv => FramesWhole
    BY WholeIs, TypeParts DEF IInv, RestTypeOK
  <1> QED BY <1>1, Invariance, PTL

(***************************************************************************)
(* A closed session is told nothing and sends nothing, whether onRecv is   *)
(* still at work on it or a task was made for it.                          *)
(***************************************************************************)
Silence == \A o \in Objs : sid[o] # -1 /\ ~Live(o) => told'[o] = told[o] /\ out'[o] = out[o]

(* Every step leaves what a closed session heard and sent alone. *)
THEOREM SilentAfterCloseHolds == Spec => SilentAfterClose
  <1>1. ASSUME IInv, [Next]_vars, NEW o \in Objs, sid[o] # -1, ~Live(o)
        PROVE  told'[o] = told[o] /\ out'[o] = out[o]
    <2>1. /\ told \in [Objs -> Seq(Nat)] /\ out \in [Objs -> Seq(Output)] /\ TasksOK
          /\ ConnTypeOK /\ Gone /\ LoopOK /\ tasks \in [Threads -> Seq(Tasks)]
      BY <1>1, TypeParts DEF IInv, RestTypeOK
    <2>2. ASSUME NEW p \in Objs, Live(p), NEW by, NEW m, SendMsg(p, by, m)
          PROVE  out'[o] = out[o]
      BY <1>1, <2>1, <2>2 DEF SendMsg, Sent
    <2>3. CASE OnAccept
      BY <2>3 DEF OnAccept
    <2>4. CASE OnRecv
      <3>1. CASE RequestAccepted
        <4>1. Live(cur)
          BY <2>1, <3>1 DEF RequestAccepted, LoopOK
        <4> QED BY <1>1, <2>1, <3>1, <4>1 DEF RequestAccepted, Sent
      <3>2. CASE ParseData
        <4>1. PICK p \in Objs : WorksOn(p)
          BY <1>1, <3>2, Working DEF ParseData
        <4>2. cur = p /\ rsize[p] \in Int /\ parseSize \in Nat
          BY <4>1 DEF WorksOn
        <4>3. Live(p)
          BY <2>1, <3>2, <4>2 DEF ParseData, HeadIn, InputLength, FixedHeader, Gone
        <4> QED BY <1>1, <2>1, <3>2, <4>2, <4>3 DEF ParseData
      <3>3. CASE HeadersIncomplete \/ RequestRefused \/ AnswerRefused \/ ParseRefuses
        BY <3>3 DEF HeadersIncomplete, RequestRefused, AnswerRefused, ParseRefuses, ClosedInOnRecv
      <3>4. CASE AnswerAccepted \/ AfterHandShake \/ AfterReadMsg \/ ParseEnds \/ ParseAborts
        BY <3>4 DEF AnswerAccepted, AfterHandShake, AfterReadMsg, ParseEnds, ParseAborts
      <3> QED BY <2>4, <3>1, <3>2, <3>3, <3>4 DEF OnRecv
    <2>5. ASSUME NEW p \in Objs,
                 PeerWrites(p) \/ PeerResets(p) \/ RecvFails(p) \/ Recv(p) \/ AppSends(p) \/ AppCloses(p)
          PROVE  told'[o] = told[o] /\ out'[o] = out[o]
      <3>1. CASE AppSends(p)
        BY <2>2, <3>1 DEF AppSends
      <3>2. CASE PeerWrites(p) \/ PeerResets(p) \/ RecvFails(p) \/ Recv(p) \/ AppCloses(p)
        BY <3>2 DEF PeerWrites, PeerResets, RecvFails, Recv, AppCloses
      <3> QED BY <2>5, <3>1, <3>2
    <2>6. ASSUME NEW t \in Threads, GenTask(t) PROVE told'[o] = told[o] /\ out'[o] = out[o]
      BY <2>6 DEF GenTask
    <2>7. ASSUME NEW t \in Threads, OnTask(t) PROVE told'[o] = told[o] /\ out'[o] = out[o]
      <3> SUFFICES ASSUME NEW task, task = NextTask(t) PROVE told'[o] = told[o] /\ out'[o] = out[o]
        OBVIOUS
      <3>1. /\ tasks[t] # <<>> /\ tasks' = [tasks EXCEPT ![t] = Tail(@)] /\ told' = told
        BY <2>7 DEF OnTask
      <3>2. /\ task \in Tasks /\ (task.obj = None <=> task.type \in {"NONE", "CONNECT_TO"})
            /\ task.obj # None => sid[task.obj] = task.id
        BY <1>1, <3>1, TaskTaken
      <3>3. CASE ForItsSession(task) /\ task.type = "SEND_TO" /\ SendMsg(task.obj, t, task.m)
        <4>1. task.obj \in Objs /\ Live(task.obj)
          BY <3>2, <3>3 DEF ForItsSession, Tasks, Live
        <4> QED BY <2>2, <3>1, <3>3, <4>1
      <3>4. ASSUME NEW p \in Objs, OnConnect(p) PROVE out'[o] = out[o]
        BY <1>1, <2>1, <3>4 DEF OnConnect, NewSession, Sent
      <3> QED BY <2>7, <3>1, <3>3, <3>4 DEF OnTask
    <2>8. CASE UNCHANGED vars
      BY <2>8 DEF vars
    <2> QED BY <1>1, <2>3, <2>4, <2>5, <2>6, <2>7, <2>8 DEF Next
  <1>2. IInv /\ [Next]_vars => [Silence]_vars
    BY <1>1 DEF Silence
  <1>3. Spec => [][Silence]_vars
    BY <1>2, Invariance, PTL DEF Spec
  <1> QED BY <1>3 DEF SilentAfterClose, Silence

(***************************************************************************)
(* A task acts on the session it was made for and leaves every other open  *)
(* one as it is, whoever has its id by then.                               *)
(***************************************************************************)
OnlyItsSession ==
  \A t \in Threads : OnTask(t) =>
    \A o \in Objs : Live(o) /\ o # NextTask(t).obj => Live(o)' /\ out'[o] = out[o]

(* A task leaves the live sessions it is not for alone. *)
THEOREM ActsOnItsSessionHolds == Spec => ActsOnItsSession
  <1>1. ASSUME IInv, NEW t \in Threads, OnTask(t), NEW o \in Objs, Live(o), o # NextTask(t).obj
        PROVE  Live(o)' /\ out'[o] = out[o]
    <2> SUFFICES ASSUME NEW task, task = NextTask(t), o # task.obj
                 PROVE  Live(o)' /\ out'[o] = out[o]
      BY <1>1
    <2>1. ConnTypeOK /\ RestTypeOK /\ Gone /\ sid[o] # -1 /\ out \in [Objs -> Seq(Output)] /\ Fresh
      BY <1>1, LiveIs DEF IInv
    <2>2. ASSUME NEW p \in Objs, Live(p), p # o, CloseSession(p) PROVE Live(o)'
      <3>1. Kept(o)
        BY <2>1, <2>2, ClosingIs DEF CloseSession, Modes
      <3> QED BY <1>1, <3>1 DEF Kept
    <2>3. tasks[t] # <<>> /\ tasks' = [tasks EXCEPT ![t] = Tail(@)]
      BY <1>1 DEF OnTask
    <2>4. /\ task \in Tasks /\ (task.obj = None <=> task.type \in {"NONE", "CONNECT_TO"})
          /\ task.obj # None => sid[task.obj] = task.id
      BY <1>1, <2>3, TaskTaken
    <2>5. ForItsSession(task) /\ task.obj # None => task.obj \in Objs /\ Live(task.obj)
      BY <2>4 DEF ForItsSession, Tasks, Live
    <2>6. CASE UNCHANGED <<conns, out>>
      BY <1>1, <2>6 DEF conns, Live
    <2>7. CASE ForItsSession(task) /\ task.type = "SEND_TO" /\ SendMsg(task.obj, t, task.m)
      <3>1. CASE UNCHANGED conns /\ Sent(task.obj, <<Unit("head", t, task.m), Unit("body", t, task.m)>>)
        BY <1>1, <2>1, <3>1 DEF conns, Live, Sent
      <3>2. CASE CloseSession(task.obj)
        BY <2>1, <2>2, <2>4, <2>5, <2>7, <3>2 DEF SendMsg, Sent
      <3> QED BY <2>7, <3>1, <3>2 DEF SendMsg
    <2>8. CASE /\ ForItsSession(task) /\ task.type = "CLOSE_SESSION"
               /\ CloseSession(sessions[task.id]) /\ UNCHANGED <<out, pc>>
      <3>1. sessions[task.id] = task.obj
        BY <2>8 DEF ForItsSession
      <3> QED BY <2>2, <2>4, <2>5, <2>8, <3>1
    <2>9. ASSUME NEW p \in Objs, OnConnect(p) PROVE Live(o)' /\ out'[o] = out[o]
      <3>1. sid[p] = -1 /\ p # o
        BY <2>1, <2>9 DEF OnConnect, NewSession
      <3>2. PICK i \in Ids : /\ sessions[i] = None /\ sid' = [sid EXCEPT ![p] = i]
                             /\ sessions' = [sessions EXCEPT ![i] = p] \/ sessions' = sessions
        BY <2>9 DEF OnConnect, NewSession
      <3>3. sid[o] \in Ids /\ sid'[o] = sid[o] /\ sessions[sid[o]] = o /\ o # None
        BY <1>1, <2>1, <3>1, <3>2 DEF Live, ConnTypeOK, Objs, None
      <3>4. sessions'[sid[o]] = o
        BY <2>1, <3>2, <3>3 DEF ConnTypeOK
      <3>5. out' = [out EXCEPT ![p] = out[p] \o <<Unit("request", Loop, None)>>] \/ out' = out
        BY <2>9 DEF OnConnect, Sent
      <3> QED BY <2>1, <3>1, <3>3, <3>4, <3>5 DEF Live
    <2> QED BY <1>1, <2>6, <2>7, <2>8, <2>9 DEF OnTask
  <1>2. IInv => [OnlyItsSession]_vars
    BY <1>1 DEF OnlyItsSession
  <1>3. Spec => [][OnlyItsSession]_vars
    BY <1>2, Invariance, PTL DEF Spec
  <1> QED BY <1>3 DEF ActsOnItsSession, OnlyItsSession

=============================================================================
