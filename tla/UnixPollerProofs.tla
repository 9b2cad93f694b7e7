-------------------------- MODULE UnixPollerProofs --------------------------
(***************************************************************************)
(* What holds of the event-driven poller over each of the demultiplexers,  *)
(* for every length of the table and every limit of descriptors, bytes and *)
(* connections: Inv, and what the loop may close and when it may crash.    *)
(***************************************************************************)
EXTENDS UnixPoller, WellFoundedInduction, TLAPS

-----------------------------------------------------------------------------
(* The inductive invariant *)

(* A session is watched for reading, or known to be deaf. *)
Heard(i) == watch[SocketOf(i)].read # "off" \/ SocketOf(i) \in deaf

(* The table, the sockets and the registrations agree.  A socket that is not
   registered is watched for nothing; epoll and kqueue know the socket of
   every session that is not deaf; a listener that is not is watched for
   good; under select only session
   0 is watched once, the others' events being taken for its own; and only
   kqueue ever watches for room to send.                                  *)
Agree ==
  /\ TableOK
  /\ WatchesOwn
  /\ \A f \in Fds : ~watch[f].known => watch[f].read = "off" /\ watch[f].write = "off"
  /\ \A i \in Ids : Live(i) /\ Demux # "select" =>
       watch[SocketOf(i)].known \/ SocketOf(i) \in deaf
  /\ \A i \in Ids : sessions[i].kind = "listen" =>
       SocketOf(i) \in deaf \/ (watch[SocketOf(i)].read = "on" /\ watch[SocketOf(i)].write = "off")
  /\ \A f \in Fds : Demux = "select" /\ "once" \in {watch[f].read, watch[f].write} => watch[f].id = 0
  /\ \A f \in Fds : Demux # "kqueue" => watch[f].write = "off"

(* The batch is served before the loop polls again; its events, and the one
   being served, are as the demultiplexer reports them; onRecv never returns
   to a listener; and only kqueue's events lead to a failing send().      *)
BatchOK ==
  /\ pc = "idle" => batch = {}
  /\ Demux = "select" => id = 0 /\ \A e \in batch : e.id = 0
  /\ Demux # "kqueue" => ~wants /\ \A e \in batch : ~e.write
  /\ pc \in Serving => sessions[id].kind # "listen"
  /\ OnlyKqueueCrashes

IInv ==
  /\ TypeOK
  /\ Agree
  /\ BatchOK
  /\ NeverDeaf

-----------------------------------------------------------------------------
(* The demultiplexers *)

ThreeDemuxes == Demux \in {"epoll", "kqueue", "select"}

(* A socket that is added is watched for reading, under the id given. *)
LEMMA PollAddIs ==
  ASSUME ThreeDemuxes, NEW w \in Watches(Ids), ~w.known, w.write = "off", NEW i \in Ids
  PROVE  /\ PollAdd(w, i) \in Watches(Ids)
         /\ PollAdd(w, i).known /\ PollAdd(w, i).id = i
         /\ PollAdd(w, i).read = "on" /\ PollAdd(w, i).write = "off"
  <1> USE DEF PollAdd, Watches, Filter
  <1>1. CASE Demux = "epoll"
    BY <1>1 DEF EpollAdd
  <1>2. CASE Demux = "kqueue"
    BY <1>2 DEF KqueueAdd
  <1>3. CASE Demux = "select"
    BY <1>3 DEF SelectAdd
  <1> QED BY <1>1, <1>2, <1>3 DEF ThreeDemuxes

(* One that is modified is watched for reading once. *)
LEMMA PollModIs ==
  ASSUME ThreeDemuxes, NEW w \in Watches(Ids), Demux = "epoll" => w.known,
         NEW write \in BOOLEAN, NEW i \in Ids
  PROVE  /\ PollMod(w, write, i) \in Watches(Ids)
         /\ PollMod(w, write, i).known /\ PollMod(w, write, i).id = i
         /\ PollMod(w, write, i).read = "once"
         /\ Demux # "kqueue" /\ ~write => PollMod(w, write, i).write = "off"
  <1> USE DEF PollMod, Watches, Filter
  <1>1. CASE Demux = "epoll"
    BY <1>1 DEF EpollMod
  <1>2. CASE Demux = "kqueue"
    BY <1>2 DEF KqueueMod
  <1>3. CASE Demux = "select"
    BY <1>3 DEF SelectMod
  <1> QED BY <1>1, <1>2, <1>3 DEF ThreeDemuxes

(* What is reported of a socket is for the id it was registered under, or
   for 0 under select.                                                    *)
LEMMA ReportedIs ==
  ASSUME ThreeDemuxes, NEW f \in Fds, NEW w \in Watches(Ids),
         NEW readable \in BOOLEAN, NEW room \in BOOLEAN, NEW eof \in BOOLEAN, NEW kept \in BOOLEAN,
         NEW e \in Reported(f, w, readable, room, eof, kept)
  PROVE  /\ e \in Event
         /\ e.id = IF Demux = "select" THEN 0 ELSE w.id
         /\ Demux # "kqueue" /\ w.write = "off" => ~e.write
  <1>0. 0 \in Ids
    BY UnixAssumption DEF Ids
  <1>1. CASE Demux = "kqueue"
    BY <1>1 DEF Reported, Apart, Event, Watches, Filter
  <1>2. CASE Demux # "kqueue"
    <2> DEFINE r == w.read # "off" /\ readable
               u == w.write # "off" /\ room
               i == IF Demux = "select" THEN 0 ELSE w.id
    <2>1. e = [fd |-> f, id |-> i, filter |-> "both", read |-> r, write |-> u]
      BY <1>2 DEF Reported, Together
    <2>2. i \in Ids /\ r \in BOOLEAN /\ u \in BOOLEAN
      BY <1>0 DEF Watches
    <2> HIDE DEF i, r, u
    <2>3. e \in Event /\ e.id = i /\ e.write = u
      BY <2>1, <2>2 DEF Event
    <2> QED BY <1>2, <2>3 DEF i, u
  <1> QED BY <1>1, <1>2

(* A watch is switched off only by a report. *)
LEMMA OffIsReported ==
  ASSUME ThreeDemuxes, NEW f \in Fds, NEW w \in Watches(Ids),
         NEW readable \in BOOLEAN, NEW room \in BOOLEAN, NEW eof \in BOOLEAN, NEW kept \in BOOLEAN,
         w.read # "off", AfterReport(w, readable, room).read = "off"
  PROVE  /\ Reported(f, w, readable, room, eof, kept) # {}
         /\ Demux = "select" => "once" \in {w.read, w.write}
  <1>1. CASE Demux = "kqueue"
    BY <1>1 DEF Reported, Apart, AfterReport, Watches, Filter
  <1>2. CASE Demux # "kqueue"
    <2> DEFINE some == (w.read # "off" /\ readable) \/ (w.write # "off" /\ room)
    <2>1. some /\ (Demux = "select" => "once" \in {w.read, w.write})
      BY <1>2 DEF AfterReport
    <2>2. Reported(f, w, readable, room, eof, kept) # {}
      BY <1>2, <2>1 DEF Reported, Together
    <2> QED BY <2>1, <2>2
  <1> QED BY <1>1, <1>2

(* What remains of a watch after the report. *)
LEMMA AfterReportIs ==
  ASSUME ThreeDemuxes, NEW w \in Watches(Ids), NEW readable \in BOOLEAN, NEW room \in BOOLEAN,
         NEW a, a = AfterReport(w, readable, room)
  PROVE  /\ a \in Watches(Ids)
         /\ a.known => w.known /\ a.id = w.id
         /\ ~a.known => ~w.known \/ (a.read = "off" /\ a.write = "off")
         /\ Demux # "select" => (a.known <=> w.known)
         /\ w.read = "off" => a.read = "off"
         /\ w.write = "off" => a.write = "off"
         /\ w.read = "on" /\ w.write = "off" => a.read = "on"
         /\ "once" \in {a.read, a.write} => "once" \in {w.read, w.write} /\ a.id = w.id
  <1>0. 0 \in Ids
    BY UnixAssumption DEF Ids
  <1> DEFINE r == w.read # "off" /\ readable
             u == w.write # "off" /\ room
             once == "once" \in {w.read, w.write}
  <1> USE DEF AfterReport, Watches, Filter
  <1>1. CASE ~(r \/ u)
    <2>1. a = w
      BY <1>1
    <2> QED BY <2>1
  <1>2. CASE (r \/ u) /\ Demux = "epoll"
    BY <1>2
  <1>3. CASE (r \/ u) /\ Demux = "select"
    BY <1>0, <1>3 DEF Unwatched
  <1>4. CASE (r \/ u) /\ Demux = "kqueue"
    BY <1>4 DEF Spent
  <1> QED BY <1>1, <1>2, <1>3, <1>4 DEF ThreeDemuxes

-----------------------------------------------------------------------------
(* The session table *)

(* Min is the least element of a non-empty set of numbers. *)
LEMMA MinNat ==
  ASSUME NEW S, S \subseteq Nat, S # {}
  PROVE  Min(S) \in S
  <1>1. PICK x \in S : \A y \in S : ~(<<y, x>> \in OpToRel(<, Nat))
    BY WFMin, NatLessThanWellFounded
  <1>2. \A m, n \in Nat : <<m, n>> \in OpToRel(<, Nat) <=> m < n
    BY Zenon DEF OpToRel
  <1>3. \A y \in S : ~(y < x)
    BY <1>1, <1>2, Zenon
  <1>4. x \in S /\ \A y \in S : x <= y
    BY <1>3
  <1> QED BY <1>4 DEF Min

(* A new session has a free id and a free descriptor. *)
LEMMA NewIdFree ==
  ASSUME TypeOK, ~Full
  PROVE  NewId \in Ids /\ ~Live(NewId) /\ (NewId + 1) % MaxId \in Ids
  <1> DEFINE k == Min(FreeSteps)
  <1>1. k \in FreeSteps
    BY MinNat DEF Full, FreeSteps, Ids
  <1> HIDE DEF k
  <1>2. k \in Nat /\ curId \in Nat /\ ~Live((curId + k) % MaxId)
    BY <1>1 DEF FreeSteps, Ids, TypeOK
  <1>3. \A m \in Nat : m % MaxId \in Ids
    BY UnixAssumption DEF Ids
  <1>4. curId + k \in Nat
    BY <1>2
  <1>5. (curId + k) % MaxId \in Ids
    BY <1>3, <1>4
  <1>6. ((curId + k) % MaxId) + 1 \in Nat
    BY <1>5 DEF Ids
  <1> QED BY <1>2, <1>3, <1>5, <1>6 DEF NewId, k

(* The descriptor the kernel gives to a new session is no session's. *)
LEMMA NewFdFree ==
  ASSUME FreeFds # {}
  PROVE  NewFd \in Fds /\ NewFd \notin open
  BY MinNat, UnixAssumption DEF NewFd, FreeFds, Fds

(* A session is the same after a step, or gone. *)
Kept(j) ==
  /\ sessions'[j].fd = sessions[j].fd
  /\ sessions'[j].kind = sessions[j].kind
  /\ Live(j)' <=> Live(j)

(* Nothing is registered anew for a session, nor does it turn deaf. *)
WatchedAsBefore(j) ==
  /\ watch'[SocketOf(j)] = watch[SocketOf(j)]
  /\ SocketOf(j) \in deaf' <=> SocketOf(j) \in deaf

Kinds == {"listen", "accept", "connect"}

(* Sessions are live by their kind, and sockets of live ones are descriptors. *)
LEMMA SessionIs ==
  ASSUME TypeOK, NEW i \in Ids
  PROVE  /\ Live(i) <=> sessions[i].kind \in Kinds
         /\ Live(i) => sessions[i].fd \in Fds /\ sessions[i].wsize \in 0..MaxW
  <1>1. sessions[i] \in Session
    BY DEF TypeOK
  <1> QED BY <1>1 DEF Session, Empty, Live, Kinds

(* initNewSession and the read posted at once: the id and the descriptor were
   free, so nothing was registered for them and nothing else is touched.    *)
LEMMA OpenStep ==
  ASSUME TypeOK, Agree, NEW kind \in Kinds, FreeFds # {},
         InitNewSession(kind), PostRecv(kind), UNCHANGED <<Demux, lost>>,
         NEW n, n = NewId
  PROVE  /\ sessions' \in [Ids -> Session] /\ curId' \in Ids /\ open' \subseteq Fds
         /\ watch' \in [Fds -> Watches(Ids)] /\ deaf' \subseteq Fds
         /\ Agree'
         /\ n \in Ids /\ Heard(n)'
         /\ \A j \in Ids \ {n} : Kept(j)
         /\ \A j \in Ids \ {n} : Live(j) => WatchedAsBefore(j)
  <1>0. n \in Ids /\ ~Live(n) /\ (n + 1) % MaxId \in Ids /\ NewFd \in Fds /\ NewFd \notin open
    BY NewIdFree, NewFdFree DEF InitNewSession
  <1> SUFFICES ASSUME NEW g \in Fds, g = NewFd, g \notin open
               PROVE  /\ sessions' \in [Ids -> Session] /\ curId' \in Ids /\ open' \subseteq Fds
                      /\ watch' \in [Fds -> Watches(Ids)] /\ deaf' \subseteq Fds
                      /\ Agree'
                      /\ Heard(n)'
                      /\ \A j \in Ids \ {n} : Kept(j)
                      /\ \A j \in Ids \ {n} : Live(j) => WatchedAsBefore(j)
    BY <1>0
  <1>1. /\ sessions' = [sessions EXCEPT ![n] = [fd |-> g, kind |-> kind, wsize |-> 0]]
        /\ curId' = (n + 1) % MaxId /\ open' = open \cup {g}
        /\ \/ watch' = [watch EXCEPT ![g] = PollAdd(@, n)] /\ deaf' = deaf
           \/ watch' = watch /\ deaf' = deaf \cup {g}
    BY DEF InitNewSession, PostRecv
  <1>2. /\ sessions \in [Ids -> Session] /\ open \subseteq Fds /\ lost \subseteq Fds /\ deaf \subseteq Fds
        /\ watch \in [Fds -> Watches(Ids)] /\ ThreeDemuxes
    BY DemuxAssumption DEF TypeOK, ThreeDemuxes
  <1>3. \A j \in Ids : Live(j) => SocketOf(j) \in open /\ SocketOf(j) # g /\ SocketOf(j) \in Fds
    BY <1>2 DEF Agree, TableOK
  <1>4. ~watch[g].known /\ watch[g].read = "off" /\ watch[g].write = "off"
    BY <1>2, <1>3 DEF Agree, WatchesOwn, Watches
  <1>5. /\ watch'[g] \in Watches(Ids) /\ watch'[g].write = "off"
        /\ \/ watch'[g].known /\ watch'[g].id = n /\ watch'[g].read = "on"
           \/ ~watch'[g].known /\ watch'[g].read = "off" /\ g \in deaf'
    <2>1. CASE watch' = [watch EXCEPT ![g] = PollAdd(@, n)]
      BY <1>0, <1>2, <1>4, <2>1, PollAddIs
    <2>2. CASE watch' = watch /\ deaf' = deaf \cup {g}
      BY <1>2, <1>4, <2>2
    <2> QED BY <1>1, <2>1, <2>2
  <1>6. /\ \A f \in Fds \ {g} : watch'[f] = watch[f] /\ (f \in deaf' <=> f \in deaf)
        /\ deaf' \subseteq Fds
    BY <1>1, <1>2
  <1>7. watch' \in [Fds -> Watches(Ids)]
    <2>1. CASE watch' = [watch EXCEPT ![g] = PollAdd(@, n)]
      BY <1>2, <1>5, <2>1
    <2> QED BY <1>1, <1>2, <2>1
  <1>8. [fd |-> g, kind |-> kind, wsize |-> 0] \in Session /\ [fd |-> g, kind |-> kind, wsize |-> 0] # Empty
    BY UnixAssumption DEF Session, Empty, Kinds
  <1>9. sessions' \in [Ids -> Session] /\ curId' \in Ids /\ open' \subseteq Fds
    BY <1>0, <1>1, <1>2, <1>8
  <1>10. sessions'[n].fd = g /\ sessions'[n].kind = kind /\ Live(n)'
         /\ \A j \in Ids \ {n} : sessions'[j] = sessions[j]
    BY <1>0, <1>1, <1>2, <1>8 DEF Live, Empty
  <1>11. \A j \in Ids \ {n} : Kept(j)
    BY <1>10 DEF Kept, Live, Empty
  <1>12. TableOK'
    <2>1. \A i \in Ids : Live(i)' => SocketOf(i)' \in open'
      BY <1>1, <1>3, <1>10, <1>11 DEF SocketOf, Kept
    <2>2. \A i, j \in Ids : Live(i)' /\ Live(j)' /\ SocketOf(i)' = SocketOf(j)' => i = j
      BY <1>3, <1>10, <1>11 DEF SocketOf, Kept, Agree, TableOK
    <2>3. \A f : f \in open' <=> f \in lost' \/ \E i \in Ids : Live(i)' /\ SocketOf(i)' = f
      <3>1. \A f : f \in open <=> f \in lost \/ \E i \in Ids : Live(i) /\ SocketOf(i) = f
        BY DEF Agree, TableOK
      <3>2. SocketOf(n)' = g /\ Live(n)' /\ \A j \in Ids \ {n} : SocketOf(j)' = SocketOf(j) /\ (Live(j)' <=> Live(j))
        BY <1>10, <1>11 DEF SocketOf, Kept
      <3>3. ASSUME NEW f PROVE f \in open' <=> f \in open \/ f = g
        BY <1>1
      <3>4. ASSUME NEW f
            PROVE  (\E i \in Ids : Live(i)' /\ SocketOf(i)' = f)
                     <=> f = g \/ \E i \in Ids : Live(i) /\ SocketOf(i) = f
        BY <1>0, <3>2
      <3> QED BY <3>1, <3>3, <3>4
    <2>4. \A i \in Ids : Live(i)' => SocketOf(i)' \notin lost'
      BY <1>10, <1>11 DEF SocketOf, Kept, Agree, TableOK
    <2> QED BY <2>1, <2>2, <2>3, <2>4 DEF TableOK
  <1>13. WatchesOwn'
    <2> SUFFICES ASSUME NEW f \in Fds, watch'[f].known
                 PROVE  Live(watch[f].id)' /\ SocketOf(watch[f].id)' = f
      BY DEF WatchesOwn
    <2>1. CASE f = g
      BY <1>5, <1>10, <2>1 DEF SocketOf
    <2>2. CASE f # g
      <3>1. watch'[f] = watch[f] /\ watch[f].id \in Ids
        BY <1>2, <1>6, <2>2 DEF Watches
      <3>2. Live(watch[f].id) /\ SocketOf(watch[f].id) = f
        BY <3>1 DEF Agree, WatchesOwn
      <3> QED BY <1>0, <1>11, <3>1, <3>2 DEF Kept, SocketOf
    <2> QED BY <2>1, <2>2
  <1>14. /\ \A f \in Fds : ~watch'[f].known => watch'[f].read = "off" /\ watch'[f].write = "off"
         /\ \A f \in Fds : Demux' = "select" /\ "once" \in {watch'[f].read, watch'[f].write} => watch'[f].id = 0
         /\ \A f \in Fds : Demux' # "kqueue" => watch'[f].write = "off"
    BY <1>5, <1>6 DEF Agree
  <1>15. \A i \in Ids : Live(i)' /\ Demux' # "select" => watch'[SocketOf(i)'].known \/ SocketOf(i)' \in deaf'
    BY <1>3, <1>5, <1>6, <1>10, <1>11 DEF Agree, SocketOf, Kept
  <1>16. \A i \in Ids : sessions'[i].kind = "listen" =>
           SocketOf(i)' \in deaf' \/ (watch'[SocketOf(i)'].read = "on" /\ watch'[SocketOf(i)'].write = "off")
    BY <1>3, <1>5, <1>6, <1>10, SessionIs DEF Agree, SocketOf, Kinds
  <1>17. Agree'
    BY <1>12, <1>13, <1>14, <1>15, <1>16 DEF Agree
  <1> QED BY <1>3, <1>5, <1>6, <1>7, <1>9, <1>10, <1>11, <1>17 DEF Heard, SocketOf, WatchedAsBefore

(* closeSession: the socket was of no other session, and is forgotten. *)
LEMMA CloseStep ==
  ASSUME TypeOK, Agree, NEW i \in Ids, Live(i), CloseSession(i), UNCHANGED Demux
  PROVE  /\ sessions' \in [Ids -> Session] /\ curId' \in Ids
         /\ open' \subseteq Fds /\ lost' \subseteq Fds /\ listening' \subseteq Fds
         /\ peer' \in [Fds -> {"up", "fin", "rst"}] /\ rx' \in [Fds -> Nat]
         /\ watch' \in [Fds -> Watches(Ids)] /\ deaf' \subseteq Fds
         /\ Agree'
         /\ ~Live(i)'
         /\ \A j \in Ids \ {i} : Kept(j)
         /\ \A j \in Ids \ {i} : Live(j) => WatchedAsBefore(j)
  <1> SUFFICES ASSUME NEW g \in Fds, g = SocketOf(i)
               PROVE  /\ sessions' \in [Ids -> Session] /\ curId' \in Ids
                      /\ open' \subseteq Fds /\ lost' \subseteq Fds /\ listening' \subseteq Fds
                      /\ peer' \in [Fds -> {"up", "fin", "rst"}] /\ rx' \in [Fds -> Nat]
                      /\ watch' \in [Fds -> Watches(Ids)] /\ deaf' \subseteq Fds
                      /\ Agree'
                      /\ ~Live(i)'
                      /\ \A j \in Ids \ {i} : Kept(j)
                      /\ \A j \in Ids \ {i} : Live(j) => WatchedAsBefore(j)
    BY SessionIs DEF SocketOf
  <1>1. /\ sessions' = [sessions EXCEPT ![i] = Empty] /\ open' = open \ {g}
        /\ listening' = listening \ {g} /\ rx' = [rx EXCEPT ![g] = 0]
        /\ peer' = [peer EXCEPT ![g] = "up"] /\ watch' = [watch EXCEPT ![g] = Unwatched]
        /\ deaf' = deaf \ {g} /\ UNCHANGED <<curId, lost>>
    BY DEF CloseSession, SocketOf
  <1>2. /\ sessions \in [Ids -> Session] /\ curId \in Ids /\ open \subseteq Fds /\ lost \subseteq Fds
        /\ listening \subseteq Fds /\ peer \in [Fds -> {"up", "fin", "rst"}] /\ rx \in [Fds -> Nat]
        /\ watch \in [Fds -> Watches(Ids)] /\ deaf \subseteq Fds
    BY DEF TypeOK
  <1>3. 0 \in Ids /\ Unwatched \in Watches(Ids) /\ Empty \in Session
    BY UnixAssumption DEF Ids, Unwatched, Watches, Filter, Session
  <1>4. /\ sessions' \in [Ids -> Session] /\ curId' \in Ids
        /\ open' \subseteq Fds /\ lost' \subseteq Fds /\ listening' \subseteq Fds
        /\ peer' \in [Fds -> {"up", "fin", "rst"}] /\ rx' \in [Fds -> Nat]
        /\ watch' \in [Fds -> Watches(Ids)] /\ deaf' \subseteq Fds
    BY <1>1, <1>2, <1>3
  <1>5. ~Live(i)' /\ \A j \in Ids \ {i} : sessions'[j] = sessions[j] /\ Kept(j)
    BY <1>1, <1>2 DEF Live, Empty, Kept
  <1>6. \A j \in Ids \ {i} : Live(j) => SocketOf(j) # g
    BY DEF Agree, TableOK
  <1>7. watch'[g] = Unwatched /\ \A f \in Fds \ {g} : watch'[f] = watch[f]
    BY <1>1, <1>2
  <1>8. \A j \in Ids \ {i} : Live(j) => WatchedAsBefore(j)
    BY <1>1, <1>6, <1>7, SessionIs DEF SocketOf, WatchedAsBefore
  <1>9. TableOK'
    <2>1. \A j \in Ids : Live(j)' => Live(j) /\ SocketOf(j)' = SocketOf(j) /\ j # i
      BY <1>5 DEF Kept, SocketOf
    <2>2. \A j \in Ids : Live(j)' => SocketOf(j)' \in open'
      BY <1>1, <1>6, <2>1 DEF Agree, TableOK
    <2>3. \A j, k \in Ids : Live(j)' /\ Live(k)' /\ SocketOf(j)' = SocketOf(k)' => j = k
      BY <2>1 DEF Agree, TableOK
    <2>4. \A f : f \in open' <=> f \in lost' \/ \E j \in Ids : Live(j)' /\ SocketOf(j)' = f
      <3>1. \A f : f \in open <=> f \in lost \/ \E j \in Ids : Live(j) /\ SocketOf(j) = f
        BY DEF Agree, TableOK
      <3>2. g \notin lost
        BY DEF Agree, TableOK
      <3>3. ASSUME NEW f
            PROVE  (\E j \in Ids : Live(j)' /\ SocketOf(j)' = f)
                     <=> f # g /\ \E j \in Ids : Live(j) /\ SocketOf(j) = f
        BY <1>5, <1>6, <2>1 DEF Kept, SocketOf
      <3> QED BY <1>1, <3>1, <3>2, <3>3
    <2>5. \A j \in Ids : Live(j)' => SocketOf(j)' \notin lost'
      BY <1>1, <2>1 DEF Agree, TableOK
    <2> QED BY <2>2, <2>3, <2>4, <2>5 DEF TableOK
  <1>10. WatchesOwn'
    <2> SUFFICES ASSUME NEW f \in Fds, watch'[f].known
                 PROVE  Live(watch[f].id)' /\ SocketOf(watch[f].id)' = f
      BY DEF WatchesOwn
    <2>1. f # g
      BY <1>7 DEF Unwatched
    <2>2. watch'[f] = watch[f] /\ watch[f].id \in Ids
      BY <1>2, <1>7, <2>1 DEF Watches
    <2>3. Live(watch[f].id) /\ SocketOf(watch[f].id) = f
      BY <2>2 DEF Agree, WatchesOwn
    <2>4. watch[f].id # i
      BY <2>1, <2>3
    <2> QED BY <1>5, <2>2, <2>3, <2>4 DEF Kept, SocketOf
  <1>11. /\ \A f \in Fds : ~watch'[f].known => watch'[f].read = "off" /\ watch'[f].write = "off"
         /\ \A f \in Fds : Demux' = "select" /\ "once" \in {watch'[f].read, watch'[f].write} => watch'[f].id = 0
         /\ \A f \in Fds : Demux' # "kqueue" => watch'[f].write = "off"
    BY <1>7 DEF Agree, Unwatched
  <1>12. \A j \in Ids : Live(j)' /\ Demux' # "select" => watch'[SocketOf(j)'].known \/ SocketOf(j)' \in deaf'
    BY <1>5, <1>8 DEF Agree, SocketOf, Kept, WatchedAsBefore
  <1>13. \A j \in Ids : sessions'[j].kind = "listen" =>
           SocketOf(j)' \in deaf' \/ (watch'[SocketOf(j)'].read = "on" /\ watch'[SocketOf(j)'].write = "off")
    <2> SUFFICES ASSUME NEW j \in Ids, sessions'[j].kind = "listen"
                 PROVE  \/ SocketOf(j)' \in deaf'
                        \/ watch'[SocketOf(j)'].read = "on" /\ watch'[SocketOf(j)'].write = "off"
      OBVIOUS
    <2>1. j # i
      BY <1>1, <1>2 DEF Empty
    <2>2. sessions'[j] = sessions[j] /\ Live(j)
      BY <1>5, <2>1, SessionIs DEF Kinds
    <2> QED BY <1>8, <2>1, <2>2 DEF Agree, SocketOf, WatchedAsBefore
  <1> QED BY <1>4, <1>5, <1>8, <1>9, <1>10, <1>11, <1>12, <1>13 DEF Agree

(* A step that keeps the sockets of all sessions keeps the table in order. *)
LEMMA TableKept ==
  ASSUME TableOK, \A j \in Ids : Kept(j), UNCHANGED <<open, lost>>
  PROVE  TableOK'
  <1>1. \A j \in Ids : (Live(j)' <=> Live(j)) /\ SocketOf(j)' = SocketOf(j)
    BY DEF Kept, SocketOf
  <1>2. {SocketOf(j) : j \in {k \in Ids : Live(k)}}' = {SocketOf(j) : j \in {k \in Ids : Live(k)}}
    BY <1>1
  <1> QED BY <1>1, <1>2 DEF TableOK

(* Nothing is registered anew. *)
LEMMA WatchKept ==
  ASSUME TypeOK, Agree, \A j \in Ids : Kept(j), UNCHANGED <<open, lost, deaf, watch, Demux>>
  PROVE  Agree'
  <1>1. TableOK'
    BY TableKept DEF Agree
  <1>2. WatchesOwn'
    BY DEF Agree, WatchesOwn, Kept, SocketOf, TypeOK, Watches
  <1> QED BY <1>1, <1>2 DEF Agree, Kept, SocketOf

(* pollMod on the socket of a connection. *)
LEMMA ModStep ==
  ASSUME TypeOK, Agree, NEW i \in Ids, Live(i), sessions[i].kind # "listen",
         NEW write \in BOOLEAN, Demux = "select" => i = 0, Demux # "kqueue" => ~write,
         watch' = [watch EXCEPT ![sessions[i].fd] = PollMod(@, write, i)],
         \A j \in Ids : Kept(j), UNCHANGED <<open, lost, deaf, Demux>>
  PROVE  /\ watch' \in [Fds -> Watches(Ids)]
         /\ Agree'
         /\ Heard(i)'
         /\ \A j \in Ids \ {i} : Live(j) => WatchedAsBefore(j)
  <1> SUFFICES ASSUME NEW g \in Fds, g = SocketOf(i)
               PROVE  /\ watch' \in [Fds -> Watches(Ids)]
                      /\ Agree'
                      /\ Heard(i)'
                      /\ \A j \in Ids \ {i} : Live(j) => WatchedAsBefore(j)
    BY SessionIs DEF SocketOf
  <1>1. watch \in [Fds -> Watches(Ids)] /\ ThreeDemuxes
    BY DemuxAssumption DEF TypeOK, ThreeDemuxes
  <1>14. CASE Demux = "epoll" /\ ~watch[g].known
    <2>1. PollMod(watch[g], write, i) = watch[g] /\ g \in deaf
      BY <1>14 DEF PollMod, EpollMod, Agree
    <2>2. watch' = watch
      BY <1>1, <2>1 DEF SocketOf
    <2>3. Agree'
      BY <2>2, WatchKept
    <2>4. \A j \in Ids : SocketOf(j)' = SocketOf(j)
      BY DEF Kept, SocketOf
    <2> QED BY <1>1, <2>1, <2>2, <2>3, <2>4 DEF Heard, WatchedAsBefore
  <1> SUFFICES ASSUME Demux = "epoll" => watch[g].known
               PROVE  /\ watch' \in [Fds -> Watches(Ids)]
                      /\ Agree'
                      /\ Heard(i)'
                      /\ \A j \in Ids \ {i} : Live(j) => WatchedAsBefore(j)
    BY <1>14
  <1>3. /\ watch'[g] \in Watches(Ids) /\ watch'[g].known /\ watch'[g].id = i
        /\ watch'[g].read = "once" /\ (Demux # "kqueue" => watch'[g].write = "off")
    BY <1>1, PollModIs DEF SocketOf
  <1>4. watch' \in [Fds -> Watches(Ids)] /\ \A f \in Fds \ {g} : watch'[f] = watch[f]
    BY <1>1, <1>3 DEF SocketOf
  <1>5. \A j \in Ids \ {i} : Live(j) => SocketOf(j) # g /\ SocketOf(j) \in Fds
    BY SessionIs DEF Agree, TableOK, SocketOf
  <1>6. \A j \in Ids : (Live(j)' <=> Live(j)) /\ SocketOf(j)' = SocketOf(j)
    BY DEF Kept, SocketOf
  <1>7. TableOK'
    BY TableKept DEF Agree
  <1>8. WatchesOwn'
    <2> SUFFICES ASSUME NEW f \in Fds, watch'[f].known
                 PROVE  Live(watch[f].id)' /\ SocketOf(watch[f].id)' = f
      BY DEF WatchesOwn
    <2>1. CASE f = g
      BY <1>3, <1>6, <2>1
    <2>2. CASE f # g
      <3>1. watch'[f] = watch[f] /\ watch[f].id \in Ids
        BY <1>1, <1>4, <2>2 DEF Watches
      <3>2. Live(watch[f].id) /\ SocketOf(watch[f].id) = f
        BY <3>1 DEF Agree, WatchesOwn
      <3> QED BY <1>6, <3>1, <3>2
    <2> QED BY <2>1, <2>2
  <1>9. /\ \A f \in Fds : ~watch'[f].known => watch'[f].read = "off" /\ watch'[f].write = "off"
        /\ \A f \in Fds : Demux' = "select" /\ "once" \in {watch'[f].read, watch'[f].write} => watch'[f].id = 0
        /\ \A f \in Fds : Demux' # "kqueue" => watch'[f].write = "off"
    BY <1>3, <1>4 DEF Agree
  <1>10. \A j \in Ids : Live(j)' /\ Demux' # "select" => watch'[SocketOf(j)'].known \/ SocketOf(j)' \in deaf'
    BY <1>3, <1>4, <1>5, <1>6 DEF Agree
  <1>11. \A j \in Ids : sessions'[j].kind = "listen" =>
           SocketOf(j)' \in deaf' \/ (watch'[SocketOf(j)'].read = "on" /\ watch'[SocketOf(j)'].write = "off")
    <2> SUFFICES ASSUME NEW j \in Ids, sessions'[j].kind = "listen"
                 PROVE  \/ SocketOf(j)' \in deaf'
                        \/ watch'[SocketOf(j)'].read = "on" /\ watch'[SocketOf(j)'].write = "off"
      OBVIOUS
    <2>1. sessions[j].kind = "listen" /\ j # i /\ Live(j)
      BY SessionIs DEF Kept, Kinds
    <2> QED BY <1>4, <1>5, <1>6, <2>1 DEF Agree
  <1>12. Heard(i)'
    BY <1>3, <1>6 DEF Heard
  <1>13. \A j \in Ids \ {i} : Live(j) => WatchedAsBefore(j)
    BY <1>4, <1>5 DEF WatchedAsBefore
  <1> QED BY <1>4, <1>7, <1>8, <1>9, <1>10, <1>11, <1>12, <1>13 DEF Agree

-----------------------------------------------------------------------------
(* The parts of the invariant *)

StateTypeOK ==
  /\ sessions \in [Ids -> Session] /\ curId \in Ids
  /\ open \subseteq Fds /\ lost \subseteq Fds /\ deaf \subseteq Fds /\ listening \subseteq Fds
  /\ peer \in [Fds -> {"up", "fin", "rst"}] /\ rx \in [Fds -> Nat]
  /\ watch \in [Fds -> Watches(Ids)]

LoopTypeOK ==
  /\ Demux \in Demuxes /\ batch \subseteq Event
  /\ pc \in UserPc \cup {"loop", "read", "accept", "crashed"}
  /\ id \in Ids /\ wants \in BOOLEAN /\ sock \in Fds \cup {0}

(* The type invariant in two parts. *)
LEMMA TypeParts == TypeOK <=> StateTypeOK /\ LoopTypeOK
  BY DEF TypeOK, StateTypeOK, LoopTypeOK

(* The loop has the session in sight. *)
Seen(i) ==
  \/ Heard(i)
  \/ \E e \in batch : e.id = i
  \/ pc \in Serving /\ id = i

(* No session is deaf if and only if the loop has each in sight. *)
LEMMA SeenIs == NeverDeaf <=> \A i \in Ids : Live(i) /\ pc # "crashed" => Seen(i)
  BY DEF NeverDeaf, Seen, Heard

(* The sockets of the other sessions stay watched as they are. *)
Others(i) ==
  \A j \in Ids \ {i} : Kept(j) /\ (Live(j) => WatchedAsBefore(j))

(* A session no step touches is heard of as before. *)
LEMMA OthersHeard ==
  ASSUME NEW i, Others(i), NEW j \in Ids \ {i}, Live(j)'
  PROVE  Live(j) /\ (Heard(j)' <=> Heard(j))
  BY DEF Others, Kept, Heard, SocketOf, WatchedAsBefore

(* postSend and pollMod after a read or write event: the session is heard of
   again; or send() found the connection reset and the loop crashes.       *)
LEMMA FinishStep ==
  ASSUME TypeOK, Agree, NEW i \in Ids, Live(i), sessions[i].kind # "listen",
         NEW write \in BOOLEAN, Demux = "select" => i = 0, Demux # "kqueue" => ~write,
         Finish(i, write), UNCHANGED Demux
  PROVE  /\ StateTypeOK' /\ Agree'
         /\ \/ pc' = "loop" /\ (Live(i)' <=> Live(i)) /\ Heard(i)' /\ Others(i)
            \/ pc' = "crashed" /\ SendFails(SocketOf(i)) /\ write /\ Others(i)
  <1> DEFINE f == sessions[i].fd
             Good == /\ StateTypeOK' /\ Agree'
                     /\ pc' = "loop" /\ (Live(i)' <=> Live(i)) /\ Heard(i)' /\ Others(i)
  <1>1. StateTypeOK
    BY TypeParts
  <1>2. ASSUME NEW w \in BOOLEAN, Demux # "kqueue" => ~w,
               pc' = "loop", watch' = [watch EXCEPT ![f] = PollMod(@, w, i)],
               sessions' \in [Ids -> Session], \A j \in Ids : Kept(j),
               UNCHANGED <<curId, kernel>>
        PROVE  Good
    <2>1. UNCHANGED <<curId, open, lost, deaf, listening, peer, rx>>
      BY <1>2 DEF kernel
    <2>2. /\ watch' \in [Fds -> Watches(Ids)]
          /\ Agree' /\ Heard(i)'
          /\ \A j \in Ids \ {i} : Live(j) => WatchedAsBefore(j)
      BY <1>2, <2>1, ModStep
    <2>3. StateTypeOK'
      BY <1>1, <1>2, <2>1, <2>2 DEF StateTypeOK
    <2> QED BY <1>2, <2>2, <2>3 DEF Others, Kept
  <1>3. CASE /\ ~write \/ sessions[i].wsize = 0
             /\ pc' = "loop"
             /\ watch' = [watch EXCEPT ![f] = PollMod(@, FALSE, i)]
             /\ UNCHANGED <<table, kernel>>
    <2>1. \A j \in Ids : Kept(j)
      BY <1>3 DEF table, Kept, Live, Empty
    <2>2. sessions' \in [Ids -> Session] /\ UNCHANGED <<curId, kernel>>
      BY <1>1, <1>3 DEF table, StateTypeOK
    <2>3. Good
      BY <1>2, <1>3, <2>1, <2>2
    <2> QED BY <2>3
  <1>4. CASE /\ write /\ sessions[i].wsize > 0 /\ peer[f] # "rst"
             /\ pc' = "loop"
             /\ \E left \in Left(f, sessions[i].wsize) :
                  /\ sessions' = [sessions EXCEPT ![i].wsize = left]
                  /\ watch' = [watch EXCEPT ![f] = PollMod(@, left > 0, i)]
             /\ UNCHANGED <<curId, kernel>>
    <2>1. PICK left \in 0..sessions[i].wsize :
             /\ sessions' = [sessions EXCEPT ![i].wsize = left]
             /\ watch' = [watch EXCEPT ![f] = PollMod(@, left > 0, i)]
      BY <1>4 DEF Left
    <2>2. sessions[i] \in Session /\ sessions[i].wsize \in 0..MaxW
      BY <1>1, SessionIs DEF StateTypeOK
    <2>3. left \in 0..MaxW
      BY <2>1, <2>2, UnixAssumption
    <2>4. [sessions[i] EXCEPT !.wsize = left] \in Session
      BY <2>2, <2>3 DEF Session, Live, Empty
    <2>5. sessions' \in [Ids -> Session]
      BY <1>1, <2>1, <2>4 DEF StateTypeOK
    <2>6. \A j \in Ids : Kept(j)
      <3>1. \A j \in Ids \ {i} : sessions'[j] = sessions[j]
        BY <1>1, <2>1 DEF StateTypeOK
      <3>2. sessions'[i] = [sessions[i] EXCEPT !.wsize = left]
        BY <1>1, <2>1 DEF StateTypeOK
      <3>3. sessions'[i].fd = sessions[i].fd /\ sessions'[i].kind = sessions[i].kind
        BY <2>2, <3>2 DEF Session, Empty
      <3>4. Live(i)'
        BY <2>2, <3>3, SessionIs DEF Live, Empty, Kinds
      <3> QED BY <3>1, <3>3, <3>4 DEF Kept, Live, Empty
    <2>7. (left > 0) \in BOOLEAN /\ Demux = "kqueue"
      BY <1>4
    <2>8. Good
      BY <1>2, <1>4, <2>1, <2>5, <2>6, <2>7
    <2> QED BY <2>8
  <1>5. CASE /\ write /\ sessions[i].wsize > 0 /\ SendFails(f)
             /\ pc' = "crashed"
             /\ CloseSession(i)
    BY <1>5, CloseStep DEF StateTypeOK, Others, SocketOf
  <1> QED BY <1>3, <1>4, <1>5 DEF Finish

-----------------------------------------------------------------------------
(* The steps *)

(* While the batch waits, the sessions other than i stay in sight. *)
LEMMA StillSeen ==
  ASSUME NeverDeaf, NEW i \in Ids, Others(i), UNCHANGED <<batch, id>>, pc # "crashed",
         pc' = pc \/ pc \notin Serving, Live(i)' /\ pc' # "crashed" => Seen(i)'
  PROVE  NeverDeaf'
  <1> SUFFICES ASSUME NEW j \in Ids, Live(j)', pc' # "crashed" PROVE Seen(j)'
    BY DEF NeverDeaf, Seen, Heard
  <1>1. CASE j = i
    BY <1>1
  <1>2. CASE j # i
    <2>1. Live(j) /\ (Heard(j)' <=> Heard(j))
      BY <1>2, OthersHeard
    <2> QED BY <2>1, SeenIs DEF Seen
  <1> QED BY <1>1, <1>2

(* A step that touches no session and no registration, and does not end a
   callback: what peers do, the ends of loopOnce and of the accept loop.   *)
LEMMA QuietStep ==
  ASSUME IInv, UNCHANGED <<table, open, lost, deaf, listening, watch, batch, Demux, id, wants>>,
         peer' \in [Fds -> {"up", "fin", "rst"}], rx' \in [Fds -> Nat],
         pc' \in UserPc \cup {"loop", "read", "accept", "crashed"}, sock' \in Fds \cup {0},
         pc' = pc \/ (pc \notin Serving \cup {"crashed"} /\ pc' \notin Serving \cup {"crashed"}),
         pc' = "idle" => batch = {}
  PROVE  IInv'
  <1>1. UNCHANGED <<sessions, curId>>
    BY DEF table
  <1>2. TypeOK'
    BY <1>1 DEF IInv, TypeOK
  <1>3. \A j \in Ids : Kept(j)
    BY <1>1 DEF Kept, Live, Empty
  <1>4. Agree'
    BY <1>3, WatchKept DEF IInv
  <1>5. BatchOK'
    BY <1>1 DEF IInv, BatchOK, OnlyKqueueCrashes
  <1>6. NeverDeaf'
    BY <1>1 DEF IInv, NeverDeaf, Live, Empty, SocketOf
  <1> QED BY <1>2, <1>4, <1>5, <1>6 DEF IInv

(* Bytes arrive, and peers close and reset. *)
LEMMA PeersStep ==
  ASSUME IInv, NEW f \in Fds, Arrives(f) \/ PeerCloses(f) \/ PeerResets(f)
  PROVE  IInv'
  <1>1. peer \in [Fds -> {"up", "fin", "rst"}] /\ rx \in [Fds -> Nat] /\ sock \in Fds \cup {0}
        /\ pc \in UserPc \cup {"loop", "read", "accept", "crashed"} /\ (pc = "idle" => batch = {})
    BY DEF IInv, TypeOK, BatchOK
  <1>2. UNCHANGED <<table, open, lost, deaf, listening, watch, batch, Demux, id, wants, sock, pc>>
    BY DEF Arrives, PeerCloses, PeerResets, event
  <1>3. peer' \in [Fds -> {"up", "fin", "rst"}] /\ rx' \in [Fds -> Nat]
    BY <1>1 DEF Arrives, PeerCloses, PeerResets
  <1> QED BY <1>1, <1>2, <1>3, QuietStep

(* The ends of loopOnce and of the accept loop, and of onAccept. *)
LEMMA LoopEndsStep ==
  ASSUME IInv, LoopDone \/ AfterAccept \/ AcceptFails
  PROVE  IInv'
  <1>1. /\ UNCHANGED <<table, open, lost, deaf, listening, peer, rx, watch, batch, Demux, id, wants>>
        /\ pc \notin Serving \cup {"crashed"} /\ pc' \in {"idle", "loop", "accept"}
        /\ (pc' = "idle" => batch = {}) /\ sock' \in {sock, 0}
    BY DEF LoopDone, AfterAccept, AcceptFails, kernel, event, Serving
  <1>2. peer \in [Fds -> {"up", "fin", "rst"}] /\ rx \in [Fds -> Nat] /\ sock \in Fds \cup {0}
    BY DEF IInv, TypeOK
  <1> QED BY <1>1, <1>2, QuietStep DEF UserPc, Serving

(* pollGetEvents: all were watched, and what is switched off is reported. *)
LEMMA PollGetEventsStep ==
  ASSUME IInv, PollGetEvents
  PROVE  IInv'
  <1>1. PICK rooms \in SUBSET {f \in Fds : watch[f].write # "off"}, kept \in BOOLEAN :
          /\ batch' = UNION {Reported(f, watch[f], Readable(f), f \in rooms, peer[f] # "up", kept) :
                               f \in Fds}
          /\ watch' = [f \in Fds |-> AfterReport(watch[f], Readable(f), f \in rooms)]
    BY DEF PollGetEvents
  <1> DEFINE Polled(f, r, u, c) ==
               /\ \A e : e \in Reported(f, watch[f], r, u, c, kept) => e \in batch'
               /\ watch'[f] = AfterReport(watch[f], r, u)
             From(e, f, r, u, c) == e \in Reported(f, watch[f], r, u, c, kept)
  <1>0. ASSUME NEW f \in Fds PROVE \E r, u, c \in BOOLEAN : Polled(f, r, u, c)
    <2>1. Polled(f, Readable(f), f \in rooms, peer[f] # "up")
      BY <1>1
    <2> USE DEF Readable
    <2> WITNESS Readable(f) \in BOOLEAN, (f \in rooms) \in BOOLEAN, (peer[f] # "up") \in BOOLEAN
    <2> QED BY <2>1
  <1>13. ASSUME NEW e \in batch' PROVE \E f \in Fds : \E r, u, c \in BOOLEAN : From(e, f, r, u, c)
    <2>1. PICK f \in Fds : From(e, f, Readable(f), f \in rooms, peer[f] # "up")
      BY <1>1
    <2> WITNESS f \in Fds
    <2> USE DEF Readable
    <2> WITNESS Readable(f) \in BOOLEAN, (f \in rooms) \in BOOLEAN, (peer[f] # "up") \in BOOLEAN
    <2> QED BY <2>1
  <1>2. /\ pc = "idle" /\ pc' = "loop"
        /\ UNCHANGED <<sessions, curId, open, lost, deaf, listening, peer, rx, id, wants, sock, Demux>>
    BY DEF PollGetEvents, table, kernel, event
  <1>3. ThreeDemuxes /\ watch \in [Fds -> Watches(Ids)]
    BY DemuxAssumption DEF IInv, TypeOK, ThreeDemuxes
  <1>4. \A f \in Fds : watch[f] \in Watches(Ids)
    BY <1>3
  <1>5. ASSUME NEW e \in batch'
        PROVE  e \in Event /\ (Demux = "select" => e.id = 0) /\ (Demux # "kqueue" => ~e.write)
    <2>1. PICK f \in Fds, r \in BOOLEAN, u \in BOOLEAN, c \in BOOLEAN : From(e, f, r, u, c)
      BY <1>13
    <2>2. Demux # "kqueue" => watch[f].write = "off"
      BY DEF IInv, Agree
    <2> QED BY <1>3, <1>4, <2>1, <2>2, ReportedIs
  <1>6. ASSUME NEW f \in Fds
        PROVE  LET w == watch[f]
                   a == watch'[f]
               IN  /\ a \in Watches(Ids)
                   /\ a.known => w.known /\ a.id = w.id
                   /\ ~a.known => ~w.known \/ (a.read = "off" /\ a.write = "off")
                   /\ Demux # "select" => (a.known <=> w.known)
                   /\ w.read = "off" => a.read = "off"
                   /\ w.write = "off" => a.write = "off"
                   /\ w.read = "on" /\ w.write = "off" => a.read = "on"
                   /\ "once" \in {a.read, a.write} => "once" \in {w.read, w.write} /\ a.id = w.id
    <2>1. PICK r \in BOOLEAN, u \in BOOLEAN, c \in BOOLEAN : Polled(f, r, u, c)
      BY <1>0
    <2> QED BY <1>3, <1>4, <2>1, AfterReportIs
  <1>7. watch' \in [Fds -> Watches(Ids)]
    BY <1>1, <1>6
  <1>8. TypeOK'
    BY <1>2, <1>5, <1>7 DEF IInv, TypeOK, UserPc
  <1>9. \A j \in Ids : Kept(j) /\ SocketOf(j)' = SocketOf(j)
    BY <1>2 DEF Kept, Live, Empty, SocketOf
  <1>10. Agree'
    <2>1. TableOK'
      BY <1>2, <1>9, TableKept DEF IInv, Agree
    <2>2. WatchesOwn'
      <3> SUFFICES ASSUME NEW f \in Fds, watch'[f].known
                   PROVE  Live(watch[f].id)' /\ SocketOf(watch[f].id)' = f
        BY <1>6 DEF WatchesOwn
      <3>1. watch[f].known /\ watch'[f].id = watch[f].id /\ watch[f].id \in Ids
        BY <1>4, <1>6 DEF Watches
      <3>2. Live(watch[f].id) /\ SocketOf(watch[f].id) = f
        BY <3>1 DEF IInv, Agree, WatchesOwn
      <3> QED BY <1>9, <3>1, <3>2 DEF Kept
    <2>3. \A f \in Fds : ~watch'[f].known => watch'[f].read = "off" /\ watch'[f].write = "off"
      BY <1>6 DEF IInv, Agree
    <2>4. \A i \in Ids : Live(i)' /\ Demux' # "select" =>
            watch'[SocketOf(i)'].known \/ SocketOf(i)' \in deaf'
      BY <1>2, <1>6, <1>9, SessionIs DEF IInv, Agree, Kept, SocketOf
    <2>5. \A i \in Ids : sessions'[i].kind = "listen" =>
            \/ SocketOf(i)' \in deaf'
            \/ watch'[SocketOf(i)'].read = "on" /\ watch'[SocketOf(i)'].write = "off"
      BY <1>2, <1>6, <1>9, SessionIs DEF IInv, Agree, Kinds, SocketOf
    <2>6. \A f \in Fds : Demux' = "select" /\ "once" \in {watch'[f].read, watch'[f].write} => watch'[f].id = 0
      BY <1>2, <1>6 DEF IInv, Agree
    <2>7. \A f \in Fds : Demux' # "kqueue" => watch'[f].write = "off"
      BY <1>2, <1>6 DEF IInv, Agree
    <2> QED BY <2>1, <2>2, <2>3, <2>4, <2>5, <2>6, <2>7 DEF Agree
  <1>11. BatchOK'
    BY <1>2, <1>5 DEF IInv, BatchOK, Serving, OnlyKqueueCrashes
  <1>12. NeverDeaf'
    <2> SUFFICES ASSUME NEW j \in Ids, Live(j)' PROVE Seen(j)'
      BY DEF NeverDeaf, Seen, Heard
    <2>1. Live(j) /\ SocketOf(j)' = SocketOf(j)
      BY <1>9 DEF Kept
    <2> SUFFICES ASSUME NEW f \in Fds, f = SocketOf(j), watch'[f].read = "off", f \notin deaf PROVE Seen(j)'
      BY <1>2, <2>1, SessionIs DEF IInv, Seen, Heard, SocketOf
    <2>2. watch[f].read # "off"
      BY <1>2, <2>1 DEF IInv, NeverDeaf, BatchOK, Serving
    <2>3. watch[f].id = j
      BY <1>4, <2>1, <2>2 DEF IInv, Agree, WatchesOwn, TableOK, Watches
    <2>4. PICK r \in BOOLEAN, u \in BOOLEAN, c \in BOOLEAN : Polled(f, r, u, c)
      BY <1>0
    <2>5. /\ Reported(f, watch[f], r, u, c, kept) # {}
          /\ Demux = "select" => "once" \in {watch[f].read, watch[f].write}
      BY <1>3, <1>4, <2>2, <2>4, OffIsReported
    <2>6. PICK e : e \in Reported(f, watch[f], r, u, c, kept)
      BY <2>5
    <2>7. e.id = IF Demux = "select" THEN 0 ELSE watch[f].id
      BY <1>3, <1>4, <2>6, ReportedIs
    <2>8. e.id = j
      BY <2>3, <2>5, <2>7 DEF IInv, Agree
    <2>9. e \in batch'
      BY <2>4, <2>6
    <2> QED BY <2>8, <2>9 DEF Seen
  <1> QED BY <1>8, <1>10, <1>11, <1>12 DEF IInv

(* One event of the batch has been served, on the session that has its id. *)
LEMMA ServedSight ==
  ASSUME IInv, pc = "loop", NEW e \in batch, batch' = batch \ {e}, e.id \in Ids, Others(e.id),
         Live(e.id)' /\ pc' # "crashed" => Heard(e.id)' \/ (pc' \in Serving /\ id' = e.id)
  PROVE  NeverDeaf'
  <1> SUFFICES ASSUME NEW j \in Ids, Live(j)', pc' # "crashed" PROVE Seen(j)'
    BY DEF NeverDeaf, Seen, Heard
  <1>1. CASE j = e.id
    BY <1>1 DEF Seen
  <1>2. CASE j # e.id
    <2>1. Live(j) /\ (Heard(j)' <=> Heard(j))
      BY <1>2, OthersHeard
    <2>2. Heard(j) \/ \E o \in batch : o.id = j
      BY <2>1, SeenIs DEF IInv, Seen, Serving
    <2>3. \A o \in batch : o.id = j => o \in batch'
      BY <1>2
    <2> QED BY <2>1, <2>2, <2>3 DEF Seen
  <1> QED BY <1>1, <1>2

(* An event is served: it is for nobody, for a connection, which the
   application is given data of or which is closed or watched again, or for
   the listener, which stays watched.                                     *)
LEMMA ServeStep ==
  ASSUME IInv, NEW e \in batch, Serve(e)
  PROVE  IInv'
  <1>1. pc = "loop" /\ batch' = batch \ {e} /\ UNCHANGED Demux
    BY DEF Serve
  <1>2. /\ StateTypeOK /\ LoopTypeOK /\ e \in Event /\ e.id \in Ids /\ e.write \in BOOLEAN
        /\ (Demux = "select" => e.id = 0) /\ (Demux # "kqueue" => ~e.write)
    BY TypeParts DEF IInv, BatchOK, LoopTypeOK, Event
  <1>3. ASSUME StateTypeOK', Agree', Others(e.id), pc' \in {"loop", "accept", "crashed"},
               UNCHANGED <<id, wants>>, sock' \in Fds \cup {0},
               Live(e.id)' /\ pc' # "crashed" => Heard(e.id)', pc' = "crashed" => Demux = "kqueue"
        PROVE  IInv'
    <2>1. LoopTypeOK'
      BY <1>1, <1>2, <1>3 DEF LoopTypeOK, UserPc
    <2>2. BatchOK'
      BY <1>1, <1>3 DEF IInv, BatchOK, Serving, OnlyKqueueCrashes
    <2>3. NeverDeaf'
      BY <1>1, <1>2, <1>3, ServedSight
    <2>4. TypeOK'
      BY <1>3, <2>1, TypeParts DEF TypeOK, StateTypeOK, LoopTypeOK
    <2> QED BY <1>3, <2>2, <2>3, <2>4 DEF IInv
  <1>4. ASSUME UNCHANGED <<table, open, lost, deaf, watch>> PROVE Agree' /\ Others(e.id)
    <2>1. UNCHANGED sessions
      BY <1>4 DEF table
    <2>2. \A j \in Ids : Kept(j)
      BY <2>1 DEF Kept, Live, Empty
    <2> QED BY <1>1, <1>4, <2>2, WatchKept DEF IInv, Others, WatchedAsBefore
  <1>5. CASE ~Live(e.id) /\ UNCHANGED <<table, kernel, watch, pc, event>>
    <2>1. UNCHANGED <<sessions, curId, open, lost, deaf, listening, peer, rx, watch, pc, id, wants, sock>>
      BY <1>5 DEF table, kernel, event
    <2>2. StateTypeOK'
      BY <1>2, <2>1 DEF StateTypeOK
    <2>3. ~Live(e.id)'
      BY <1>5, <2>1 DEF Live, Empty
    <2> QED BY <1>1, <1>2, <1>3, <1>4, <2>1, <2>2, <2>3 DEF LoopTypeOK, table
  <1>6. CASE ServeListener(e)
    <2>1. /\ UNCHANGED <<sessions, curId, open, lost, deaf, listening, peer, rx, watch, id, wants>>
          /\ pc' = "accept" /\ sock' = SocketOf(e.id) /\ sessions[e.id].kind = "listen"
      BY <1>6 DEF ServeListener, table, kernel, SocketOf
    <2>2. StateTypeOK'
      BY <1>2, <2>1 DEF StateTypeOK
    <2>3. sock' \in Fds
      BY <1>2, <2>1, SessionIs DEF IInv, Kinds, SocketOf
    <2>4. Heard(e.id)'
      BY <1>2, <2>1 DEF IInv, Agree, Heard, SocketOf
    <2> QED BY <1>3, <1>4, <2>1, <2>2, <2>3, <2>4 DEF table
  <1>7. CASE ServeConnection(e)
    <2> DEFINE f == sessions[e.id].fd
    <2>1. Live(e.id) /\ sessions[e.id].kind # "listen" /\ UNCHANGED sock /\ sock \in Fds \cup {0}
      BY <1>2, <1>7, SessionIs DEF IInv, ServeConnection, Kinds, LoopTypeOK
    <2>2. CASE /\ e.read /\ ~ReadFails(f) /\ rx[f] > 0
               /\ \E left \in 0..(rx[f] - 1) : rx' = [rx EXCEPT ![f] = left]
               /\ pc' = "onRecv" /\ id' = e.id /\ wants' = e.write
               /\ UNCHANGED <<table, open, lost, deaf, listening, peer, watch>>
      <3>0. rx[f] \in Nat
        BY <1>2, <2>1, SessionIs DEF IInv, StateTypeOK
      <3>7. PICK left \in 0..(rx[f] - 1) : rx' = [rx EXCEPT ![f] = left]
        BY <2>2
      <3>1. left \in Nat /\ rx' = [rx EXCEPT ![f] = left]
        BY <3>0, <3>7
      <3>2. /\ pc' = "onRecv" /\ id' = e.id /\ wants' = e.write
            /\ UNCHANGED <<sessions, curId, open, lost, deaf, listening, peer, watch>>
        BY <2>2 DEF table
      <3>3. StateTypeOK' /\ LoopTypeOK'
        BY <1>1, <1>2, <2>1, <3>1, <3>2 DEF StateTypeOK, LoopTypeOK, UserPc
      <3>4. Agree' /\ Others(e.id)
        BY <1>4, <3>2 DEF table
      <3>5. BatchOK'
        BY <1>1, <1>2, <2>1, <3>2 DEF IInv, BatchOK, OnlyKqueueCrashes
      <3>6. NeverDeaf'
        BY <1>1, <1>2, <3>2, <3>4, ServedSight DEF Serving
      <3> QED BY <3>3, <3>4, <3>5, <3>6, TypeParts DEF IInv, TypeOK, StateTypeOK, LoopTypeOK
    <2>3. CASE /\ e.read /\ (ReadFails(f) \/ "maxSize" \in Faults)
               /\ CloseSession(e.id)
               /\ UNCHANGED <<pc, id, wants>>
      <3>1. StateTypeOK' /\ Agree' /\ ~Live(e.id)' /\ Others(e.id)
        BY <1>1, <1>2, <2>1, <2>3, CloseStep DEF IInv, StateTypeOK, Others
      <3> QED BY <1>1, <1>3, <2>1, <2>3, <3>1
    <2>5. CASE /\ e.read /\ ~ReadFails(f) /\ rx[f] = 0
               /\ pc' = "read" /\ id' = e.id /\ wants' = e.write
               /\ UNCHANGED <<table, kernel, watch>>
      <3>1. /\ pc' = "read" /\ id' = e.id /\ wants' = e.write
            /\ UNCHANGED <<sessions, curId, open, lost, deaf, listening, peer, rx, watch>>
        BY <2>5 DEF table, kernel
      <3>2. StateTypeOK' /\ LoopTypeOK'
        BY <1>1, <1>2, <2>1, <3>1 DEF StateTypeOK, LoopTypeOK
      <3>3. Agree' /\ Others(e.id)
        BY <1>4, <3>1 DEF table
      <3>4. BatchOK'
        BY <1>1, <1>2, <2>1, <3>1 DEF IInv, BatchOK, OnlyKqueueCrashes
      <3>5. NeverDeaf'
        BY <1>1, <1>2, <3>1, <3>3, ServedSight DEF Serving
      <3> QED BY <3>2, <3>3, <3>4, <3>5, TypeParts DEF IInv, TypeOK, StateTypeOK, LoopTypeOK
    <2>4. CASE /\ ~e.read
               /\ Finish(e.id, e.write)
               /\ UNCHANGED <<id, wants>>
      <3>1. /\ StateTypeOK' /\ Agree' /\ Others(e.id)
            /\ (pc' = "loop" /\ Heard(e.id)') \/ (pc' = "crashed" /\ e.write)
        BY <1>1, <1>2, <2>1, <2>4, FinishStep DEF IInv
      <3> QED BY <1>2, <1>3, <2>1, <2>4, <3>1
    <2> QED BY <1>7, <2>2, <2>3, <2>4, <2>5 DEF ServeConnection
  <1> QED BY <1>5, <1>6, <1>7 DEF Serve

(* onRecv has returned, and the session is watched again if it is there. *)
LEMMA AfterRecvStep ==
  ASSUME IInv, AfterRecv
  PROVE  IInv'
  <1> SUFFICES ASSUME NEW i \in Ids, i = id PROVE IInv'
    BY DEF IInv, TypeOK
  <1>1. pc \in Serving /\ id' = 0 /\ wants' = FALSE /\ UNCHANGED <<batch, Demux, sock>>
    BY DEF AfterRecv
  <1>2. 0 \in Ids /\ StateTypeOK /\ LoopTypeOK
    BY UnixAssumption, TypeParts DEF IInv, Ids
  <1>3. ASSUME StateTypeOK', Agree', Others(i), pc' \in {"loop", "crashed"},
               Live(i)' /\ pc' # "crashed" => Heard(i)', pc' = "crashed" => Demux = "kqueue"
        PROVE  IInv'
    <2>1. LoopTypeOK'
      BY <1>1, <1>2, <1>3 DEF LoopTypeOK, UserPc
    <2>2. BatchOK'
      BY <1>1, <1>3 DEF IInv, BatchOK, Serving, OnlyKqueueCrashes
    <2>3. NeverDeaf'
      <3> SUFFICES ASSUME NEW j \in Ids, Live(j)', pc' # "crashed" PROVE Seen(j)'
        BY DEF NeverDeaf, Seen, Heard
      <3>1. CASE j = i
        BY <1>3, <3>1 DEF Seen
      <3>2. CASE j # i
        <4>1. Live(j) /\ (Heard(j)' <=> Heard(j))
          BY <1>3, <3>2, OthersHeard
        <4>2. Heard(j) \/ \E e \in batch : e.id = j
          BY <1>1, <3>2, <4>1, SeenIs DEF IInv, Seen, Serving
        <4> QED BY <1>1, <4>1, <4>2 DEF Seen
      <3> QED BY <3>1, <3>2
    <2>4. TypeOK'
      BY <1>3, <2>1 DEF TypeOK, StateTypeOK, LoopTypeOK
    <2> QED BY <1>3, <2>2, <2>3, <2>4 DEF IInv
  <1>4. CASE ~Live(i) /\ pc' = "loop" /\ UNCHANGED <<table, kernel, watch>>
    <2>1. UNCHANGED <<sessions, curId, open, lost, deaf, listening, peer, rx, watch>>
      BY <1>4 DEF table, kernel
    <2>2. StateTypeOK'
      BY <1>2, <2>1 DEF StateTypeOK
    <2>3. \A j \in Ids : Kept(j)
      BY <2>1 DEF Kept, Live, Empty
    <2> QED BY <1>1, <1>3, <1>4, <2>1, <2>2, <2>3, WatchKept DEF IInv, Others, Kept, Live, Empty, WatchedAsBefore
  <1>5. CASE Live(i) /\ Finish(i, wants)
    <2>1. wants \in BOOLEAN /\ (Demux = "select" => i = 0) /\ (Demux # "kqueue" => ~wants)
      BY <1>2 DEF IInv, BatchOK, LoopTypeOK
    <2>2. sessions[i].kind # "listen"
      BY <1>1 DEF IInv, BatchOK
    <2>3. /\ StateTypeOK' /\ Agree'
          /\ \/ pc' = "loop" /\ Heard(i)' /\ Others(i)
             \/ pc' = "crashed" /\ wants /\ Others(i)
      BY <1>1, <1>5, <2>1, <2>2, FinishStep DEF IInv
    <2> QED BY <1>3, <2>1, <2>3
  <1> QED BY <1>1, <1>4, <1>5 DEF AfterRecv

(* A socket no session will have: it could not be bound, or was connected
   with the table full.                                                  *)
LEMMA LostStep ==
  ASSUME TypeOK, Agree, FreeFds # {}, open' = open \cup {NewFd}, lost' = lost \cup {NewFd},
         UNCHANGED <<table, deaf, watch, Demux>>
  PROVE  open' \subseteq Fds /\ lost' \subseteq Fds /\ Agree' /\ \A j \in Ids : Kept(j)
  <1> SUFFICES ASSUME NEW g \in Fds, g = NewFd, g \notin open
               PROVE  open' \subseteq Fds /\ lost' \subseteq Fds /\ Agree' /\ \A j \in Ids : Kept(j)
    BY NewFdFree
  <1>1. open' = open \cup {g} /\ lost' = lost \cup {g} /\ UNCHANGED <<sessions, deaf, watch, Demux>>
    BY DEF table
  <1>2. open' \subseteq Fds /\ lost' \subseteq Fds
    BY <1>1 DEF TypeOK
  <1>3. \A j \in Ids : Kept(j) /\ (Live(j)' <=> Live(j)) /\ SocketOf(j)' = SocketOf(j)
    BY <1>1 DEF Kept, Live, Empty, SocketOf
  <1>4. TableOK'
    <2>1. {SocketOf(j) : j \in {k \in Ids : Live(k)}}' = {SocketOf(j) : j \in {k \in Ids : Live(k)}}
      BY <1>3
    <2>2. open' = lost' \cup {SocketOf(j) : j \in {k \in Ids : Live(k)}}
      BY <1>1 DEF Agree, TableOK
    <2> QED BY <1>1, <1>3, <2>1, <2>2 DEF Agree, TableOK
  <1>5. WatchesOwn'
    BY <1>1, <1>3 DEF Agree, WatchesOwn, TypeOK, Watches
  <1> QED BY <1>1, <1>2, <1>3, <1>4, <1>5 DEF Agree

(* What the application does, or the loop between accept() and onAccept:
   nothing of the batch is served, and one session at most is touched.    *)
LEMMA BetweenEvents ==
  ASSUME IInv, StateTypeOK', Agree', UNCHANGED <<batch, id, wants, sock, Demux>>,
         pc # "crashed", pc' = pc \/ (pc \notin Serving /\ pc' = "onAccept"),
         NEW i \in Ids, Others(i), Live(i)' => Seen(i)',
         sessions'[i].kind = "listen" => pc \notin Serving \/ sessions[i].kind = "listen"
  PROVE  IInv'
  <1>1. LoopTypeOK' /\ LoopTypeOK
    BY TypeParts DEF IInv, LoopTypeOK, UserPc
  <1>2. NeverDeaf'
    BY StillSeen DEF IInv
  <1>3. pc' \in Serving => pc \in Serving /\ sessions'[id].kind # "listen"
    BY <1>1 DEF IInv, BatchOK, Others, Kept, LoopTypeOK, Serving
  <1>4. BatchOK'
    BY <1>3 DEF IInv, BatchOK, OnlyKqueueCrashes
  <1> QED BY <1>1, <1>2, <1>4 DEF IInv, TypeOK, StateTypeOK, LoopTypeOK

(* initNewSession and the read posted. *)
LEMMA OpenedStep ==
  ASSUME IInv, NEW kind \in Kinds, kind = "listen" => pc \notin Serving, FreeFds # {},
         InitNewSession(kind), PostRecv(kind), UNCHANGED <<lost, peer, batch, id, wants, sock, Demux>>,
         listening' \subseteq Fds, rx' \in [Fds -> Nat],
         pc # "crashed", pc' = pc \/ (pc \notin Serving /\ pc' = "onAccept")
  PROVE  IInv'
  <1> SUFFICES ASSUME NEW n, n = NewId PROVE IInv'
    OBVIOUS
  <1>1. /\ sessions' \in [Ids -> Session] /\ curId' \in Ids /\ open' \subseteq Fds
        /\ watch' \in [Fds -> Watches(Ids)] /\ deaf' \subseteq Fds
        /\ Agree'
        /\ n \in Ids /\ Heard(n)'
        /\ \A j \in Ids \ {n} : Kept(j)
        /\ \A j \in Ids \ {n} : Live(j) => WatchedAsBefore(j)
    BY OpenStep DEF IInv
  <1>2. StateTypeOK'
    BY <1>1 DEF IInv, TypeOK, StateTypeOK
  <1>3. Others(n) /\ Seen(n)'
    BY <1>1 DEF Others, Seen
  <1>4. sessions'[n].kind = kind
    <2>1. sessions' = [sessions EXCEPT ![n] = [fd |-> NewFd, kind |-> kind, wsize |-> 0]]
      BY DEF InitNewSession
    <2> QED BY <1>1, <2>1 DEF IInv, TypeOK
  <1> QED BY <1>1, <1>2, <1>3, <1>4, BetweenEvents

(* Nothing is done to a session. *)
LEMMA NoneTouched ==
  ASSUME \A j \in Ids : Kept(j), UNCHANGED <<watch, deaf, batch, id>>, pc' = pc
  PROVE  /\ \A i \in Ids : Others(i)
         /\ NeverDeaf /\ pc # "crashed" => \A i \in Ids : Live(i)' => Seen(i)'
  <1>1. \A j \in Ids : Live(j)' => Live(j) /\ (Seen(j)' <=> Seen(j))
    BY DEF Kept, Seen, Heard, SocketOf
  <1> QED BY <1>1, SeenIs DEF Others, WatchedAsBefore

(* accept() returns a connection. *)
LEMMA AcceptNextStep ==
  ASSUME IInv, AcceptNext
  PROVE  IInv'
  <1>1. /\ pc = "accept" /\ sock \in Fds /\ rx[sock] \in Nat /\ rx[sock] > 0 /\ FreeFds # {}
        /\ rx \in [Fds -> Nat] /\ rx' = [rx EXCEPT ![sock] = @ - 1]
        /\ UNCHANGED <<lost, listening, peer, batch, id, wants, sock, Demux>>
    BY DEF AcceptNext, Acceptable, event, IInv, TypeOK
  <1>2. rx[sock] - 1 \in Nat
    BY <1>1
  <1>3. rx' \in [Fds -> Nat] /\ listening' \subseteq Fds
    BY <1>1, <1>2 DEF IInv, TypeOK
  <1>4. CASE InitNewSession("accept") /\ PostRecv("accept") /\ pc' = "onAccept"
    BY <1>1, <1>3, <1>4, OpenedStep DEF Kinds, Serving
  <1>5. CASE Full /\ UNCHANGED <<table, open, deaf, watch, pc>>
    <2>1. peer' \in [Fds -> {"up", "fin", "rst"}] /\ pc' \in UserPc \cup {"loop", "read", "accept", "crashed"}
          /\ sock' \in Fds \cup {0} /\ (pc' = "idle" => batch = {})
      BY <1>1, <1>5 DEF IInv, TypeOK
    <2> QED BY <1>1, <1>3, <1>5, <2>1, QuietStep
  <1> QED BY <1>4, <1>5 DEF AcceptNext

(* A socket is lost. *)
LEMMA LostKeeps ==
  ASSUME IInv, FreeFds # {}, open' = open \cup {NewFd}, lost' = lost \cup {NewFd}, pc # "crashed",
         UNCHANGED <<table, deaf, watch, listening, peer, rx, batch, Demux, pc, event>>
  PROVE  IInv'
  <1>1. open' \subseteq Fds /\ lost' \subseteq Fds /\ Agree' /\ \A j \in Ids : Kept(j)
    BY LostStep DEF IInv
  <1>2. UNCHANGED <<sessions, curId, id, wants, sock>>
    BY DEF table, event
  <1>3. StateTypeOK'
    BY <1>1, <1>2 DEF IInv, TypeOK, StateTypeOK
  <1>4. 0 \in Ids /\ \A i \in Ids : Others(i) /\ (Live(i)' => Seen(i)')
    BY <1>1, <1>2, NoneTouched, UnixAssumption DEF IInv, Ids
  <1> QED BY <1>1, <1>2, <1>3, <1>4, BetweenEvents

(* createListenSocket. *)
LEMMA ListenToStep ==
  ASSUME IInv, ListenTo
  PROVE  IInv'
  <1>1. /\ pc = "idle" /\ pc' = "idle" /\ FreeFds # {}
        /\ UNCHANGED <<peer, rx, batch, Demux, pc, event, id, wants, sock>>
    BY DEF ListenTo, event
  <1>2. CASE InitNewSession("listen") /\ PostRecv("listen") /\ listening' = {NewFd} /\ UNCHANGED lost
    <2>1. listening' \subseteq Fds /\ rx' \in [Fds -> Nat]
      BY <1>1, <1>2, NewFdFree DEF IInv, TypeOK
    <2> QED BY <1>1, <1>2, <2>1, OpenedStep DEF Kinds, Serving
  <1>3. CASE open' = open \cup {NewFd} /\ lost' = lost \cup {NewFd} /\ UNCHANGED <<table, deaf, listening, watch>>
    BY <1>1, <1>3, LostKeeps
  <1> QED BY <1>2, <1>3 DEF ListenTo

(* A connect succeeded. *)
LEMMA ConnectedStep ==
  ASSUME IInv, Connected
  PROVE  IInv'
  <1>1. /\ pc \in UserPc /\ pc # "crashed" /\ FreeFds # {}
        /\ UNCHANGED <<listening, peer, rx, batch, Demux, pc, event, id, wants, sock>>
    BY DEF Connected, event, UserPc
  <1>2. CASE InitNewSession("connect") /\ PostRecv("connect") /\ UNCHANGED lost
    <2>1. listening' \subseteq Fds /\ rx' \in [Fds -> Nat]
      BY <1>1 DEF IInv, TypeOK
    <2> QED BY <1>1, <1>2, <2>1, OpenedStep DEF Kinds
  <1>3. CASE open' = open \cup {NewFd} /\ lost' = lost \cup {NewFd} /\ UNCHANGED <<table, deaf, watch>>
    BY <1>1, <1>3, LostKeeps
  <1> QED BY <1>2, <1>3 DEF Connected

(* sendTo leaves the session as it was but for what waits to be sent. *)
LEMMA SendToStep ==
  ASSUME IInv, NEW i \in Ids, NEW n \in 1..MaxW, SendTo(i, n)
  PROVE  IInv'
  <1>1. /\ pc \in UserPc /\ pc # "crashed" /\ Live(i) /\ sessions[i].kind # "listen"
        /\ sessions[i].wsize + n <= MaxW
        /\ UNCHANGED <<curId, open, lost, deaf, listening, peer, rx, watch, batch, Demux, pc, event, id, wants, sock>>
    BY DEF SendTo, kernel, event, UserPc
  <1>2. sessions \in [Ids -> Session] /\ sessions[i] \in Session /\ sessions[i].wsize \in 0..MaxW
    BY <1>1, SessionIs DEF IInv, TypeOK
  <1>3. \E w \in 0..MaxW : sessions' = [sessions EXCEPT ![i].wsize = w]
    <2>1. CASE sessions' = [sessions EXCEPT ![i].wsize = @ + n]
      <3>1. sessions[i].wsize + n \in 0..MaxW
        BY <1>1, <1>2, UnixAssumption
      <3>2. sessions' = [sessions EXCEPT ![i].wsize = sessions[i].wsize + n]
        BY <1>2, <2>1
      <3> QED BY <3>1, <3>2
    <2>2. CASE \E left \in Left(sessions[i].fd, n) : sessions' = [sessions EXCEPT ![i].wsize = left]
      <3>1. PICK left \in Left(sessions[i].fd, n) : sessions' = [sessions EXCEPT ![i].wsize = left]
        BY <2>2
      <3>2. left \in 0..n
        BY <3>1 DEF Left
      <3>3. left \in 0..MaxW
        BY <1>2, <3>2, UnixAssumption
      <3> QED BY <3>1, <3>3
    <2> QED BY <2>1, <2>2 DEF SendTo
  <1>4. PICK w \in 0..MaxW : sessions' = [sessions EXCEPT ![i].wsize = w]
    BY <1>3
  <1>5. sessions'[i] = [sessions[i] EXCEPT !.wsize = w] /\ \A j \in Ids \ {i} : sessions'[j] = sessions[j]
    BY <1>2, <1>4
  <1>6. [sessions[i] EXCEPT !.wsize = w] \in Session
    BY <1>1, <1>2, <1>4 DEF Session, Live, Empty
  <1>7. sessions' \in [Ids -> Session]
    BY <1>2, <1>4, <1>6
  <1>8. \A j \in Ids : Kept(j)
    <2>1. sessions'[i].fd = sessions[i].fd /\ sessions'[i].kind = sessions[i].kind
      BY <1>2, <1>5 DEF Session, Empty
    <2>2. Live(i)'
      BY <1>1, <2>1, SessionIs DEF IInv, Live, Empty, Kinds
    <2> QED BY <1>1, <1>5, <2>1, <2>2 DEF Kept, Live, Empty
  <1>9. Agree'
    BY <1>1, <1>8, WatchKept DEF IInv
  <1>10. StateTypeOK'
    BY <1>1, <1>7 DEF IInv, TypeOK, StateTypeOK
  <1>11. \A j \in Ids : Others(j) /\ (Live(j)' => Seen(j)')
    BY <1>1, <1>8, NoneTouched DEF IInv
  <1>12. sessions'[i].kind = sessions[i].kind
    BY <1>8 DEF Kept
  <1> QED BY <1>1, <1>9, <1>10, <1>11, <1>12, BetweenEvents

(* The application closes a session. *)
LEMMA UserCloseStep ==
  ASSUME IInv, NEW i \in Ids, UserClose(i)
  PROVE  IInv'
  <1>1. /\ pc # "crashed" /\ Live(i) /\ CloseSession(i)
        /\ UNCHANGED <<batch, Demux, pc, id, wants, sock>>
    BY DEF UserClose, event, UserPc
  <1>2. StateTypeOK' /\ Agree' /\ ~Live(i)' /\ Others(i)
    BY <1>1, CloseStep DEF IInv, StateTypeOK, Others
  <1>3. sessions'[i].kind # "listen"
    BY <1>2 DEF Live, Empty, StateTypeOK, Session
  <1> QED BY <1>1, <1>2, <1>3, BetweenEvents

-----------------------------------------------------------------------------
(* The theorems *)

(* The poller starts without sessions. *)
LEMMA InitIInv == Init => IInv
  <1> SUFFICES ASSUME Init PROVE IInv
    OBVIOUS
  <1> USE DEF Init
  <1>1. 0 \in Ids /\ Empty \in Session /\ Unwatched \in Watches(Ids)
    BY UnixAssumption DEF Ids, Session, Unwatched, Watches, Filter
  <1>2. TypeOK
    BY <1>1 DEF TypeOK, UserPc
  <1>3. \A i \in Ids : ~Live(i) /\ sessions[i].kind # "listen"
    BY DEF Live, Empty
  <1>4. Agree
    BY <1>3 DEF Agree, TableOK, WatchesOwn, Unwatched
  <1>5. BatchOK /\ NeverDeaf
    BY <1>3 DEF BatchOK, NeverDeaf, OnlyKqueueCrashes, Serving
  <1> QED BY <1>2, <1>4, <1>5 DEF IInv

(* Every step keeps the invariant. *)
LEMMA NextIInv == IInv /\ [Next]_vars => IInv'
  <1> SUFFICES ASSUME IInv, [Next]_vars PROVE IInv'
    OBVIOUS
  <1>1. CASE UNCHANGED vars
    BY <1>1, QuietStep DEF vars, kernel, event, IInv, TypeOK, BatchOK
  <1>2. CASE Peers
    BY <1>2, PeersStep DEF Peers
  <1>3. CASE LoopStep
    BY <1>3, PollGetEventsStep, LoopEndsStep, AfterRecvStep, AcceptNextStep, ServeStep DEF LoopStep
  <1>4. CASE UserStep
    BY <1>4, ListenToStep, ConnectedStep, UserCloseStep, SendToStep DEF UserStep
  <1> QED BY <1>1, <1>2, <1>3, <1>4 DEF Next

(***************************************************************************)
(* The strengthened invariant holds in every state of the poller, over any *)
(* demultiplexer and for every size of the table.                          *)
(***************************************************************************)
THEOREM Invariance == Spec => []IInv
  BY InitIInv, NextIInv, PTL DEF Spec

(***************************************************************************)
(* Between any two steps of loopOnce and its callbacks the table, the open *)
(* sockets and the registrations agree, and no session is deaf.            *)
(***************************************************************************)
THEOREM InvHolds == Spec => []Inv
  <1>1. IInv => Inv
    BY DEF IInv, Inv, Agree
  <1> QED BY <1>1, Invariance, PTL

-----------------------------------------------------------------------------
(* What the loop closes *)

GoneOrLimited == \A j \in Ids : Live(j) /\ ~Live(j)' /\ Faults \cap {"maxSize", "send"} = {} => peer[SocketOf(j)] # "up"

(* A step of the loop that touches no session. *)
LEMMA NothingGone ==
  ASSUME \A j \in Ids : Live(j) => Live(j)', pc' # "crashed"
  PROVE  GoneOrLimited
  BY DEF GoneOrLimited

(* postSend and pollMod close a session only when send() fails. *)
LEMMA FinishCloses ==
  ASSUME IInv, NEW i \in Ids, Live(i), sessions[i].kind # "listen",
         NEW write \in BOOLEAN, Demux = "select" => i = 0, Demux # "kqueue" => ~write,
         Finish(i, write), UNCHANGED Demux
  PROVE  GoneOrLimited
  <1>1. \/ pc' = "loop" /\ (Live(i)' <=> Live(i)) /\ Others(i)
        \/ pc' = "crashed" /\ SendFails(SocketOf(i)) /\ write /\ Others(i)
    BY FinishStep DEF IInv
  <1>2. \A j \in Ids \ {i} : Live(j)' <=> Live(j)
    BY <1>1 DEF Others, Kept
  <1> QED BY <1>1, <1>2 DEF GoneOrLimited, SendFails

(* Every step of the loop. *)
LEMMA LoopCloses ==
  ASSUME IInv, LoopStep, pc # "crashed"
  PROVE  GoneOrLimited
  <1>1. ASSUME UNCHANGED sessions PROVE \A j \in Ids : Live(j) => Live(j)'
    BY <1>1 DEF Live, Empty
  <1>2. CASE PollGetEvents \/ LoopDone \/ AfterAccept \/ AcceptFails
    <2>1. UNCHANGED sessions /\ pc' # "crashed"
      BY <1>2 DEF PollGetEvents, LoopDone, AfterAccept, AcceptFails, table
    <2> QED BY <1>1, <2>1, NothingGone
  <1>3. CASE AfterRecv
    <2> SUFFICES ASSUME NEW i \in Ids, i = id PROVE GoneOrLimited
      BY DEF IInv, TypeOK
    <2>1. wants \in BOOLEAN /\ (Demux = "select" => i = 0) /\ (Demux # "kqueue" => ~wants)
          /\ sessions[i].kind # "listen" /\ UNCHANGED Demux
      BY <1>3 DEF IInv, BatchOK, TypeOK, AfterRecv
    <2>2. CASE Live(i) /\ Finish(i, wants)
      BY <2>1, <2>2, FinishCloses
    <2>3. CASE ~Live(i) /\ pc' = "loop" /\ UNCHANGED <<table, kernel, watch>>
      BY <1>1, <2>3, NothingGone DEF table
    <2> QED BY <1>3, <2>2, <2>3 DEF AfterRecv
  <1>4. CASE AcceptNext
    <2>1. pc' # "crashed"
      BY <1>4 DEF AcceptNext
    <2>2. CASE Full /\ UNCHANGED <<table, open, deaf, watch, pc>>
      BY <1>1, <2>1, <2>2, NothingGone DEF table
    <2>3. CASE InitNewSession("accept") /\ PostRecv("accept")
      <3> SUFFICES ASSUME NEW n, n = NewId PROVE GoneOrLimited
        OBVIOUS
      <3>1. ~Live(n)
        BY <2>3, NewIdFree DEF IInv, InitNewSession
      <3>2. \A j \in Ids \ {n} : Kept(j)
        BY <1>4, <2>3, OpenStep DEF IInv, AcceptNext, Acceptable, Kinds
      <3> QED BY <2>1, <3>1, <3>2, NothingGone DEF Kept
    <2> QED BY <1>4, <2>2, <2>3 DEF AcceptNext
  <1>5. ASSUME NEW e \in batch, Serve(e) PROVE GoneOrLimited
    <2>1. /\ e \in Event /\ e.id \in Ids /\ e.write \in BOOLEAN /\ UNCHANGED Demux /\ pc = "loop"
          /\ (Demux = "select" => e.id = 0) /\ (Demux # "kqueue" => ~e.write)
      BY <1>5 DEF IInv, TypeOK, BatchOK, Serve, Event
    <2>2. CASE UNCHANGED sessions /\ pc' # "crashed"
      BY <1>1, <2>2, NothingGone
    <2>3. CASE ServeConnection(e)
      <3> DEFINE f == sessions[e.id].fd
      <3>1. Live(e.id) /\ sessions[e.id].kind # "listen"
        BY <2>1, <2>3, SessionIs DEF IInv, ServeConnection, Kinds
      <3>2. CASE UNCHANGED table /\ pc' \in Serving
        BY <2>2, <3>2 DEF table, Serving
      <3>3. CASE (ReadFails(f) \/ "maxSize" \in Faults) /\ CloseSession(e.id) /\ UNCHANGED pc
        <4>1. \A j \in Ids \ {e.id} : Live(j)' <=> Live(j)
          BY <2>1, <3>1, <3>3, CloseStep DEF IInv, Kept
        <4>2. Faults \cap {"maxSize", "send"} = {} => peer[SocketOf(e.id)] # "up"
          BY <3>3 DEF ReadFails, SocketOf
        <4> QED BY <2>1, <3>3, <4>1, <4>2 DEF GoneOrLimited
      <3>4. CASE Finish(e.id, e.write)
        BY <2>1, <3>1, <3>4, FinishCloses
      <3> QED BY <2>3, <3>2, <3>3, <3>4 DEF ServeConnection, Serving
    <2>4. CASE ServeListener(e)
      BY <2>2, <2>4 DEF ServeListener, table
    <2>5. CASE UNCHANGED <<table, kernel, watch, pc, event>>
      BY <2>1, <2>2, <2>5 DEF table
    <2> QED BY <1>5, <2>3, <2>4, <2>5 DEF Serve
  <1> QED BY <1>2, <1>3, <1>4, <1>5 DEF LoopStep

(* A crashed loop takes no step. *)
LEMMA CrashedLoopStops ==
  ASSUME LoopStep
  PROVE  pc # "crashed"
  BY DEF LoopStep, PollGetEvents, LoopDone, AfterRecv, AcceptNext, AfterAccept, AcceptFails, Serve, Serving

(***************************************************************************)
(* The loop closes a session only when its peer has closed or reset it,    *)
(* even when it serves on it an event left in the batch for another.       *)
(***************************************************************************)
THEOREM OnlyGoneClosedHolds == Spec => OnlyGoneClosed
  <1>1. ASSUME IInv, [Next]_vars
        PROVE  [\A i \in Ids :
                  Live(i) /\ ~Live(i)' /\ Faults \cap {"maxSize", "send"} = {} /\ LoopStep
                    => peer[SocketOf(i)] # "up"]_vars
    <2> SUFFICES ASSUME NEW i \in Ids, Live(i), ~Live(i)', Faults \cap {"maxSize", "send"} = {}, LoopStep
                 PROVE  peer[SocketOf(i)] # "up"
      OBVIOUS
    <2> QED BY <1>1, LoopCloses, CrashedLoopStops DEF GoneOrLimited
  <1> QED BY <1>1, Invariance, PTL DEF Spec, OnlyGoneClosed

(***************************************************************************)
(* The loop reads the descriptor of a session it has just closed only      *)
(* under kqueue, whose events are taken for reads and writes at once.      *)
(***************************************************************************)
THEOREM OnlyKqueueCrashesHolds == Spec => []OnlyKqueueCrashes
  <1>1. IInv => OnlyKqueueCrashes
    BY DEF IInv, BatchOK
  <1> QED BY <1>1, Invariance, PTL

=============================================================================
