--------------------------- MODULE Demultiplexer ---------------------------
(***************************************************************************)
(* EpollPoller, KqueuePoller and SelectPoller: what each is asked to watch *)
(* a socket for, and what it reports.  A watch is what is registered for   *)
(* one socket; its filters are "off", "on", or "once" (EVENT_ONCE: off     *)
(* after the next report).                                                 *)
(***************************************************************************)
EXTENDS Integers

CONSTANT Demuxes

ASSUME DemuxAssumption == Demuxes \subseteq {"epoll", "kqueue", "select"}

(* The one the program was built with. *)
VARIABLE Demux

Filter == {"off", "on", "once"}

(* 'known': epoll and select hold an entry, though it may watch nothing. *)
Watches(ids) == [known : BOOLEAN, read : Filter, write : Filter, id : ids]

Unwatched == [known |-> FALSE, read |-> "off", write |-> "off", id |-> 0]

(* Mutant: with EVENT_ONCE. *)
PollAddOnce(w, id) == [known |-> TRUE, read |-> "once", write |-> "off", id |-> id]

(* pollAdd(sockFd, EVENT_READ, id) on the watch w the socket has: epoll
   refuses a socket it knows, kqueue leaves the other filter alone.       *)
EpollAdd(w, id) ==
  IF w.known THEN w ELSE [known |-> TRUE, read |-> "on", write |-> "off", id |-> id]
KqueueAdd(w, id) == [w EXCEPT !.known = TRUE, !.read = "on", !.id = id]
SelectAdd(w, id) == [known |-> TRUE, read |-> "on", write |-> "off", id |-> id]

PollAdd(w, id) ==
  CASE Demux = "epoll"  -> EpollAdd(w, id)
    [] Demux = "kqueue" -> KqueueAdd(w, id)
    [] Demux = "select" -> SelectAdd(w, id)

(* pollMod(sockFd, EVENT_READ | EVENT_ONCE, id), with EVENT_WRITE if write:
   epoll changes only what it knows, kqueue is taken to make a filter it has
   one-shot.                                                              *)
EpollMod(w, write, id) ==
  IF ~w.known THEN w
  ELSE [w EXCEPT !.read = "once", !.write = IF write THEN "once" ELSE "off", !.id = id]
KqueueMod(w, write, id) ==
  [known |-> TRUE, read |-> "once", write |-> IF write THEN "once" ELSE w.write, id |-> id]
SelectMod(w, write, id) ==
  [known |-> TRUE, read |-> "once", write |-> IF write THEN "once" ELSE "off", id |-> id]

PollMod(w, write, id) ==
  CASE Demux = "epoll"  -> EpollMod(w, write, id)
    [] Demux = "kqueue" -> KqueueMod(w, write, id)
    [] Demux = "select" -> SelectMod(w, write, id)

(* What pollGetEvents reports of socket f: the session id and the flags, for
   a socket that is readable and has room as given.  SelectPoller does
   not copy the id: getEventConn returns the 0 it stored instead.          *)
Together(f, w, readable, room) ==
  LET r == w.read # "off" /\ readable
      s == w.write # "off" /\ room
      i == IF Demux = "select" THEN 0 ELSE w.id
  IN  IF r \/ s THEN {[fd |-> f, id |-> i, filter |-> "both", read |-> r, write |-> s]} ELSE {}

(* kqueue reports each filter by itself.  getEventTrigerFlag tests the flags
   of the event, not its filter: EV_ONESHOT or EV_EOF make it both a read and
   a write event; without them, EV_ADD if the kernel kept it ('kept') makes
   it a read event.                                                       *)
Apart(f, w, readable, room, eof, kept) ==
  LET event(filter, mode) ==
        LET two == mode = "once" \/ eof
        IN  [fd |-> f, id |-> w.id, filter |-> filter, read |-> two \/ kept, write |-> two]
  IN  (IF w.read # "off" /\ readable THEN {event("read", w.read)} ELSE {})
      \cup (IF w.write # "off" /\ room THEN {event("write", w.write)} ELSE {})

Reported(f, w, readable, room, eof, kept) ==
  IF Demux = "kqueue" THEN Apart(f, w, readable, room, eof, kept)
  ELSE Together(f, w, readable, room)

Spent(mode) == IF mode = "once" THEN "off" ELSE mode

(* The watch after the report: EVENT_ONCE disables it (epoll), removes the
   filter reported (kqueue) or the entry (select).                        *)
AfterReport(w, readable, room) ==
  LET r == w.read # "off" /\ readable
      s == w.write # "off" /\ room
      once == "once" \in {w.read, w.write}
  IN  IF ~(r \/ s) THEN w
      ELSE CASE Demux = "epoll" /\ once -> [w EXCEPT !.read = "off", !.write = "off"]
             [] Demux = "select" /\ once -> Unwatched
             [] Demux = "kqueue" ->
                  [w EXCEPT !.read = IF r THEN Spent(@) ELSE @, !.write = IF s THEN Spent(@) ELSE @]
             [] OTHER -> w

=============================================================================
