------------------------------- MODULE Events -------------------------------
(***************************************************************************)
(* The event loop of examples/redis-2.0.2 (ae.c with ae_epoll.c) under the *)
(* handlers that redis.c registers: sockets that fire together and are     *)
(* handled one after the other, handlers that close other clients or take  *)
(* new ones, whose sockets get the numbers of closed ones, clients that    *)
(* are not read from while a swapped value is loaded, and the timers.      *)
(*                                                                         *)
(* Abstracted: what is read and written (Wire), and what commands do: a    *)
(* handler has one of the outcomes that matter to the loop.  Times are     *)
(* relative to the clock, of which the milliseconds are kept.              *)
(***************************************************************************)
EXTENDS Integers, Sequences, SequencesExt, FiniteSetsExt, Functions

CONSTANTS MaxFd,        \* bound: sockets, of which 0 is the listening one
          MaxClients,   \* bound: clients accepted
          Second,       \* milliseconds in a second
          CronPeriod,   \* what serverCron returns
          MaxTimers,    \* bound: timers created
          MaxLate       \* bound: a timer that is later counts as this late

ASSUME EventsAssumption ==
  /\ Second \in Nat \ {0}
  /\ MaxFd \in Nat /\ MaxClients \in Nat /\ MaxTimers \in Nat /\ MaxLate \in Nat /\ CronPeriod \in Nat

VARIABLES fevents,     \* eventLoop->events: mask and clientData of each socket
          maxfd,
          epoll,       \* what the kernel watches each socket for; no entry: not at all
          sockets,     \* the client of each open socket, 0 for the listening one
          readable,    \* sockets with something to read
          fired,       \* fired events that are not handled yet
          loop,        \* place in aeMain; half of the event at the head of fired
          iowait,      \* clients that wait for a swapped value
          timers,      \* timeEventHead: id and time left
          timer,       \* timeEventNextId, maxId, te, milliseconds of the clock, timeout of the poll
          accepted     \* clients accepted so far

filevars == <<fevents, maxfd, epoll, sockets>>
eventvars == <<filevars, readable, fired, loop, iowait, timers, timer, accepted>>

Fd == 0 .. MaxFd
NoEvent == [mask |-> {}, data |-> 0]
Forever == -1

EventsInit ==
  /\ fevents = [fd \in Fd |-> IF fd = 0 THEN [mask |-> {"r"}, data |-> 0] ELSE NoEvent]
  /\ maxfd = 0
  /\ epoll = [fd \in {0} |-> {"r"}]
  /\ sockets = [fd \in {0} |-> 0]
  /\ readable = {} /\ fired = <<>> /\ loop = "before" /\ iowait = {}
  /\ timers = <<[id |-> 0, left |-> 1]>>
  /\ timer = [next |-> 1, maxId |-> 0, te |-> 1, ms |-> 0, wait |-> 0]
  /\ accepted = 0

-----------------------------------------------------------------------------
(* Registered events.  ev is fevents, maxfd, epoll and sockets. *)

Ev == [events |-> fevents, maxfd |-> maxfd, epoll |-> epoll, sockets |-> sockets]
Becomes(ev) == fevents' = ev.events /\ maxfd' = ev.maxfd /\ epoll' = ev.epoll /\ sockets' = ev.sockets

\* epoll_ctl with EPOLL_CTL_ADD, MOD and DEL.
CtlOK(ev, op, fd) == fd \in DOMAIN ev.sockets /\ (op = "add") = (fd \notin DOMAIN ev.epoll)
Ctl(ep, op, fd, mask) ==
  IF op = "del" THEN [x \in DOMAIN ep \ {fd} |-> ep[x]] ELSE [x \in DOMAIN ep \cup {fd} |-> IF x = fd THEN mask ELSE ep[x]]

aeApiAddEvent(ev, fd) == IF ev.events[fd].mask = {} THEN "add" ELSE "mod"

\* AE_ERR when the kernel refuses.
aeCreateFileEvent(ev, fd, m, c) ==
  LET op == aeApiAddEvent(ev, fd)
      mask == ev.events[fd].mask \cup {m}
  IN  IF ~CtlOK(ev, op, fd) THEN ev
      ELSE [events |-> [ev.events EXCEPT ![fd] = [mask |-> mask, data |-> c]],
            maxfd |-> IF fd > ev.maxfd THEN fd ELSE ev.maxfd,
            epoll |-> Ctl(ev.epoll, op, fd, mask),
            sockets |-> ev.sockets]

aeApiDelEvent(ev, fd, mask) ==
  LET op == IF mask = {} THEN "del" ELSE "mod"
  IN  IF CtlOK(ev, op, fd) THEN Ctl(ev.epoll, op, fd, mask) ELSE ev.epoll

aeDeleteFileEvent(ev, fd, m) ==
  LET mask == ev.events[fd].mask \ {m}
      below == {x \in 0 .. ev.maxfd - 1 : ev.events[x].mask # {}}
  IN  IF ev.events[fd].mask = {} THEN ev
      ELSE [events |-> [ev.events EXCEPT ![fd] = [mask |-> mask, data |-> ev.events[fd].data]],
            maxfd |-> IF fd = ev.maxfd /\ mask = {} THEN Max(below \cup {-1}) ELSE ev.maxfd,
            epoll |-> aeApiDelEvent(ev, fd, mask),
            sockets |-> ev.sockets]

\* The kernel forgets a socket when it is closed.
Closing(ev, fd) ==
  [events |-> ev.events, maxfd |-> ev.maxfd,
   epoll |-> [x \in DOMAIN ev.epoll \ {fd} |-> ev.epoll[x]],
   sockets |-> [x \in DOMAIN ev.sockets \ {fd} |-> ev.sockets[x]]]

\* Mutant of freeClient: the event for writing is left.
MutOnlyReadable(ev, fd) == Closing(aeDeleteFileEvent(ev, fd, "r"), fd)

freeClient(ev, fd) == Closing(aeDeleteFileEvent(aeDeleteFileEvent(ev, fd, "r"), fd, "w"), fd)

\* accept returns the lowest number that is free; createClient closes it again when it has
\* no event.
createClient(ev, c) ==
  LET fd == Min(Fd \ DOMAIN ev.sockets)
      opened == [events |-> ev.events, maxfd |-> ev.maxfd, epoll |-> ev.epoll,
                 sockets |-> [x \in DOMAIN ev.sockets \cup {fd} |-> IF x = fd THEN c ELSE ev.sockets[x]]]
      watched == aeCreateFileEvent(opened, fd, "r", c)
  IN  IF watched = opened THEN Closing(opened, fd) ELSE watched

-----------------------------------------------------------------------------
(* aeMain *)

ClientFds == DOMAIN sockets \ {0}

\* A client whose value has been loaded is read from again, and answered.
Resumed(ev, fd) == aeCreateFileEvent(aeCreateFileEvent(ev, fd, "r", ev.sockets[fd]), fd, "w", ev.sockets[fd])

\* The clients in fds, one after the other.
AllResumed(ev, fds) ==
  LET after[n \in Fd] ==
        IF n = 0 THEN ev ELSE IF n \in fds THEN Resumed(after[n - 1], n) ELSE after[n - 1]
  IN  after[MaxFd]

\* beforeSleep resumes the clients whose values have been loaded.
beforeSleep(fds) ==
  /\ loop = "before"
  /\ Becomes(AllResumed(Ev, fds))
  /\ iowait' = iowait \ fds
  /\ loop' = "poll"
  /\ UNCHANGED <<readable, fired, timers, timer, accepted>>

\* The first of the nearest timers.
aeSearchNearestTimer == CHOOSE t \in ToSet(timers) : \A u \in ToSet(timers) : t.left <= u.left

\* The time that is missing until timer t, from seconds and milliseconds apart: each of the
\* two is made zero when it is negative.
Timeout(t) ==
  LET due == timer.ms + t.left
      sec == due \div Second
      ms == due % Second
  IN  IF ms < timer.ms THEN Max({0, sec - 1}) * Second + ms + Second - timer.ms
      ELSE Max({0, sec}) * Second + ms - timer.ms

\* aeProcessEvents until it sleeps in epoll_wait.
aeProcessEvents ==
  /\ loop = "poll"
  /\ timer' = [timer EXCEPT !.wait = IF timers = <<>> THEN Forever ELSE Timeout(aeSearchNearestTimer)]
  /\ loop' = "sleep"
  /\ UNCHANGED <<filevars, readable, fired, iowait, timers, accepted>>

\* Sockets that epoll_wait reports; room, those that can be written to.
Ready(fd, room) == {m \in epoll[fd] : IF m = "r" THEN fd \in readable ELSE fd \in room}

Orders(found) == {o \in [1 .. Cardinality(found) -> found] : IsInjective(o)}

\* aeApiPoll, in any order.
aeApiPoll(room) ==
  /\ loop = "sleep"
  /\ room \subseteq {fd \in DOMAIN epoll : "w" \in epoll[fd]}
  /\ LET found == {fd \in DOMAIN epoll : Ready(fd, room) # {}}
     IN  /\ found # {} \/ timer.wait = 0
         /\ \E order \in Orders(found) :
              fired' = [n \in 1 .. Cardinality(found) |-> [fd |-> order[n], mask |-> Ready(order[n], room)]]
  /\ loop' = "read"
  /\ UNCHANGED <<filevars, readable, iowait, timers, timer, accepted>>

-----------------------------------------------------------------------------
(* The handlers of the event at the head of fired *)

Event == Head(fired)
Half(h, m) == loop = h /\ fired # <<>> /\ m \in Event.mask \cap fevents[Event.fd].mask

acceptHandler ==
  /\ Half("read", "r") /\ Event.fd = 0
  /\ IF 0 \in readable /\ Fd \ DOMAIN sockets # {}
     THEN Becomes(createClient(Ev, accepted + 1)) /\ accepted' = accepted + 1 /\ readable' = readable \ {0}
     ELSE UNCHANGED <<filevars, accepted, readable>>
  /\ loop' = "write"
  /\ UNCHANGED <<fired, iowait, timers, timer>>

\* readQueryFromClient; what is the outcome: the client is gone, its command is answered,
\* waits for a swapped value, or makes the server leave its master, another client.
readQueryFromClient(what, other) ==
  LET fd == Event.fd
      c == fevents[fd].data
  IN  /\ Half("read", "r") /\ fd # 0
      /\ IF fd \notin readable THEN UNCHANGED <<filevars, readable, iowait>>       \* EAGAIN
         ELSE CASE what = "gone" ->
                     Becomes(freeClient(Ev, fd)) /\ readable' = readable \ {fd} /\ UNCHANGED iowait
                [] what = "answered" ->
                     Becomes(aeCreateFileEvent(Ev, fd, "w", c)) /\ readable' = readable \ {fd} /\ UNCHANGED iowait
                [] what = "swapped" ->
                     Becomes(aeDeleteFileEvent(Ev, fd, "r")) /\ iowait' = iowait \cup {fd} /\ readable' = readable \ {fd}
                [] what = "slaveof" ->
                     /\ other # fd
                     /\ Becomes(aeCreateFileEvent(freeClient(Ev, other), fd, "w", c))
                     /\ readable' = readable \ {fd, other} /\ iowait' = iowait \ {other}
      /\ loop' = "write"
      /\ UNCHANGED <<fired, timers, timer, accepted>>

readNothing ==
  /\ loop = "read" /\ fired # <<>> /\ ~Half("read", "r")
  /\ loop' = "write"
  /\ UNCHANGED <<filevars, readable, fired, iowait, timers, timer, accepted>>

NextEvent == fired' = Tail(fired) /\ loop' = "read"

\* sendReplyToClient: all is sent, a part of it, or the client is gone.
sendReplyToClient(what) ==
  /\ Half("write", "w")
  /\ CASE what = "all" -> Becomes(aeDeleteFileEvent(Ev, Event.fd, "w")) /\ UNCHANGED <<readable, iowait>>
       [] what = "part" -> UNCHANGED <<filevars, readable, iowait>>
       [] what = "gone" -> Becomes(freeClient(Ev, Event.fd)) /\ readable' = readable \ {Event.fd} /\ iowait' = iowait \ {Event.fd}
  /\ NextEvent
  /\ UNCHANGED <<timers, timer, accepted>>

writeNothing ==
  /\ loop = "write" /\ ~Half("write", "w")
  /\ NextEvent
  /\ UNCHANGED <<filevars, readable, iowait, timers, timer, accepted>>

-----------------------------------------------------------------------------
(* processTimeEvents *)

timeStart ==
  /\ loop = "read" /\ fired = <<>>
  /\ loop' = "times"
  /\ timer' = [timer EXCEPT !.maxId = timer.next - 1, !.te = 1]
  /\ UNCHANGED <<filevars, readable, fired, iowait, timers, accepted>>

Due(t) == t.id <= timer.maxId /\ t.left <= 0

timeSkip ==
  /\ loop = "times" /\ timer.te <= Len(timers) /\ ~Due(timers[timer.te])
  /\ timer' = [timer EXCEPT !.te = @ + 1]
  /\ UNCHANGED <<filevars, readable, fired, loop, iowait, timers, accepted>>

\* aeAddMillisecondsToNow
Again(n, retval) == [timers EXCEPT ![n].left = retval]

aeDeleteTimeEvent(n) == RemoveAt(timers, n)

\* timeProc is called: serverCron, which may close a client that timed out and is called
\* again, or a timer that is called once; it may create another one, which is put in front.
timeProc(close, create) ==
  LET t == timers[timer.te]
      rest == IF t.id = 0 THEN Again(timer.te, CronPeriod) ELSE aeDeleteTimeEvent(timer.te)
  IN  /\ loop = "times" /\ timer.te <= Len(timers) /\ Due(t)
      /\ IF t.id = 0 /\ close # 0
         THEN Becomes(freeClient(Ev, close)) /\ readable' = readable \ {close} /\ iowait' = iowait \ {close}
         ELSE close = 0 /\ UNCHANGED <<filevars, readable, iowait>>
      /\ create => timer.next < MaxTimers
      /\ timers' = IF create THEN <<[id |-> timer.next, left |-> 0]>> \o rest ELSE rest
      /\ timer' = [timer EXCEPT !.te = 1, !.next = IF create THEN timer.next + 1 ELSE timer.next]
      /\ UNCHANGED <<fired, loop, accepted>>

timeEnd ==
  /\ loop = "times" /\ timer.te > Len(timers)
  /\ loop' = "before"
  /\ UNCHANGED <<filevars, readable, fired, iowait, timers, timer, accepted>>

-----------------------------------------------------------------------------
(* The world *)

\* A connection is asked for, a client sends something or goes away.
arrive(fd) ==
  /\ fd \in DOMAIN sockets \ readable /\ (fd = 0 => accepted < MaxClients)
  /\ readable' = readable \cup {fd}
  /\ UNCHANGED <<filevars, fired, loop, iowait, timers, timer, accepted>>

\* A millisecond passes; not in processTimeEvents, where a period runs from the return of the
\* handler, and the timers are compared at once.
tick ==
  /\ loop # "times"
  /\ timers' = [n \in DOMAIN timers |-> [timers[n] EXCEPT !.left = Max({timers[n].left - 1, -MaxLate})]]
  /\ timer' = [timer EXCEPT !.ms = (timer.ms + 1) % Second,
                            !.wait = IF loop = "sleep" /\ timer.wait > 0 THEN timer.wait - 1 ELSE timer.wait]
  /\ UNCHANGED <<filevars, readable, fired, loop, iowait, accepted>>

EventsNext ==
  \/ \E fds \in SUBSET iowait : beforeSleep(fds)
  \/ aeProcessEvents
  \/ \E room \in SUBSET ClientFds : aeApiPoll(room)
  \/ acceptHandler
  \/ \E what \in {"gone", "answered", "swapped", "slaveof"}, other \in ClientFds : readQueryFromClient(what, other)
  \/ readNothing \/ writeNothing
  \/ \E what \in {"all", "part", "gone"} : sendReplyToClient(what)
  \/ timeStart \/ timeSkip \/ timeEnd
  \/ \E close \in {0} \cup ClientFds, create \in BOOLEAN : timeProc(close, create)
  \/ tick \/ \E fd \in Fd : arrive(fd)

EventsSpec == EventsInit /\ [][EventsNext]_eventvars

-----------------------------------------------------------------------------
\* The kernel watches what the loop believes it watches, and a registered event is of the
\* client that now has the socket, although sockets are closed and their numbers given out
\* again while fired events wait for their turn: no handler gets a client that was freed.
\* A client is read from unless it waits for a swapped value.
EventsAgree ==
  LET used == {fd \in Fd : fevents[fd].mask # {}}
  IN  /\ maxfd = Max(used \cup {-1})
      /\ DOMAIN epoll = used /\ \A fd \in used : epoll[fd] = fevents[fd].mask
      /\ \A fd \in used : fd \in DOMAIN sockets /\ fevents[fd].data = sockets[fd]
      /\ \A fd \in ClientFds : ("r" \in fevents[fd].mask) # (fd \in iowait)

\* epoll_wait sleeps until the nearest timer and no longer, across the ends of seconds; when
\* that timer is late already, it still sleeps, but less than a second.
SleepsInTime ==
  loop = "poll" /\ timers # <<>> =>
    LET t == aeSearchNearestTimer
    IN  IF t.left >= 0 THEN Timeout(t) = t.left ELSE Timeout(t) < Second

\* The loop's registrations, the kernel's and the clients' agree while handlers close and open
\* sockets under fired events, and the loop sleeps no longer than its timers allow.
EventLoopSound == EventsAgree /\ SleepsInTime
=============================================================================
