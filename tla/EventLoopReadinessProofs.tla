---------------------- MODULE EventLoopReadinessProofs ----------------------
(***************************************************************************)
(* Theorems about the edges of EventLoop, for every value of its           *)
(* constants: no readiness is lost between an epoll set that has reported  *)
(* it and the loops that serve it, and no inner epoll_wait blocks unless   *)
(* another process shares the listening socket.                            *)
(*                                                                         *)
(* The properties speak of the top of the loop.  The invariant says where  *)
(* a readiness is at every other point: in a ready list the master set     *)
(* knows of, or in an entry of events[] still to be served, with the flag  *)
(* that makes serve_sockets run the loop it is for.                        *)
(***************************************************************************)
EXTENDS EventLoopProofs

\* The master set knows what is left in the inner ready lists.
ListsKnown ==
  NestedRewake =>
    /\ sockReady # {} => "socket" \in masterReady \/ pc = "socket"
    /\ timerReady # {} => "timer" \in masterReady \/ pc = "timer"

\* An inner set has something to report, between the two epoll_waits.
InnerOK ==
  /\ pc = "timer" => timerReady # {}
  /\ pc = "socket" => ReadySockets # {} \/ (SharedListener /\ Listen \in sockReady)

\* Exactly one callback is armed on a live connection, and none on another.
CallbacksOK ==
  \A c \in Conns : /\ rd[c] <=> ctx[c] = "live" /\ wr[c] = "none"
                   /\ ctx[c] # "live" => wr[c] = "none"

\* An entry of events[] that dispatches to read_loop or write_loop.
Served(c) == events[c] \notin {{}, {"ERR"}}

\* Room in the send buffer is seen by write_loop, now or after the next report.
WritesOK ==
  /\ \A c \in Live : wr[c] # "none" /\ Writable(c) => c \in sockReady \/ events[c] # {}
  /\ pc # "timerevents" =>
       \A c \in Live : Served(c) /\ Writable(c) => "OUT" \in events[c] \/ c \in sockReady
  /\ pc \in {"read", "write"} => Served(cur)

\* A reset is seen by read_loop, by write_loop, or by the next report.
ResetsOK ==
  /\ \A c \in Live : peer[c] = "reset" => c \in sockReady \/ events[c] # {}
  /\ pc # "timerevents" =>
       \A c \in Live : Served(c) /\ peer[c] = "reset" => "IN" \in events[c] \/ c \in sockReady
  /\ pc = "write" /\ peer[cur] = "reset" => cur \in sockReady \/ wr[cur] # "none"

\* The accept queue is seen by accept_loop, which empties it.
AcceptsOK ==
  ~AcceptFails /\ ~terminated /\ backlog # {} => Listen \in sockReady \/ events[Listen] # {}

\* An expired timer is in its ready list or in an entry serve_timers has yet to serve.
ExpiriesOK ==
  \A c \in Live : timer[c] = "expired" => c \in timerReady \/ (pc = "timerevents" /\ events[c] # {})

RInv == /\ ListsKnown /\ InnerOK /\ CallbacksOK
        /\ WritesOK /\ ResetsOK /\ AcceptsOK /\ ExpiriesOK

-----------------------------------------------------------------------------
LEMMA InitRInv == Init => RInv
<1> SUFFICES ASSUME Init PROVE RInv
  OBVIOUS
<1>1. Live = {}
  BY ConstantsAssumption DEF ConstantsAssumption, Init, Live, Fds
<1>2. ListsKnown /\ InnerOK /\ AcceptsOK
  BY DEF Init, ListsKnown, InnerOK, AcceptsOK
<1>3. CallbacksOK
  BY ConstantsAssumption DEF ConstantsAssumption, Init, CallbacksOK, Fds
<1>4. WritesOK /\ ResetsOK /\ ExpiriesOK
  BY <1>1 DEF Init, WritesOK, ResetsOK, ExpiriesOK
<1> QED
  BY <1>2, <1>3, <1>4 DEF RInv
-----------------------------------------------------------------------------
\* Clients, timers and signals add readiness and notify.
LEMMA EnvironmentReadiness == IInv /\ RInv /\ (Environment) => RInv'
<1> SUFFICES ASSUME IInv, RInv, Environment PROVE RInv'
  OBVIOUS
<1> USE ConstantsAssumption DEF ConstantsAssumption, IInv, RInv
<1>1. ASSUME NEW c \in Conns, Connect(c) PROVE RInv'
  <2> USE <1>1 DEF Connect, Notify, ctxVars, loopVars
  <2>1. ListsKnown' /\ InnerOK' /\ CallbacksOK'
    BY DEF ListsKnown, InnerOK, CallbacksOK, ReadySockets, Poll, Readable, Writable, Broken, TypeOK, QueueOK, ContextsOK, EventsOK, Fds
  <2>2. WritesOK' /\ ResetsOK'
    BY DEF WritesOK, ResetsOK, CallbacksOK, Served, Writable, Live, TypeOK, QueueOK, ContextsOK, EventsOK, Fds
  <2>3. AcceptsOK' /\ ExpiriesOK'
    BY DEF AcceptsOK, ExpiriesOK, Live, TypeOK, QueueOK, ContextsOK, EventsOK, Fds
  <2> QED
    BY <2>1, <2>2, <2>3 DEF RInv
<1>2. ASSUME NEW c \in Conns, ClientSend(c) PROVE RInv'
  <2> USE <1>2 DEF ClientSend, Notify, ctxVars, loopVars
  <2>1. ListsKnown' /\ InnerOK' /\ CallbacksOK'
    BY DEF ListsKnown, InnerOK, CallbacksOK, ReadySockets, Poll, Readable, Writable, Broken, TypeOK, QueueOK, ContextsOK, EventsOK, Fds
  <2>2. WritesOK' /\ ResetsOK'
    BY DEF WritesOK, ResetsOK, CallbacksOK, Served, Writable, Live, TypeOK, QueueOK, ContextsOK, EventsOK, Fds
  <2>3. AcceptsOK' /\ ExpiriesOK'
    BY DEF AcceptsOK, ExpiriesOK, Live, TypeOK, QueueOK, ContextsOK, EventsOK, Fds
  <2> QED
    BY <2>1, <2>2, <2>3 DEF RInv
<1>3. ASSUME NEW c \in Conns, ClientDrain(c) PROVE RInv'
  <2> USE <1>3 DEF ClientDrain, Notify, ctxVars, loopVars
  <2>1. ListsKnown' /\ InnerOK' /\ CallbacksOK'
    BY DEF ListsKnown, InnerOK, CallbacksOK, ReadySockets, Poll, Readable, Writable, Broken, TypeOK, QueueOK, ContextsOK, EventsOK, Fds
  <2>2. WritesOK' /\ ResetsOK'
    BY DEF WritesOK, ResetsOK, CallbacksOK, Served, Writable, Live, TypeOK, QueueOK, ContextsOK, EventsOK, Fds
  <2>3. AcceptsOK' /\ ExpiriesOK'
    BY DEF AcceptsOK, ExpiriesOK, Live, TypeOK, QueueOK, ContextsOK, EventsOK, Fds
  <2> QED
    BY <2>1, <2>2, <2>3 DEF RInv
<1>4. ASSUME NEW c \in Conns, NEW how \in {"fin", "reset"}, ClientEnd(c, how) PROVE RInv'
  <2> USE <1>4 DEF ClientEnd, Notify, ctxVars, loopVars
  <2>1. ListsKnown' /\ InnerOK' /\ CallbacksOK'
    BY DEF ListsKnown, InnerOK, CallbacksOK, ReadySockets, Poll, Readable, Writable, Broken, TypeOK, QueueOK, ContextsOK, EventsOK, Fds
  <2>2. WritesOK' /\ ResetsOK'
    BY DEF WritesOK, ResetsOK, CallbacksOK, Served, Writable, Live, TypeOK, QueueOK, ContextsOK, EventsOK, Fds
  <2>3. AcceptsOK' /\ ExpiriesOK'
    BY DEF AcceptsOK, ExpiriesOK, Live, TypeOK, QueueOK, ContextsOK, EventsOK, Fds
  <2> QED
    BY <2>1, <2>2, <2>3 DEF RInv
<1>5. ASSUME NEW c \in Conns, TimerExpire(c) PROVE RInv'
  <2> USE <1>5 DEF TimerExpire, netVars, loopVars
  <2>1. ListsKnown' /\ InnerOK' /\ CallbacksOK'
    BY DEF ListsKnown, InnerOK, CallbacksOK, ReadySockets, Poll, Readable, Writable, Broken, TypeOK, QueueOK, ContextsOK, EventsOK, Fds
  <2>2. WritesOK' /\ ResetsOK'
    BY DEF WritesOK, ResetsOK, CallbacksOK, Served, Writable, Live, TypeOK, QueueOK, ContextsOK, EventsOK, Fds
  <2>3. AcceptsOK' /\ ExpiriesOK'
    BY DEF AcceptsOK, ExpiriesOK, Live, TypeOK, QueueOK, ContextsOK, EventsOK, Fds
  <2> QED
    BY <2>1, <2>2, <2>3 DEF RInv
<1>6. ASSUME NEW c \in Conns, OtherAccepts(c) PROVE RInv'
  <2> USE <1>6 DEF OtherAccepts, epollVars, ctxVars, loopVars
  <2>1. ListsKnown' /\ InnerOK' /\ CallbacksOK'
    BY DEF ListsKnown, InnerOK, CallbacksOK, ReadySockets, Poll, Readable, Writable, Broken, TypeOK, QueueOK, ContextsOK, EventsOK, Fds
  <2>2. WritesOK' /\ ResetsOK'
    BY DEF WritesOK, ResetsOK, CallbacksOK, Served, Writable, Live, TypeOK, QueueOK, ContextsOK, EventsOK, Fds
  <2>3. AcceptsOK' /\ ExpiriesOK'
    BY DEF AcceptsOK, ExpiriesOK, Live, TypeOK, QueueOK, ContextsOK, EventsOK, Fds
  <2> QED
    BY <2>1, <2>2, <2>3 DEF RInv
<1>7. ASSUME SendQuit PROVE RInv'
  <2> USE <1>7 DEF SendQuit, netVars, ctxVars, loopVars
  <2>1. ListsKnown' /\ InnerOK' /\ CallbacksOK'
    BY DEF ListsKnown, InnerOK, CallbacksOK, ReadySockets, Poll, Readable, Writable, Broken, TypeOK, QueueOK, ContextsOK, EventsOK, Fds
  <2>2. WritesOK' /\ ResetsOK'
    BY DEF WritesOK, ResetsOK, CallbacksOK, Served, Writable, Live, TypeOK, QueueOK, ContextsOK, EventsOK, Fds
  <2>3. AcceptsOK' /\ ExpiriesOK'
    BY DEF AcceptsOK, ExpiriesOK, Live, TypeOK, QueueOK, ContextsOK, EventsOK, Fds
  <2> QED
    BY <2>1, <2>2, <2>3 DEF RInv
<1> QED
  BY <1>1, <1>2, <1>3, <1>4, <1>5, <1>6, <1>7 DEF Environment

-----------------------------------------------------------------------------
\* The top of the loop.
LEMMA TopReadiness == IInv /\ RInv /\ (Exit \/ HandleQuit \/ \E e \in {"socket", "timer", "signal"} : MasterWait(e)) => RInv'
<1> SUFFICES ASSUME IInv, RInv, Exit \/ HandleQuit \/ \E e \in {"socket", "timer", "signal"} : MasterWait(e) PROVE RInv'
  OBVIOUS
<1> USE ConstantsAssumption DEF ConstantsAssumption, IInv, RInv
<1>1. ASSUME NEW e \in {"socket", "timer", "signal"}, MasterWait(e) PROVE RInv'
  <2> USE <1>1 DEF MasterWait, MasterEvents, netVars, ctxVars
  <2>1. ListsKnown' /\ InnerOK' /\ CallbacksOK'
    BY DEF ListsKnown, InnerOK, CallbacksOK, ReadySockets, Poll, Readable, Writable, Broken, TypeOK, QueueOK, ContextsOK, EventsOK, Fds
  <2>2. WritesOK' /\ ResetsOK'
    BY DEF WritesOK, ResetsOK, CallbacksOK, Served, Writable, Live, TypeOK, QueueOK, ContextsOK, EventsOK, Fds
  <2>3. AcceptsOK' /\ ExpiriesOK'
    BY DEF AcceptsOK, ExpiriesOK, Live, TypeOK, QueueOK, ContextsOK, EventsOK, Fds
  <2> QED
    BY <2>1, <2>2, <2>3 DEF RInv
<1>2. ASSUME Exit PROVE RInv'
  <2> USE <1>2 DEF Exit, netVars, epollVars, ctxVars
  <2>1. ListsKnown' /\ InnerOK' /\ CallbacksOK'
    BY DEF ListsKnown, InnerOK, CallbacksOK, ReadySockets, Poll, Readable, Writable, Broken, TypeOK, QueueOK, ContextsOK, EventsOK, Fds
  <2>2. WritesOK' /\ ResetsOK'
    BY DEF WritesOK, ResetsOK, CallbacksOK, Served, Writable, Live, TypeOK, QueueOK, ContextsOK, EventsOK, Fds
  <2>3. AcceptsOK' /\ ExpiriesOK'
    BY DEF AcceptsOK, ExpiriesOK, Live, TypeOK, QueueOK, ContextsOK, EventsOK, Fds
  <2> QED
    BY <2>1, <2>2, <2>3 DEF RInv
<1>3. ASSUME HandleQuit PROVE RInv'
  <2> USE <1>3 DEF HandleQuit, Freed, netVars
  <2>1. ListsKnown' /\ InnerOK' /\ CallbacksOK'
    BY DEF ListsKnown, InnerOK, CallbacksOK, ReadySockets, Poll, Readable, Writable, Broken, TypeOK, QueueOK, ContextsOK, EventsOK, Fds
  <2>2. WritesOK' /\ ResetsOK'
    BY DEF WritesOK, ResetsOK, CallbacksOK, Served, Writable, Live, TypeOK, QueueOK, ContextsOK, EventsOK, Fds
  <2>3. AcceptsOK' /\ ExpiriesOK'
    BY DEF AcceptsOK, ExpiriesOK, Live, TypeOK, QueueOK, ContextsOK, EventsOK, Fds
  <2> QED
    BY <2>1, <2>2, <2>3 DEF RInv
<1> QED
  BY <1>1, <1>2, <1>3

-----------------------------------------------------------------------------
\* accept_loop.
LEMMA AcceptReadiness == IInv /\ RInv /\ (ServeAccept) => RInv'
<1> SUFFICES ASSUME IInv, RInv, ServeAccept PROVE RInv'
  OBVIOUS
<1> USE ConstantsAssumption DEF ConstantsAssumption, IInv, RInv
<1>1. ASSUME AcceptStop PROVE RInv'
  <2> USE <1>1 DEF AcceptStop, NextEntry, netVars, epollVars, ctxVars
  <2>1. ListsKnown' /\ InnerOK' /\ CallbacksOK'
    BY DEF ListsKnown, InnerOK, CallbacksOK, ReadySockets, Poll, Readable, Writable, Broken, TypeOK, QueueOK, ContextsOK, EventsOK, Fds
  <2>2. WritesOK' /\ ResetsOK'
    BY DEF WritesOK, ResetsOK, CallbacksOK, Served, Writable, Live, TypeOK, QueueOK, ContextsOK, EventsOK, Fds
  <2>3. AcceptsOK' /\ ExpiriesOK'
    BY DEF AcceptsOK, ExpiriesOK, Live, TypeOK, QueueOK, ContextsOK, EventsOK, Fds
  <2> QED
    BY <2>1, <2>2, <2>3 DEF RInv
<1>2. ASSUME AcceptExit PROVE RInv'
  <2> USE <1>2 DEF AcceptExit, netVars, epollVars, ctxVars
  <2>1. ListsKnown' /\ InnerOK' /\ CallbacksOK'
    BY DEF ListsKnown, InnerOK, CallbacksOK, ReadySockets, Poll, Readable, Writable, Broken, TypeOK, QueueOK, ContextsOK, EventsOK, Fds
  <2>2. WritesOK' /\ ResetsOK'
    BY DEF WritesOK, ResetsOK, CallbacksOK, Served, Writable, Live, TypeOK, QueueOK, ContextsOK, EventsOK, Fds
  <2>3. AcceptsOK' /\ ExpiriesOK'
    BY DEF AcceptsOK, ExpiriesOK, Live, TypeOK, QueueOK, ContextsOK, EventsOK, Fds
  <2> QED
    BY <2>1, <2>2, <2>3 DEF RInv
<1>3. ASSUME NEW c \in Conns, AcceptOne(c) PROVE RInv'
  <2> USE <1>3 DEF AcceptOne, CallAgain, SetTimer
  <2>1. ListsKnown' /\ InnerOK' /\ CallbacksOK'
    BY DEF ListsKnown, InnerOK, CallbacksOK, ReadySockets, Poll, Readable, Writable, Broken, TypeOK, QueueOK, ContextsOK, EventsOK, Fds
  <2>2. WritesOK' /\ ResetsOK'
    BY DEF WritesOK, ResetsOK, CallbacksOK, Served, Writable, Live, TypeOK, QueueOK, ContextsOK, EventsOK, Fds
  <2>3. AcceptsOK' /\ ExpiriesOK'
    BY DEF AcceptsOK, ExpiriesOK, Live, TypeOK, QueueOK, ContextsOK, EventsOK, Fds
  <2> QED
    BY <2>1, <2>2, <2>3 DEF RInv
<1>4. ASSUME NEW c \in Conns, AcceptRefused(c) PROVE RInv'
  <2> USE <1>4 DEF AcceptRefused, CallAgain, epollVars, ctxVars
  <2>1. ListsKnown' /\ InnerOK' /\ CallbacksOK'
    BY DEF ListsKnown, InnerOK, CallbacksOK, ReadySockets, Poll, Readable, Writable, Broken, TypeOK, QueueOK, ContextsOK, EventsOK, Fds
  <2>2. WritesOK' /\ ResetsOK'
    BY DEF WritesOK, ResetsOK, CallbacksOK, Served, Writable, Live, TypeOK, QueueOK, ContextsOK, EventsOK, Fds
  <2>3. AcceptsOK' /\ ExpiriesOK'
    BY DEF AcceptsOK, ExpiriesOK, Live, TypeOK, QueueOK, ContextsOK, EventsOK, Fds
  <2> QED
    BY <2>1, <2>2, <2>3 DEF RInv
<1> QED
  BY <1>1, <1>2, <1>3, <1>4 DEF ServeAccept

-----------------------------------------------------------------------------
\* read_loop.
LEMMA ReadReadiness == IInv /\ RInv /\ (ServeRead) => RInv'
<1> SUFFICES ASSUME IInv, RInv, ServeRead PROVE RInv'
  OBVIOUS
<1> USE ConstantsAssumption DEF ConstantsAssumption, IInv, RInv
<1>1. ASSUME ReadData PROVE RInv'
  <2> USE <1>1 DEF ReadData, ArmRead, ArmWrite, ReadCallback, CallAgain, epollVars
  <2>1. ListsKnown' /\ InnerOK' /\ CallbacksOK'
    BY DEF ListsKnown, InnerOK, CallbacksOK, ReadySockets, Poll, Readable, Writable, Broken, TypeOK, QueueOK, ContextsOK, EventsOK, Fds
  <2>2. WritesOK' /\ ResetsOK'
    BY DEF WritesOK, ResetsOK, CallbacksOK, Served, Writable, Live, TypeOK, QueueOK, ContextsOK, EventsOK, Fds
  <2>3. AcceptsOK' /\ ExpiriesOK'
    BY DEF AcceptsOK, ExpiriesOK, Live, TypeOK, QueueOK, ContextsOK, EventsOK, Fds
  <2> QED
    BY <2>1, <2>2, <2>3 DEF RInv
<1>2. ASSUME ReadError PROVE RInv'
  <2> USE <1>2 DEF ReadError, netVars, epollVars, ctxVars
  <2>1. ListsKnown' /\ InnerOK' /\ CallbacksOK'
    BY DEF ListsKnown, InnerOK, CallbacksOK, ReadySockets, Poll, Readable, Writable, Broken, TypeOK, QueueOK, ContextsOK, EventsOK, Fds
  <2>2. WritesOK' /\ ResetsOK'
    BY DEF WritesOK, ResetsOK, CallbacksOK, Served, Writable, Live, TypeOK, QueueOK, ContextsOK, EventsOK, Fds
  <2>3. AcceptsOK' /\ ExpiriesOK'
    BY DEF AcceptsOK, ExpiriesOK, Live, TypeOK, QueueOK, ContextsOK, EventsOK, Fds
  <2> QED
    BY <2>1, <2>2, <2>3 DEF RInv
<1>3. ASSUME LeaveRead PROVE RInv'
  <2>1. /\ pc = "read"
        /\ ~rd[cur] \/ (inq[cur] = 0 /\ peer[cur] = "open")
        /\ UNCHANGED <<netVars, epollVars, ctxVars, terminated>>
        /\ \/ "OUT" \in events[cur] /\ pc' = "write" /\ UNCHANGED <<cur, events>>
           \/ "OUT" \notin events[cur] /\ NextEntry
    BY <1>3 DEF LeaveRead
  <2>2. cur \in Conns /\ ctx[cur] = "live" /\ Served(cur)
    BY <2>1 DEF EventsOK, ContextsOK, WritesOK, Fds
  <2>3. ListsKnown' /\ InnerOK' /\ CallbacksOK' /\ Live' = Live
    BY <2>1 DEF netVars, epollVars, ctxVars, NextEntry, ListsKnown, InnerOK, CallbacksOK, Live
  <2>4. CASE "OUT" \in events[cur]
    <3>1. peer[cur] = "reset" => wr[cur] # "none"
      BY <2>1, <2>2 DEF CallbacksOK
    <3>2. WritesOK' /\ ResetsOK'
      BY <2>1, <2>2, <2>3, <2>4, <3>1 DEF netVars, epollVars, ctxVars, WritesOK, ResetsOK, Served, Writable
    <3>3. AcceptsOK' /\ ExpiriesOK'
      BY <2>1, <2>3, <2>4 DEF netVars, epollVars, ctxVars, AcceptsOK, ExpiriesOK
    <3> QED
      BY <2>3, <3>2, <3>3 DEF RInv
  <2>5. CASE "OUT" \notin events[cur]
    <3>1. /\ pc' = "events" /\ cur' = Listen /\ events'[cur] = {}
          /\ \A f \in Fds \ {cur} : events'[f] = events[f]
      BY <2>1, <2>2, <2>5 DEF NextEntry, TypeOK, Fds
    <3>2. Writable(cur) => cur \in sockReady
      BY <2>1, <2>2, <2>5 DEF WritesOK, Live
    <3>3. WritesOK'
      BY <2>1, <2>3, <3>1, <3>2 DEF netVars, epollVars, ctxVars, WritesOK, Served, Writable, Live, Fds
    <3>4. ResetsOK'
      BY <2>1, <2>2, <2>3, <3>1, <3>2 DEF netVars, epollVars, ctxVars, ResetsOK, Served, Writable, Live, Fds
    <3>5. AcceptsOK' /\ ExpiriesOK'
      BY <2>1, <2>2, <2>3, <3>1, ConstantsAssumption
         DEF ConstantsAssumption, netVars, epollVars, ctxVars, AcceptsOK, ExpiriesOK, Live, Fds
    <3> QED
      BY <2>3, <3>3, <3>4, <3>5 DEF RInv
  <2> QED
    BY <2>4, <2>5
<1> QED
  BY <1>1, <1>2, <1>3 DEF ServeRead

-----------------------------------------------------------------------------
\* write_loop.
LEMMA WriteReadiness == IInv /\ RInv /\ (ServeWrite \/ CallbackExit) => RInv'
<1> SUFFICES ASSUME IInv, RInv, ServeWrite \/ CallbackExit PROVE RInv'
  OBVIOUS
<1> USE ConstantsAssumption DEF ConstantsAssumption, IInv, RInv
<1>1. ASSUME WriteData PROVE RInv'
  <2> USE <1>1 DEF WriteData, ArmRead, ArmWrite, WriteCallback, CallAgain, epollVars
  <2>1. ListsKnown' /\ InnerOK' /\ CallbacksOK'
    BY DEF ListsKnown, InnerOK, CallbacksOK, ReadySockets, Poll, Readable, Writable, Broken, TypeOK, QueueOK, ContextsOK, EventsOK, Fds
  <2>2. WritesOK' /\ ResetsOK'
    BY DEF WritesOK, ResetsOK, CallbacksOK, Served, Writable, Live, TypeOK, QueueOK, ContextsOK, EventsOK, Fds
  <2>3. AcceptsOK' /\ ExpiriesOK'
    BY DEF AcceptsOK, ExpiriesOK, Live, TypeOK, QueueOK, ContextsOK, EventsOK, Fds
  <2> QED
    BY <2>1, <2>2, <2>3 DEF RInv
<1>2. ASSUME WriteError PROVE RInv'
  <2> USE <1>2 DEF WriteError, netVars, epollVars, ctxVars
  <2>1. ListsKnown' /\ InnerOK' /\ CallbacksOK'
    BY DEF ListsKnown, InnerOK, CallbacksOK, ReadySockets, Poll, Readable, Writable, Broken, TypeOK, QueueOK, ContextsOK, EventsOK, Fds
  <2>2. WritesOK' /\ ResetsOK'
    BY DEF WritesOK, ResetsOK, CallbacksOK, Served, Writable, Live, TypeOK, QueueOK, ContextsOK, EventsOK, Fds
  <2>3. AcceptsOK' /\ ExpiriesOK'
    BY DEF AcceptsOK, ExpiriesOK, Live, TypeOK, QueueOK, ContextsOK, EventsOK, Fds
  <2> QED
    BY <2>1, <2>2, <2>3 DEF RInv
<1>3. ASSUME WriteNothing \/ CallbackExit PROVE RInv'
  <2> USE <1>3 DEF WriteNothing, CallbackExit, netVars, epollVars, ctxVars
  <2>1. ListsKnown' /\ InnerOK' /\ CallbacksOK'
    BY DEF ListsKnown, InnerOK, CallbacksOK, ReadySockets, Poll, Readable, Writable, Broken, TypeOK, QueueOK, ContextsOK, EventsOK, Fds
  <2>2. WritesOK' /\ ResetsOK'
    BY DEF WritesOK, ResetsOK, CallbacksOK, Served, Writable, Live, TypeOK, QueueOK, ContextsOK, EventsOK, Fds
  <2>3. AcceptsOK' /\ ExpiriesOK'
    BY DEF AcceptsOK, ExpiriesOK, Live, TypeOK, QueueOK, ContextsOK, EventsOK, Fds
  <2> QED
    BY <2>1, <2>2, <2>3 DEF RInv
<1>4. ASSUME LeaveWrite PROVE RInv'
  <2> USE <1>4 DEF LeaveWrite, NextEntry, netVars, epollVars, ctxVars
  <2>1. ListsKnown' /\ InnerOK' /\ CallbacksOK'
    BY DEF ListsKnown, InnerOK, CallbacksOK, ReadySockets, Poll, Readable, Writable, Broken, TypeOK, QueueOK, ContextsOK, EventsOK, Fds
  <2>2. WritesOK' /\ ResetsOK'
    BY DEF WritesOK, ResetsOK, CallbacksOK, Served, Writable, Live, TypeOK, QueueOK, ContextsOK, EventsOK, Fds
  <2>3. AcceptsOK' /\ ExpiriesOK'
    BY DEF AcceptsOK, ExpiriesOK, Live, TypeOK, QueueOK, ContextsOK, EventsOK, Fds
  <2> QED
    BY <2>1, <2>2, <2>3 DEF RInv
<1> QED
  BY <1>1, <1>2, <1>3, <1>4 DEF ServeWrite

-----------------------------------------------------------------------------
\* serve_sockets, but for the loops it calls.
LEMMA SocketsReadiness == IInv /\ RInv /\ (SocketsWait \/ EndSockets \/ CloseConnection
                      \/ \E f \in Fds : DispatchError(f) \/ DispatchAccept(f) \/ DispatchSocket(f)) => RInv'
<1> SUFFICES ASSUME IInv, RInv, SocketsWait \/ EndSockets \/ CloseConnection
                      \/ \E f \in Fds : DispatchError(f) \/ DispatchAccept(f) \/ DispatchSocket(f) PROVE RInv'
  OBVIOUS
<1> USE ConstantsAssumption DEF ConstantsAssumption, IInv, RInv
<1>1. ASSUME SocketsWait PROVE RInv'
  <2>1. PICK B \in SUBSET ReadySockets :
          /\ B # {}
          /\ \E bare \in SUBSET {f \in B : Broken(f)} :
               events' = [f \in Fds |-> IF f \in bare THEN {"ERR"}
                                        ELSE IF f \in B THEN Poll(f) ELSE {}]
          /\ sockReady' = ReadySockets \ B
          /\ masterReady' = IF NestedRewake /\ B # ReadySockets
                            THEN masterReady \cup {"socket"} ELSE masterReady
    BY <1>1 DEF SocketsWait
  <2>2. /\ pc = "socket" /\ pc' = "events" /\ events = NoEvents
        /\ UNCHANGED <<netVars, timerReady, ctxVars, terminated>>
    BY <1>1 DEF SocketsWait, EventsOK
  <2>3. ReadySockets \subseteq sockReady /\ ReadySockets \subseteq Fds
    BY DEF ReadySockets, TypeOK
  <2>4. \A f \in B : events'[f] = {"ERR"} \/ events'[f] = Poll(f)
    BY <2>1, <2>3
  <2>5. \A f \in Fds : events'[f] # {} <=> f \in B
    BY <2>1, <2>3 DEF ReadySockets
  <2>6. \A f \in sockReady : Poll(f) # {} => f \in sockReady' \/ events'[f] # {}
    BY <2>1, <2>3, <2>5 DEF ReadySockets
  <2>7. ListsKnown' /\ InnerOK' /\ CallbacksOK' /\ Live' = Live
    BY <2>1, <2>2 DEF ctxVars, ListsKnown, InnerOK, CallbacksOK, Live
  <2>8. \A c \in Live : /\ Writable(c) => "OUT" \in Poll(c)
                        /\ peer[c] = "reset" => "IN" \in Poll(c)
    BY ConstantsAssumption DEF ConstantsAssumption, Poll, Readable, Writable, Flags, Live
  <2>9. \A c \in Live : events[c] = {}
    BY <2>2 DEF NoEvents, Live, Fds
  <2>10. WritesOK'
    <3>1. \A c \in Live : wr[c] # "none" /\ Writable(c) => c \in sockReady' \/ events'[c] # {}
      BY <2>6, <2>8, <2>9 DEF WritesOK
    <3>2. \A c \in Live : events'[c] \notin {{}, {"ERR"}} /\ Writable(c) => "OUT" \in events'[c]
      BY <2>4, <2>5, <2>8 DEF Live, Fds
    <3> QED
      BY <2>2, <2>7, <3>1, <3>2 DEF netVars, ctxVars, WritesOK, Served, Writable
  <2>11. ResetsOK'
    <3>1. \A c \in Live : peer[c] = "reset" => c \in sockReady' \/ events'[c] # {}
      BY <2>6, <2>8, <2>9 DEF ResetsOK
    <3>2. \A c \in Live : events'[c] \notin {{}, {"ERR"}} /\ peer[c] = "reset" => "IN" \in events'[c]
      BY <2>4, <2>5, <2>8 DEF Live, Fds
    <3> QED
      BY <2>2, <2>7, <3>1, <3>2 DEF netVars, ResetsOK, Served
  <2>12. AcceptsOK'
    <3>1. backlog # {} => Poll(Listen) # {}
      BY DEF Poll, Readable, Flags
    <3> QED
      BY <2>2, <2>6, <3>1 DEF netVars, AcceptsOK, NoEvents, Fds
  <2>13. ExpiriesOK'
    BY <2>2, <2>7 DEF ctxVars, ExpiriesOK
  <2> QED
    BY <2>7, <2>10, <2>11, <2>12, <2>13 DEF RInv
<1>2. ASSUME NEW f \in Fds, DispatchError(f) PROVE RInv'
  <2> USE <1>2 DEF DispatchError, netVars, epollVars, ctxVars
  <2>1. ListsKnown' /\ InnerOK' /\ CallbacksOK'
    BY DEF ListsKnown, InnerOK, CallbacksOK, ReadySockets, Poll, Readable, Writable, Broken, TypeOK, QueueOK, ContextsOK, EventsOK, Fds
  <2>2. WritesOK' /\ ResetsOK'
    BY DEF WritesOK, ResetsOK, CallbacksOK, Served, Writable, Live, TypeOK, QueueOK, ContextsOK, EventsOK, Fds
  <2>3. AcceptsOK' /\ ExpiriesOK'
    BY DEF AcceptsOK, ExpiriesOK, Live, TypeOK, QueueOK, ContextsOK, EventsOK, Fds
  <2> QED
    BY <2>1, <2>2, <2>3 DEF RInv
<1>3. ASSUME NEW f \in Fds, DispatchAccept(f) PROVE RInv'
  <2> USE <1>3 DEF DispatchAccept, netVars, epollVars, ctxVars
  <2>1. ListsKnown' /\ InnerOK' /\ CallbacksOK'
    BY DEF ListsKnown, InnerOK, CallbacksOK, ReadySockets, Poll, Readable, Writable, Broken, TypeOK, QueueOK, ContextsOK, EventsOK, Fds
  <2>2. WritesOK' /\ ResetsOK'
    BY DEF WritesOK, ResetsOK, CallbacksOK, Served, Writable, Live, TypeOK, QueueOK, ContextsOK, EventsOK, Fds
  <2>3. AcceptsOK' /\ ExpiriesOK'
    BY DEF AcceptsOK, ExpiriesOK, Live, TypeOK, QueueOK, ContextsOK, EventsOK, Fds
  <2> QED
    BY <2>1, <2>2, <2>3 DEF RInv
<1>4. ASSUME NEW f \in Fds, DispatchSocket(f) PROVE RInv'
  <2> USE <1>4 DEF DispatchSocket, netVars, epollVars, ctxVars
  <2>1. ListsKnown' /\ InnerOK' /\ CallbacksOK'
    BY DEF ListsKnown, InnerOK, CallbacksOK, ReadySockets, Poll, Readable, Writable, Broken, TypeOK, QueueOK, ContextsOK, EventsOK, Fds
  <2>2. WritesOK' /\ ResetsOK'
    BY DEF WritesOK, ResetsOK, CallbacksOK, Served, Writable, Live, TypeOK, QueueOK, ContextsOK, EventsOK, Fds
  <2>3. AcceptsOK' /\ ExpiriesOK'
    BY DEF AcceptsOK, ExpiriesOK, Live, TypeOK, QueueOK, ContextsOK, EventsOK, Fds
  <2> QED
    BY <2>1, <2>2, <2>3 DEF RInv
<1>5. ASSUME EndSockets PROVE RInv'
  <2> USE <1>5 DEF EndSockets, netVars, epollVars, ctxVars
  <2>1. ListsKnown' /\ InnerOK' /\ CallbacksOK'
    BY DEF ListsKnown, InnerOK, CallbacksOK, ReadySockets, Poll, Readable, Writable, Broken, TypeOK, QueueOK, ContextsOK, EventsOK, Fds
  <2>2. WritesOK' /\ ResetsOK'
    BY DEF WritesOK, ResetsOK, CallbacksOK, Served, Writable, Live, TypeOK, QueueOK, ContextsOK, EventsOK, Fds
  <2>3. AcceptsOK' /\ ExpiriesOK'
    BY DEF AcceptsOK, ExpiriesOK, Live, TypeOK, QueueOK, ContextsOK, EventsOK, Fds
  <2> QED
    BY <2>1, <2>2, <2>3 DEF RInv
<1>6. ASSUME CloseConnection PROVE RInv'
  <2> USE <1>6 DEF CloseConnection, CleanupContext, CloseTimer, NextEntry, Freed
  <2>1. ListsKnown' /\ InnerOK' /\ CallbacksOK'
    BY DEF ListsKnown, InnerOK, CallbacksOK, ReadySockets, Poll, Readable, Writable, Broken, TypeOK, QueueOK, ContextsOK, EventsOK, Fds
  <2>2. WritesOK' /\ ResetsOK'
    BY DEF WritesOK, ResetsOK, CallbacksOK, Served, Writable, Live, TypeOK, QueueOK, ContextsOK, EventsOK, Fds
  <2>3. AcceptsOK' /\ ExpiriesOK'
    BY DEF AcceptsOK, ExpiriesOK, Live, TypeOK, QueueOK, ContextsOK, EventsOK, Fds
  <2> QED
    BY <2>1, <2>2, <2>3 DEF RInv
<1> QED
  BY <1>1, <1>2, <1>3, <1>4, <1>5, <1>6

-----------------------------------------------------------------------------
\* serve_timers.
LEMMA TimersReadiness == IInv /\ RInv /\ (ServeTimers) => RInv'
<1> SUFFICES ASSUME IInv, RInv, ServeTimers PROVE RInv'
  OBVIOUS
<1> USE ConstantsAssumption DEF ConstantsAssumption, IInv, RInv
<1>1. ASSUME TimersWait PROVE RInv'
  <2>1. PICK B \in SUBSET timerReady :
          /\ events' = [f \in Fds |-> IF f \in B THEN {"IN"} ELSE {}]
          /\ timerReady' = timerReady \ B
          /\ masterReady' = IF NestedRewake /\ B # timerReady
                            THEN masterReady \cup {"timer"} ELSE masterReady
    BY <1>1 DEF TimersWait
  <2>2. /\ pc = "timer" /\ pc' = "timerevents" /\ events = NoEvents
        /\ UNCHANGED <<netVars, sockReady, ctxVars, terminated>>
    BY <1>1 DEF TimersWait, EventsOK
  <2>3. \A f \in Fds : events[f] = {} /\ (events'[f] # {} <=> f \in B)
    BY <2>1, <2>2 DEF NoEvents
  <2>4. ListsKnown' /\ InnerOK' /\ CallbacksOK' /\ Live' = Live
    BY <2>1, <2>2 DEF ctxVars, ListsKnown, InnerOK, CallbacksOK, Live
  <2>5. WritesOK' /\ ResetsOK'
    BY <2>2, <2>3, <2>4 DEF netVars, ctxVars, WritesOK, ResetsOK, Writable, Live, Fds
  <2>6. AcceptsOK'
    BY <2>2, <2>3 DEF netVars, AcceptsOK, Fds
  <2>7. ExpiriesOK'
    BY <2>1, <2>2, <2>3, <2>4 DEF ctxVars, ExpiriesOK, Live, Fds
  <2> QED
    BY <2>4, <2>5, <2>6, <2>7 DEF RInv
<1>2. ASSUME EndTimers PROVE RInv'
  <2> USE <1>2 DEF EndTimers, netVars, epollVars, ctxVars
  <2>1. ListsKnown' /\ InnerOK' /\ CallbacksOK'
    BY DEF ListsKnown, InnerOK, CallbacksOK, ReadySockets, Poll, Readable, Writable, Broken, TypeOK, QueueOK, ContextsOK, EventsOK, Fds
  <2>2. WritesOK' /\ ResetsOK'
    BY DEF NoEvents, WritesOK, ResetsOK, CallbacksOK, Served, Writable, Live, TypeOK, QueueOK, ContextsOK, EventsOK, Fds
  <2>3. AcceptsOK' /\ ExpiriesOK'
    BY DEF NoEvents, AcceptsOK, ExpiriesOK, Live, TypeOK, QueueOK, ContextsOK, EventsOK, Fds
  <2> QED
    BY <2>1, <2>2, <2>3 DEF RInv
<1>3. ASSUME NEW c \in Conns, TimerEvent(c) PROVE RInv'
  <2> USE <1>3 DEF TimerEvent, CleanupContext, CloseTimer, Freed
  <2>1. ListsKnown' /\ InnerOK' /\ CallbacksOK'
    BY DEF ListsKnown, InnerOK, CallbacksOK, ReadySockets, Poll, Readable, Writable, Broken, TypeOK, QueueOK, ContextsOK, EventsOK, Fds
  <2>2. WritesOK' /\ ResetsOK'
    BY DEF WritesOK, ResetsOK, CallbacksOK, Served, Writable, Live, TypeOK, QueueOK, ContextsOK, EventsOK, Fds
  <2>3. AcceptsOK' /\ ExpiriesOK'
    BY DEF AcceptsOK, ExpiriesOK, Live, TypeOK, QueueOK, ContextsOK, EventsOK, Fds
  <2> QED
    BY <2>1, <2>2, <2>3 DEF RInv
<1> QED
  BY <1>1, <1>2, <1>3 DEF ServeTimers

-----------------------------------------------------------------------------
LEMMA NextRInv == IInv /\ RInv /\ [Next]_vars => RInv'
<1> SUFFICES ASSUME IInv, RInv, [Next]_vars PROVE RInv'
  OBVIOUS
<1>1. CASE Environment
  BY <1>1, EnvironmentReadiness
<1>2. CASE Worker
  BY <1>2, TopReadiness, AcceptReadiness, ReadReadiness, WriteReadiness,
     SocketsReadiness, TimersReadiness DEF Worker, ServeSockets
<1>3. CASE UNCHANGED vars
  BY <1>3 DEF vars, netVars, epollVars, ctxVars, loopVars, RInv, ListsKnown, InnerOK, CallbacksOK,
              WritesOK, ResetsOK, AcceptsOK, ExpiriesOK, Served, Live, ReadySockets, Poll,
              Readable, Writable, Broken
<1> QED
  BY <1>1, <1>2, <1>3 DEF Next

LEMMA InductiveReadiness == Spec => []RInv
BY Inductive, InitRInv, NextRInv, PTL DEF Spec

\* serve never blocks in an inner epoll_wait, unless another process accepts
\* from the same listening socket.
THEOREM InnerWaits == Spec => []OnlySharingBlocks
<1>1. RInv => OnlySharingBlocks
  BY DEF RInv, InnerOK, OnlySharingBlocks, InnerWaitNeverBlocks
<1> QED
  BY <1>1, InductiveReadiness, PTL

\* No edge of EPOLLOUT is lost: an unfinished response with room in the send
\* buffer is in the ready list at the top of the loop.
THEOREM WritesGoOn == Spec => []WriteNeverStalls
<1>1. IInv /\ RInv => WriteNeverStalls
  BY DEF IInv, EventsOK, NoEvents, RInv, ListsKnown, WritesOK, WriteNeverStalls, Live, Fds
<1> QED
  BY <1>1, Inductive, InductiveReadiness, PTL

\* No reset is lost.
THEOREM ResetsSeen == Spec => []ResetNeverMissed
<1>1. IInv /\ RInv => ResetNeverMissed
  BY DEF IInv, EventsOK, NoEvents, RInv, ListsKnown, ResetsOK, ResetNeverMissed, Live, Fds
<1> QED
  BY <1>1, Inductive, InductiveReadiness, PTL

\* While accept() does not fail, no connection is left in the accept queue.
THEOREM AcceptsGoOn == Spec => []AcceptNeverStalls
<1>1. IInv /\ RInv => AcceptNeverStalls
  BY DEF IInv, EventsOK, NoEvents, RInv, ListsKnown, AcceptsOK, AcceptNeverStalls, Fds
<1> QED
  BY <1>1, Inductive, InductiveReadiness, PTL

\* No expired timer is lost.
THEOREM ExpiriesSeen == Spec => []ExpiryNeverMissed
<1>1. IInv /\ RInv => ExpiryNeverMissed
  BY DEF RInv, ListsKnown, ExpiriesOK, ExpiryNeverMissed
<1> QED
  BY <1>1, Inductive, InductiveReadiness, PTL

-----------------------------------------------------------------------------
\* A step that loses an edge of EPOLLIN ends a response.
LEMMA LosingStep ==
  ASSUME IInv, RInv, [Next]_vars, NEW c \in Conns, Unheard(c)', ~Unheard(c)
  PROVE  pc = "write" /\ cur = c /\ wr[c] # "none" /\ inq[c] > 0
<1> USE DEF Unheard, WillBeServed
<1>0. /\ TypeOK /\ ContextsOK /\ EventsOK /\ QueueOK /\ c \in Fds /\ c # Listen
      /\ rd[c] <=> ctx[c] = "live" /\ wr[c] = "none"
      /\ pc \in {"read", "write"} => events[cur] \notin {{}, {"ERR"}}
  BY ConstantsAssumption DEF IInv, RInv, CallbacksOK, WritesOK, Served, ConstantsAssumption, Fds
<1> USE <1>0 DEF TypeOK
<1>1. CASE Environment
  <2>1. ASSUME NEW d \in Conns, Connect(d) \/ ClientSend(d) \/ ClientDrain(d)
                               \/ ClientEnd(d, "fin") \/ ClientEnd(d, "reset")
        PROVE  FALSE
    BY <2>1 DEF Connect, ClientSend, ClientDrain, ClientEnd, Notify, ctxVars, loopVars, ContextsOK
  <2>2. ASSUME NEW d \in Conns, TimerExpire(d) \/ OtherAccepts(d) PROVE FALSE
    BY <2>2 DEF TimerExpire, OtherAccepts, netVars, epollVars, ctxVars, loopVars
  <2>3. CASE SendQuit
    BY <2>3 DEF SendQuit, netVars, ctxVars, loopVars
  <2> QED
    BY <1>1, <2>1, <2>2, <2>3 DEF Environment
<1>2. CASE Exit \/ HandleQuit \/ \E e \in {"socket", "timer", "signal"} : MasterWait(e)
  BY <1>2 DEF Exit, HandleQuit, MasterWait, netVars, epollVars, ctxVars
<1>3. CASE SocketsWait
  <2>1. c \in sockReady
    BY <1>3 DEF SocketsWait, netVars, ctxVars, EventsOK, NoEvents
  <2>2. c \in ReadySockets /\ "IN" \in Poll(c)
    BY <1>3, <2>1 DEF SocketsWait, netVars, ctxVars, ReadySockets, Poll, Readable, Flags
  <2> QED
    BY <1>3, <2>2 DEF SocketsWait, netVars, ctxVars
<1>4. ASSUME NEW f \in Fds, DispatchError(f) \/ DispatchAccept(f) \/ DispatchSocket(f) PROVE FALSE
  BY <1>4 DEF DispatchError, DispatchAccept, DispatchSocket, netVars, epollVars, ctxVars
<1>5. CASE ServeAccept
  <2>1. ASSUME NEW d \in Conns, AcceptOne(d) \/ AcceptRefused(d) PROVE FALSE
    BY <1>0, <2>1 DEF AcceptOne, AcceptRefused, SetTimer, CallAgain, epollVars, ctxVars
  <2>2. CASE AcceptStop \/ AcceptExit
    BY <2>2 DEF AcceptStop, AcceptExit, NextEntry, netVars, epollVars, ctxVars, EventsOK
  <2> QED
    BY <1>5, <2>1, <2>2 DEF ServeAccept
<1>6. CASE ServeRead
  <2>1. CASE ReadData
    BY <2>1 DEF ReadData, ReadCallback, ArmRead, ArmWrite, CallAgain, epollVars, EventsOK
  <2>2. CASE ReadError
    BY <2>2 DEF ReadError, netVars, epollVars, ctxVars
  <2>3. CASE LeaveRead
    BY <2>3 DEF LeaveRead, NextEntry, netVars, epollVars, ctxVars, EventsOK
  <2> QED
    BY <1>6, <2>1, <2>2, <2>3 DEF ServeRead
<1>7. CASE ServeWrite \/ CallbackExit
  <2>1. CASE WriteData
    <3>1. inq' = inq /\ cur' = cur /\ pc' = pc /\ events' = events /\ sockReady' = sockReady /\ ctx' = ctx
      BY <2>1 DEF WriteData, CallAgain, epollVars
    <3>2. c = cur
      BY <2>1, <3>1 DEF WriteData, WriteCallback, ArmRead, ArmWrite, EventsOK
    <3> QED
      BY <2>1, <3>1, <3>2 DEF WriteData
  <2>2. CASE WriteError \/ WriteNothing \/ LeaveWrite \/ CallbackExit
    BY <2>2 DEF WriteError, WriteNothing, LeaveWrite, CallbackExit, NextEntry, netVars, epollVars, ctxVars, EventsOK
  <2> QED
    BY <1>7, <2>1, <2>2 DEF ServeWrite
<1>8. CASE CloseConnection
  BY <1>8 DEF CloseConnection, CleanupContext, CloseTimer, NextEntry, Freed, EventsOK
<1>9. CASE EndSockets
  BY <1>9 DEF EndSockets, netVars, epollVars, ctxVars
<1>10. CASE ServeTimers
  <2>1. ASSUME NEW d \in Conns, TimerEvent(d) PROVE FALSE
    BY <2>1 DEF TimerEvent, CleanupContext, CloseTimer, Freed
  <2>2. CASE TimersWait
    BY <2>2 DEF TimersWait, netVars, ctxVars, EventsOK, NoEvents
  <2>3. CASE EndTimers
    BY <2>3 DEF EndTimers, netVars, epollVars, ctxVars
  <2> QED
    BY <1>10, <2>1, <2>2, <2>3 DEF ServeTimers
<1>11. CASE UNCHANGED vars
  BY <1>11 DEF vars, netVars, epollVars, ctxVars, loopVars
<1> QED
  BY <1>1, <1>2, <1>3, <1>4, <1>5, <1>6, <1>7, <1>8, <1>9, <1>10, <1>11
     DEF Next, Worker, ServeSockets

\* Whoever waits for the response before asking again is heard: only data that
\* comes while a response is written loses its edge.
THEOREM ReadsGoOn == Spec => OnlyPipelinedUnheard
<1>1. IInv /\ RInv /\ [Next]_vars
        => [\A c \in Conns : Unheard(c)' /\ ~Unheard(c)
                               => pc = "write" /\ cur = c /\ wr[c] # "none" /\ inq[c] > 0]_vars
  BY LosingStep
<1> QED
  BY <1>1, Inductive, InductiveReadiness, PTL DEF Spec, OnlyPipelinedUnheard
==============================================================================
