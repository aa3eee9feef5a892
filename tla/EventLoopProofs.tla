--------------------------- MODULE EventLoopProofs ---------------------------
(***************************************************************************)
(* Theorems about EventLoop for every value of its constants: the types,   *)
(* the memory safety of the contexts, the client count, the drained exit   *)
(* and the refinement of ConnectionPool.                                   *)
(*                                                                         *)
(* None of the invariants is inductive alone: that a pending entry points  *)
(* to an allocated context rests on which contexts the epoll sets still    *)
(* know (ContextsOK), on where in the loop entries can be pending at all   *)
(* (EventsOK), on a connection entering the accept queue once (QueueOK)    *)
(* and on SIGQUIT being handled once (QuitOK).                             *)
(***************************************************************************)
EXTENDS EventLoop, TLAPS, FiniteSetTheorems

\* A descriptor is in the socket set exactly while its context is allocated,
\* and what the ready lists hold belongs to such a context.
ContextsOK ==
  /\ \A f \in Fds : ctx[f] # "corrupt" /\ (f \in watched <=> ctx[f] = "live")
  /\ Listen \in watched <=> ~terminated
  /\ sockReady \subseteq watched
  /\ \A c \in Conns : timer[c] = "off" <=> ctx[c] # "live"
  /\ \A c \in timerReady : timer[c] = "expired"

\* A connection is queued at most once, and before it has a context.
QueueOK ==
  /\ \A c \in Conns : peer[c] = "idle" => c \notin backlog /\ ctx[c] = "none"
  /\ \A c \in backlog : ctx[c] = "none"

\* Where entries of events[] may be pending, and for which descriptors.
EventsOK ==
  /\ \A f \in Fds : events[f] # {} => f \in watched
  /\ events[Listen] \subseteq {"IN"}
  /\ pc \in {"master", "socket", "timer", "signal", "exited"} => events = NoEvents
  /\ pc = "timerevents" => events[Listen] = {}
  /\ pc = "accept" => cur = Listen
  /\ pc \in {"read", "write", "close"} => cur \in Conns
  /\ pc \in {"accept", "read", "write", "close"} => events[cur] # {}

\* SIGQUIT reaches the loop once.
QuitOK ==
  /\ terminated => quitPending
  /\ "signal" \in masterReady \/ pc = "signal" => quitPending /\ ~terminated
  /\ ~("signal" \in masterReady /\ pc = "signal")
  /\ pc = "exited" => terminated /\ current_clients = 0

IInv == TypeOK /\ ContextsOK /\ QueueOK /\ EventsOK /\ QuitOK /\ ClientsCounted

-----------------------------------------------------------------------------
\* The number of clients stays right while no context changes ...
LEMMA SameClients ==
  ASSUME ClientsCounted, current_clients' = current_clients,
         \A c \in Conns : ctx'[c] = ctx[c]
  PROVE  ClientsCounted'
<1>1. Live' = Live
  BY DEF Live
<1> QED
  BY <1>1 DEF ClientsCounted

\* ... when a context is allocated ...
LEMMA OneMoreClient ==
  ASSUME TypeOK, ClientsCounted, NEW c \in Conns, ctx[c] # "live",
         ctx' = [ctx EXCEPT ![c] = "live"], current_clients' = current_clients + 1
  PROVE  ClientsCounted' /\ current_clients' \in Nat
<1>1. Live' = Live \cup {c} /\ c \notin Live
  BY DEF Live, TypeOK, Fds
<1>2. IsFiniteSet(Live)
  BY FS_Subset, ConstantsAssumption DEF ConstantsAssumption, Live
<1>3. Cardinality(Live') = Cardinality(Live) + 1
  BY <1>1, <1>2, FS_AddElement
<1> QED
  BY <1>3 DEF ClientsCounted, TypeOK

\* ... and when one is freed.
LEMMA OneLessClient ==
  ASSUME TypeOK, ClientsCounted, NEW c \in Conns, ctx[c] = "live",
         ctx' = [ctx EXCEPT ![c] = "freed"], current_clients' = current_clients - 1
  PROVE  ClientsCounted' /\ current_clients' \in Nat
<1>1. Live' = Live \ {c} /\ c \in Live
  BY DEF Live, TypeOK, Fds
<1>2. IsFiniteSet(Live) /\ IsFiniteSet(Live')
  BY FS_Subset, ConstantsAssumption DEF ConstantsAssumption, Live
<1>3. Cardinality(Live') = Cardinality(Live) - 1 /\ Cardinality(Live') \in Nat
  BY <1>1, <1>2, FS_RemoveElement, FS_CardinalityType
<1> QED
  BY <1>3 DEF ClientsCounted

LEMMA Bounds ==
  /\ 0 \in 0 .. MaxIn /\ 0 \in 0 .. MaxRoom /\ MaxRoom \in 0 .. MaxRoom
  /\ \A n \in 0 .. MaxIn : n < MaxIn => n + 1 \in 0 .. MaxIn
  /\ \A n \in 0 .. MaxIn : \A k \in 1 .. n : n - k \in 0 .. MaxIn
  /\ \A n \in 0 .. MaxRoom : \A k \in Nat : k <= n => n - k \in 0 .. MaxRoom
BY ConstantsAssumption DEF ConstantsAssumption

LEMMA CallbackTypes ==
  ASSUME TypeOK, NEW c \in Conns, ReadCallback(c) \/ WriteCallback(c)
  PROVE  /\ rd' \in [Conns -> BOOLEAN]
         /\ wr' \in [Conns -> {"none", "basic", "sendfile"}]
         /\ out' \in [Conns -> Nat]
<1>1. CASE ArmRead(c)
  BY <1>1 DEF ArmRead, TypeOK
<1>2. ASSUME NEW wtype \in {"basic", "sendfile"}, NEW n \in Nat, ArmWrite(c, wtype, n)
      PROVE  /\ rd' \in [Conns -> BOOLEAN]
             /\ wr' \in [Conns -> {"none", "basic", "sendfile"}]
             /\ out' \in [Conns -> Nat]
  BY <1>2 DEF ArmWrite, TypeOK
<1>3. HeaderSize \in Nat /\ SendSizes \subseteq Nat
  BY ConstantsAssumption DEF ConstantsAssumption
<1> QED
  BY <1>1, <1>2, <1>3 DEF ReadCallback, WriteCallback

LEMMA InitIInv == Init => IInv
<1> SUFFICES ASSUME Init PROVE IInv
  OBVIOUS
<1> USE ConstantsAssumption DEF ConstantsAssumption, Init
<1>1. TypeOK
  <2>1. /\ peer \in [Conns -> {"idle", "open", "fin", "reset", "gone"}]
        /\ inq \in [Conns -> 0 .. MaxIn]
        /\ room \in [Conns -> 0 .. MaxRoom]
    BY Bounds
  <2>2. /\ ctx \in [Fds -> {"none", "live", "freed", "corrupt"}]
        /\ events \in [Fds -> SUBSET Flags]
    BY DEF NoEvents
  <2>3. /\ rd \in [Conns -> BOOLEAN]
        /\ wr \in [Conns -> {"none", "basic", "sendfile"}]
        /\ out \in [Conns -> Nat]
        /\ timer \in [Conns -> {"off", "armed", "expired"}]
    OBVIOUS
  <2>4. cur \in Fds /\ watched \subseteq Fds
    BY DEF Fds
  <2> QED
    BY <2>1, <2>2, <2>3, <2>4 DEF TypeOK
<1>2. ContextsOK /\ QueueOK /\ EventsOK /\ QuitOK
  BY DEF ContextsOK, QueueOK, EventsOK, QuitOK, NoEvents, Fds
<1>3. Live = {}
  BY DEF Live, Fds
<1>4. ClientsCounted
  BY <1>3, FS_EmptySet DEF ClientsCounted
<1> QED
  BY <1>1, <1>2, <1>4 DEF IInv

-----------------------------------------------------------------------------
\* Clients, timers and signals.
LEMMA EnvironmentStep == IInv /\ Environment => IInv'
<1> SUFFICES ASSUME IInv, Environment PROVE IInv'
  OBVIOUS
<1> USE ConstantsAssumption DEF ConstantsAssumption, IInv
<1>1. ASSUME NEW c \in Conns, Connect(c) PROVE IInv'
  <2> USE <1>1 DEF Connect, Notify, ctxVars, loopVars
  <2>1. TypeOK'
    BY Bounds DEF TypeOK, Fds, Flags
  <2>2. ContextsOK' /\ QueueOK' /\ EventsOK' /\ QuitOK'
    BY DEF TypeOK, ContextsOK, QueueOK, EventsOK, QuitOK, Fds
  <2> QED
    BY <2>1, <2>2, SameClients
<1>2. ASSUME NEW c \in Conns, ClientSend(c) PROVE IInv'
  <2> USE <1>2 DEF ClientSend, Notify, ctxVars, loopVars
  <2>1. TypeOK'
    BY Bounds DEF TypeOK, Fds, Flags
  <2>2. ContextsOK' /\ QueueOK' /\ EventsOK' /\ QuitOK'
    BY DEF TypeOK, ContextsOK, QueueOK, EventsOK, QuitOK, Fds
  <2> QED
    BY <2>1, <2>2, SameClients
<1>3. ASSUME NEW c \in Conns, ClientDrain(c) PROVE IInv'
  <2> USE <1>3 DEF ClientDrain, Notify, ctxVars, loopVars
  <2>1. TypeOK'
    BY Bounds DEF TypeOK, Fds, Flags
  <2>2. ContextsOK' /\ QueueOK' /\ EventsOK' /\ QuitOK'
    BY DEF TypeOK, ContextsOK, QueueOK, EventsOK, QuitOK, Fds
  <2> QED
    BY <2>1, <2>2, SameClients
<1>4. ASSUME NEW c \in Conns, NEW how \in {"fin", "reset"}, ClientEnd(c, how) PROVE IInv'
  <2> USE <1>4 DEF ClientEnd, Notify, ctxVars, loopVars
  <2>1. TypeOK'
    BY Bounds DEF TypeOK, Fds, Flags
  <2>2. ContextsOK' /\ QueueOK' /\ EventsOK' /\ QuitOK'
    BY DEF TypeOK, ContextsOK, QueueOK, EventsOK, QuitOK, Fds
  <2> QED
    BY <2>1, <2>2, SameClients
<1>5. ASSUME NEW c \in Conns, TimerExpire(c) PROVE IInv'
  <2> USE <1>5 DEF TimerExpire, netVars, loopVars
  <2>1. TypeOK'
    BY Bounds DEF TypeOK, Fds, Flags
  <2>2. ContextsOK' /\ QueueOK' /\ EventsOK' /\ QuitOK'
    BY DEF TypeOK, ContextsOK, QueueOK, EventsOK, QuitOK, Fds
  <2> QED
    BY <2>1, <2>2, SameClients
<1>6. ASSUME NEW c \in Conns, OtherAccepts(c) PROVE IInv'
  <2> USE <1>6 DEF OtherAccepts, epollVars, ctxVars, loopVars
  <2>1. TypeOK'
    BY Bounds DEF TypeOK, Fds, Flags
  <2>2. ContextsOK' /\ QueueOK' /\ EventsOK' /\ QuitOK'
    BY DEF TypeOK, ContextsOK, QueueOK, EventsOK, QuitOK, Fds
  <2> QED
    BY <2>1, <2>2, SameClients
<1>7. ASSUME SendQuit PROVE IInv'
  <2> USE <1>7 DEF SendQuit, netVars, ctxVars, loopVars
  <2>1. TypeOK'
    BY Bounds DEF TypeOK, Fds, Flags
  <2>2. ContextsOK' /\ QueueOK' /\ EventsOK' /\ QuitOK'
    BY DEF TypeOK, ContextsOK, QueueOK, EventsOK, QuitOK, Fds
  <2> QED
    BY <2>1, <2>2, SameClients
<1> QED
  BY <1>1, <1>2, <1>3, <1>4, <1>5, <1>6, <1>7 DEF Environment

-----------------------------------------------------------------------------
\* The top of the loop.
LEMMA TopStep == IInv /\ (Exit \/ HandleQuit \/ \E e \in {"socket", "timer", "signal"} : MasterWait(e)) => IInv'
<1> SUFFICES ASSUME IInv, Exit \/ HandleQuit \/ \E e \in {"socket", "timer", "signal"} : MasterWait(e) PROVE IInv'
  OBVIOUS
<1> USE ConstantsAssumption DEF ConstantsAssumption, IInv
<1>1. ASSUME NEW e \in {"socket", "timer", "signal"}, MasterWait(e) PROVE IInv'
  <2> USE <1>1 DEF MasterWait, MayStop, MasterEvents, netVars, ctxVars
  <2>1. TypeOK'
    BY Bounds DEF TypeOK, Fds, Flags
  <2>2. ContextsOK' /\ QueueOK' /\ EventsOK' /\ QuitOK'
    BY DEF TypeOK, ContextsOK, QueueOK, EventsOK, QuitOK, Fds
  <2> QED
    BY <2>1, <2>2, SameClients
<1>2. ASSUME Exit PROVE IInv'
  <2> USE <1>2 DEF Exit, MayStop, netVars, epollVars, ctxVars
  <2>1. TypeOK'
    BY Bounds DEF TypeOK, Fds, Flags
  <2>2. ContextsOK' /\ QueueOK' /\ EventsOK' /\ QuitOK'
    BY DEF TypeOK, ContextsOK, QueueOK, EventsOK, QuitOK, Fds
  <2> QED
    BY <2>1, <2>2, SameClients
<1>3. ASSUME HandleQuit PROVE IInv'
  <2> USE <1>3 DEF HandleQuit, Freed, netVars
  <2>1. TypeOK'
    BY Bounds DEF TypeOK, Fds, Flags
  <2>2. ContextsOK' /\ QueueOK' /\ EventsOK' /\ QuitOK'
    BY DEF TypeOK, ContextsOK, QueueOK, EventsOK, QuitOK, Fds, NoEvents
  <2>3. \A c \in Conns : ctx'[c] = ctx[c]
    BY DEF TypeOK, Fds
  <2> QED
    BY <2>1, <2>2, <2>3, SameClients
<1> QED
  BY <1>1, <1>2, <1>3

-----------------------------------------------------------------------------
\* accept_loop.
LEMMA AcceptStep == IInv /\ ServeAccept => IInv'
<1> SUFFICES ASSUME IInv, ServeAccept PROVE IInv'
  OBVIOUS
<1> USE ConstantsAssumption DEF ConstantsAssumption, IInv
<1>1. ASSUME AcceptStop PROVE IInv'
  <2> USE <1>1 DEF AcceptStop, NextEntry, netVars, epollVars, ctxVars
  <2>1. TypeOK'
    BY Bounds DEF TypeOK, Fds, Flags
  <2>2. ContextsOK' /\ QueueOK' /\ EventsOK' /\ QuitOK'
    BY DEF TypeOK, ContextsOK, QueueOK, EventsOK, QuitOK, Fds
  <2> QED
    BY <2>1, <2>2, SameClients
<1>2. ASSUME AcceptExit PROVE IInv'
  <2> USE <1>2 DEF AcceptExit, netVars, epollVars, ctxVars
  <2>1. TypeOK'
    BY Bounds DEF TypeOK, Fds, Flags
  <2>2. ContextsOK' /\ QueueOK' /\ EventsOK' /\ QuitOK'
    BY DEF TypeOK, ContextsOK, QueueOK, EventsOK, QuitOK, Fds
  <2> QED
    BY <2>1, <2>2, SameClients
<1>3. ASSUME NEW c \in Conns, AcceptOne(c) PROVE IInv'
  <2> USE <1>3 DEF AcceptOne, CallAgain, SetTimer
  <2>0. ClientsCounted' /\ current_clients' \in Nat
    BY OneMoreClient DEF QueueOK
  <2>1. TypeOK'
    BY <2>0, Bounds DEF TypeOK, Fds, Flags
  <2>2. ContextsOK' /\ QueueOK' /\ EventsOK' /\ QuitOK'
    BY DEF TypeOK, ContextsOK, QueueOK, EventsOK, QuitOK, Fds
  <2> QED
    BY <2>1, <2>2, <2>0
<1>4. ASSUME NEW c \in Conns, AcceptRefused(c) PROVE IInv'
  <2> USE <1>4 DEF AcceptRefused, CallAgain, epollVars, ctxVars
  <2>1. TypeOK'
    BY Bounds DEF TypeOK, Fds, Flags
  <2>2. ContextsOK' /\ QueueOK' /\ EventsOK' /\ QuitOK'
    BY DEF TypeOK, ContextsOK, QueueOK, EventsOK, QuitOK, Fds
  <2> QED
    BY <2>1, <2>2, SameClients
<1> QED
  BY <1>1, <1>2, <1>3, <1>4 DEF ServeAccept

-----------------------------------------------------------------------------
\* read_loop.
LEMMA ReadStep == IInv /\ ServeRead => IInv'
<1> SUFFICES ASSUME IInv, ServeRead PROVE IInv'
  OBVIOUS
<1> USE ConstantsAssumption DEF ConstantsAssumption, IInv
<1>1. ASSUME ReadData PROVE IInv'
  <2> USE <1>1 DEF ReadData, ArmRead, ArmWrite, ReadCallback, WriteCallback, CallAgain, epollVars
  <2>a. cur \in Conns
    BY DEF EventsOK
  <2>b. inq' \in [Conns -> 0 .. MaxIn]
    BY <2>a, Bounds DEF TypeOK
  <2>c. /\ rd' \in [Conns -> BOOLEAN]
        /\ wr' \in [Conns -> {"none", "basic", "sendfile"}]
        /\ out' \in [Conns -> Nat]
    BY <2>a, CallbackTypes
  <2>1. TypeOK'
    BY <2>b, <2>c DEF TypeOK
  <2>2. ContextsOK' /\ QueueOK' /\ EventsOK' /\ QuitOK'
    BY DEF TypeOK, ContextsOK, QueueOK, EventsOK, QuitOK, Fds
  <2> QED
    BY <2>1, <2>2, SameClients
<1>2. ASSUME ReadError PROVE IInv'
  <2> USE <1>2 DEF ReadError, netVars, epollVars, ctxVars
  <2>1. TypeOK'
    BY Bounds DEF TypeOK, Fds, Flags
  <2>2. ContextsOK' /\ QueueOK' /\ EventsOK' /\ QuitOK'
    BY DEF TypeOK, ContextsOK, QueueOK, EventsOK, QuitOK, Fds
  <2> QED
    BY <2>1, <2>2, SameClients
<1>3. ASSUME LeaveRead PROVE IInv'
  <2> USE <1>3 DEF LeaveRead, NextEntry, netVars, epollVars, ctxVars
  <2>1. TypeOK'
    BY Bounds DEF TypeOK, Fds, Flags
  <2>2. ContextsOK' /\ QueueOK' /\ EventsOK' /\ QuitOK'
    BY DEF TypeOK, ContextsOK, QueueOK, EventsOK, QuitOK, Fds
  <2> QED
    BY <2>1, <2>2, SameClients
<1> QED
  BY <1>1, <1>2, <1>3 DEF ServeRead

-----------------------------------------------------------------------------
\* write_loop.
LEMMA WriteStep == IInv /\ (ServeWrite \/ CallbackExit) => IInv'
<1> SUFFICES ASSUME IInv, ServeWrite \/ CallbackExit PROVE IInv'
  OBVIOUS
<1> USE ConstantsAssumption DEF ConstantsAssumption, IInv
<1>1. ASSUME WriteData PROVE IInv'
  <2> USE <1>1 DEF WriteData, ArmRead, ArmWrite, ReadCallback, WriteCallback, CallAgain, epollVars
  <2>a. cur \in Conns
    BY DEF EventsOK
  <2>b. PICK n \in 1 .. out[cur] :
          /\ n <= room[cur]
          /\ room' = [room EXCEPT ![cur] = @ - n]
          /\ IF n = out[cur] THEN WriteCallback(cur)
             ELSE out' = [out EXCEPT ![cur] = @ - n] /\ UNCHANGED <<rd, wr>>
    OBVIOUS
  <2>c. n \in Nat /\ out[cur] \in Nat /\ out[cur] - n \in Nat
    BY <2>a, <2>b DEF TypeOK
  <2>d. room' \in [Conns -> 0 .. MaxRoom]
    BY <2>a, <2>b, <2>c, Bounds DEF TypeOK
  <2>e. /\ rd' \in [Conns -> BOOLEAN]
        /\ wr' \in [Conns -> {"none", "basic", "sendfile"}]
        /\ out' \in [Conns -> Nat]
    <3>1. CASE n = out[cur]
      BY <2>a, <2>b, <3>1, CallbackTypes
    <3>2. CASE n # out[cur]
      BY <2>a, <2>b, <2>c, <3>2 DEF TypeOK
    <3> QED
      BY <3>1, <3>2
  <2>1. TypeOK'
    BY <2>d, <2>e DEF TypeOK
  <2>2. ContextsOK' /\ QueueOK' /\ EventsOK' /\ QuitOK'
    BY DEF TypeOK, ContextsOK, QueueOK, EventsOK, QuitOK, Fds
  <2> QED
    BY <2>1, <2>2, SameClients
<1>2. ASSUME WriteError PROVE IInv'
  <2> USE <1>2 DEF WriteError, netVars, epollVars, ctxVars
  <2>1. TypeOK'
    BY Bounds DEF TypeOK, Fds, Flags
  <2>2. ContextsOK' /\ QueueOK' /\ EventsOK' /\ QuitOK'
    BY DEF TypeOK, ContextsOK, QueueOK, EventsOK, QuitOK, Fds
  <2> QED
    BY <2>1, <2>2, SameClients
<1>3. ASSUME WriteNothing \/ CallbackExit PROVE IInv'
  <2> USE <1>3 DEF WriteNothing, CallbackExit, netVars, epollVars, ctxVars
  <2>1. TypeOK'
    BY Bounds DEF TypeOK, Fds, Flags
  <2>2. ContextsOK' /\ QueueOK' /\ EventsOK' /\ QuitOK'
    BY DEF TypeOK, ContextsOK, QueueOK, EventsOK, QuitOK, Fds
  <2> QED
    BY <2>1, <2>2, SameClients
<1>4. ASSUME LeaveWrite PROVE IInv'
  <2> USE <1>4 DEF LeaveWrite, NextEntry, netVars, epollVars, ctxVars
  <2>1. TypeOK'
    BY Bounds DEF TypeOK, Fds, Flags
  <2>2. ContextsOK' /\ QueueOK' /\ EventsOK' /\ QuitOK'
    BY DEF TypeOK, ContextsOK, QueueOK, EventsOK, QuitOK, Fds
  <2> QED
    BY <2>1, <2>2, SameClients
<1> QED
  BY <1>1, <1>2, <1>3, <1>4 DEF ServeWrite

-----------------------------------------------------------------------------
\* serve_sockets, but for the loops it calls.
LEMMA SocketsStep == IInv /\ (SocketsWait \/ EndSockets \/ CloseConnection
                      \/ \E f \in Fds : DispatchError(f) \/ DispatchAccept(f) \/ DispatchSocket(f)) => IInv'
<1> SUFFICES ASSUME IInv, SocketsWait \/ EndSockets \/ CloseConnection
                      \/ \E f \in Fds : DispatchError(f) \/ DispatchAccept(f) \/ DispatchSocket(f) PROVE IInv'
  OBVIOUS
<1> USE ConstantsAssumption DEF ConstantsAssumption, IInv
<1>1. ASSUME SocketsWait PROVE IInv'
  <2> USE <1>1 DEF SocketsWait, netVars, ctxVars
  <2> DEFINE mask(B, bare) ==
        [f \in Fds |-> IF f \in bare THEN {"ERR"} ELSE IF f \in B THEN Poll(f) ELSE {}]
  <2>a. PICK B \in SUBSET ReadySockets, bare \in SUBSET {f \in Fds : Broken(f)} :
          /\ bare \subseteq B
          /\ events' = mask(B, bare)
          /\ sockReady' = ReadySockets \ B
    BY DEF ReadySockets, TypeOK
  <2>b. ReadySockets \subseteq sockReady
    BY DEF ReadySockets
  <2>c. \A f \in Fds : Poll(f) \subseteq Flags /\ (f = Listen => Poll(f) \subseteq {"IN"} /\ f \notin bare)
    BY DEF Poll, Writable, Broken
  <2>d. events' \in [Fds -> SUBSET Flags] /\ events'[Listen] \subseteq {"IN"}
    BY <2>a, <2>c DEF Fds, Flags
  <2>e. \A f \in Fds : events'[f] # {} => f \in sockReady
    BY <2>a, <2>b
  <2>f. masterReady' \subseteq masterReady \cup {"socket"}
    OBVIOUS
  <2>1. TypeOK'
    BY <2>a, <2>b, <2>d, <2>f DEF TypeOK
  <2>2. ContextsOK' /\ QueueOK' /\ EventsOK' /\ QuitOK'
    BY <2>a, <2>b, <2>d, <2>e, <2>f DEF TypeOK, ContextsOK, QueueOK, EventsOK, QuitOK
  <2> QED
    BY <2>1, <2>2, SameClients
<1>2. ASSUME NEW f \in Fds, DispatchError(f) PROVE IInv'
  <2> USE <1>2 DEF DispatchError, netVars, epollVars, ctxVars
  <2>1. TypeOK'
    BY Bounds DEF TypeOK, Fds, Flags
  <2>2. ContextsOK' /\ QueueOK' /\ EventsOK' /\ QuitOK'
    BY DEF TypeOK, ContextsOK, QueueOK, EventsOK, QuitOK, Fds
  <2> QED
    BY <2>1, <2>2, SameClients
<1>3. ASSUME NEW f \in Fds, DispatchAccept(f) PROVE IInv'
  <2> USE <1>3 DEF DispatchAccept, netVars, epollVars, ctxVars
  <2>1. TypeOK'
    BY Bounds DEF TypeOK, Fds, Flags
  <2>2. ContextsOK' /\ QueueOK' /\ EventsOK' /\ QuitOK'
    BY DEF TypeOK, ContextsOK, QueueOK, EventsOK, QuitOK, Fds
  <2> QED
    BY <2>1, <2>2, SameClients
<1>4. ASSUME NEW f \in Fds, DispatchSocket(f) PROVE IInv'
  <2> USE <1>4 DEF DispatchSocket, netVars, epollVars, ctxVars
  <2>1. TypeOK'
    BY Bounds DEF TypeOK, Fds, Flags
  <2>2. ContextsOK' /\ QueueOK' /\ EventsOK' /\ QuitOK'
    BY DEF TypeOK, ContextsOK, QueueOK, EventsOK, QuitOK, Fds
  <2> QED
    BY <2>1, <2>2, SameClients
<1>5. ASSUME EndSockets PROVE IInv'
  <2> USE <1>5 DEF EndSockets, netVars, epollVars, ctxVars
  <2>1. TypeOK'
    BY Bounds DEF TypeOK, Fds, Flags
  <2>2. ContextsOK' /\ QueueOK' /\ EventsOK' /\ QuitOK'
    BY DEF TypeOK, ContextsOK, QueueOK, EventsOK, QuitOK, Fds
  <2> QED
    BY <2>1, <2>2, SameClients
<1>6. ASSUME CloseConnection PROVE IInv'
  <2> USE <1>6 DEF CloseConnection, CleanupContext, CloseTimer, NextEntry, Freed
  <2>0. ClientsCounted' /\ current_clients' \in Nat
    BY OneLessClient DEF EventsOK, ContextsOK, Fds
  <2>1. TypeOK'
    BY <2>0, Bounds DEF TypeOK, Fds, Flags
  <2>2. ContextsOK' /\ QueueOK' /\ EventsOK' /\ QuitOK'
    BY DEF TypeOK, ContextsOK, QueueOK, EventsOK, QuitOK, Fds
  <2> QED
    BY <2>1, <2>2, <2>0
<1> QED
  BY <1>1, <1>2, <1>3, <1>4, <1>5, <1>6

-----------------------------------------------------------------------------
\* serve_timers.
LEMMA TimersStep == IInv /\ ServeTimers => IInv'
<1> SUFFICES ASSUME IInv, ServeTimers PROVE IInv'
  OBVIOUS
<1> USE ConstantsAssumption DEF ConstantsAssumption, IInv
<1>1. ASSUME TimersWait PROVE IInv'
  <2> USE <1>1 DEF TimersWait, netVars, ctxVars
  <2>1. TypeOK'
    BY Bounds DEF TypeOK, Fds, Flags
  <2>2. ContextsOK' /\ QueueOK' /\ EventsOK' /\ QuitOK'
    BY DEF TypeOK, ContextsOK, QueueOK, EventsOK, QuitOK, Fds, Flags
  <2> QED
    BY <2>1, <2>2, SameClients
<1>2. ASSUME EndTimers PROVE IInv'
  <2> USE <1>2 DEF EndTimers, netVars, epollVars, ctxVars
  <2>1. TypeOK'
    BY Bounds DEF TypeOK, Fds, Flags
  <2>2. ContextsOK' /\ QueueOK' /\ EventsOK' /\ QuitOK'
    BY DEF TypeOK, ContextsOK, QueueOK, EventsOK, QuitOK, Fds
  <2> QED
    BY <2>1, <2>2, SameClients
<1>3. ASSUME NEW c \in Conns, TimerEvent(c) PROVE IInv'
  <2> USE <1>3 DEF TimerEvent, CleanupContext, CloseTimer, Freed
  <2>0. ClientsCounted' /\ current_clients' \in Nat
    BY OneLessClient DEF EventsOK, ContextsOK, Fds
  <2>1. TypeOK'
    BY <2>0, Bounds DEF TypeOK, Fds, Flags
  <2>2. ContextsOK' /\ QueueOK' /\ EventsOK' /\ QuitOK'
    BY DEF TypeOK, ContextsOK, QueueOK, EventsOK, QuitOK, Fds
  <2> QED
    BY <2>1, <2>2, <2>0
<1> QED
  BY <1>1, <1>2, <1>3 DEF ServeTimers

-----------------------------------------------------------------------------
LEMMA NextIInv == IInv /\ [Next]_vars => IInv'
<1> SUFFICES ASSUME IInv, [Next]_vars PROVE IInv'
  OBVIOUS
<1>1. CASE Environment
  BY <1>1, EnvironmentStep
<1>2. CASE Worker
  BY <1>2, TopStep, AcceptStep, ReadStep, WriteStep, SocketsStep, TimersStep
     DEF Worker, ServeSockets
<1>3. CASE UNCHANGED vars
  BY <1>3, SameClients
     DEF vars, netVars, epollVars, ctxVars, loopVars, IInv, TypeOK, ContextsOK,
         QueueOK, EventsOK, QuitOK, NoEvents
<1> QED
  BY <1>1, <1>2, <1>3 DEF Next

LEMMA Inductive == Spec => []IInv
BY InitIInv, NextIInv, PTL DEF Spec

\* Every variable keeps its type; the client counter never becomes negative.
THEOREM TypesCorrect == Spec => []TypeOK
<1>1. IInv => TypeOK
  BY DEF IInv
<1> QED
  BY <1>1, Inductive, PTL

\* serve_sockets and serve_timers never touch a context that either of them,
\* or the SIGQUIT branch, has freed.
THEOREM ContextsSafe == Spec => []NoUseAfterFree
<1>1. IInv => NoUseAfterFree
  BY DEF IInv, EventsOK, ContextsOK, NoUseAfterFree
<1> QED
  BY <1>1, Inductive, PTL

\* No context is freed twice.
THEOREM FreedOnce == Spec => []NoDoubleFree
<1>1. IInv => NoDoubleFree
  BY DEF IInv, ContextsOK, NoDoubleFree
<1> QED
  BY <1>1, Inductive, PTL

\* current_clients counts the allocated client contexts.
THEOREM CountCorrect == Spec => []ClientsCounted
<1>1. IInv => ClientsCounted
  BY DEF IInv
<1> QED
  BY <1>1, Inductive, PTL

LEMMA NoClients == IInv /\ current_clients = 0 => Live = {}
<1>1. IsFiniteSet(Live)
  BY FS_Subset, ConstantsAssumption DEF ConstantsAssumption, Live
<1> QED
  BY <1>1, FS_EmptySet DEF IInv, ClientsCounted

\* The loop is left only once every client is gone.
THEOREM ExitDrained == Spec => []ExitsDrained
<1>1. IInv => ExitsDrained
  BY NoClients DEF IInv, QuitOK, ExitsDrained
<1> QED
  BY <1>1, Inductive, PTL

-----------------------------------------------------------------------------
\* The states a connection goes through are those of ConnectionPool.
LEMMA PoolInitial == Init => Pool!PoolInit
<1> SUFFICES ASSUME Init PROVE Pool!PoolInit
  OBVIOUS
<1>1. \A c \in Conns : ctx[c] = "none"
  BY ConstantsAssumption DEF ConstantsAssumption, Init, Fds
<1> QED
  BY <1>1 DEF Init, Pool!PoolInit, Live

\* A step that changes no context, terminated or the way the loop ended is
\* a stutter of the pool.
LEMMA PoolStutter ==
  ASSUME \A c \in Conns : ctx'[c] = ctx[c], terminated' = terminated,
         pc = "exited" <=> pc' = "exited", pc = "aborted" <=> pc' = "aborted"
  PROVE  UNCHANGED Pool!poolVars
BY DEF Pool!poolVars, Live

LEMMA PoolClose ==
  ASSUME IInv, NEW c \in Conns, ctx[c] = "live", CleanupContext(c),
         terminated' = terminated, pc \notin {"exited", "aborted"},
         pc' \notin {"exited", "aborted"}
  PROVE  Pool!Close(c)
<1>1. Live' = Live \ {c} /\ c \in Live
  BY DEF IInv, TypeOK, CleanupContext, Freed, Live, Fds
<1>2. {d \in Conns : ctx'[d] = "freed"} = {d \in Conns : ctx[d] = "freed"} \cup {c}
  BY DEF IInv, TypeOK, CleanupContext, Freed, Fds
<1> QED
  BY <1>1, <1>2 DEF Pool!Close

LEMMA PoolStep == IInv /\ [Next]_vars => [Pool!PoolNext]_Pool!poolVars
<1> SUFFICES ASSUME IInv, [Next]_vars PROVE [Pool!PoolNext]_Pool!poolVars
  OBVIOUS
<1> USE ConstantsAssumption DEF ConstantsAssumption
<1>1. ASSUME NEW c \in Conns, AcceptOne(c) PROVE Pool!Open(c)
  <2>1. ~terminated /\ pc' = "accept" /\ ctx[c] = "none"
    BY <1>1 DEF IInv, EventsOK, ContextsOK, QueueOK, Fds, AcceptOne, CallAgain
  <2>2. Live' = Live \cup {c} /\ c \notin Live
    BY <1>1, <2>1 DEF IInv, TypeOK, AcceptOne, Live, Fds
  <2>3. /\ {d \in Conns : ctx'[d] = "freed"} = {d \in Conns : ctx[d] = "freed"}
        /\ c \notin {d \in Conns : ctx[d] = "freed"}
    BY <1>1, <2>1 DEF IInv, TypeOK, AcceptOne, Fds
  <2> QED
    BY <1>1, <2>1, <2>2, <2>3 DEF AcceptOne, Pool!Open
<1>2. CASE CloseConnection
  BY <1>2, PoolClose DEF CloseConnection, NextEntry, IInv, EventsOK, ContextsOK, Fds,
                         Pool!PoolNext
<1>3. ASSUME NEW c \in Conns, TimerEvent(c) PROVE Pool!Close(c)
  BY <1>3, PoolClose DEF TimerEvent, IInv, EventsOK, ContextsOK, Fds
<1>4. CASE HandleQuit
  <2>1. \A c \in Conns : ctx'[c] = ctx[c]
    BY <1>4 DEF IInv, TypeOK, HandleQuit, Fds
  <2>2. ~terminated /\ terminated'
    BY <1>4 DEF IInv, QuitOK, HandleQuit
  <2> QED
    BY <1>4, <2>1, <2>2 DEF HandleQuit, Live, Pool!Drain, Pool!PoolNext
<1>5. CASE Exit
  BY <1>5, NoClients DEF Exit, MayStop, ctxVars, Live, Pool!Stop, Pool!PoolNext
<1>6. CASE AcceptExit \/ WriteNothing \/ CallbackExit
  BY <1>6 DEF AcceptExit, WriteNothing, CallbackExit, ctxVars, Live, Pool!Crash, Pool!PoolNext
<1>7. CASE Environment
  BY <1>7, PoolStutter
     DEF Environment, Connect, ClientSend, ClientDrain, ClientEnd, TimerExpire,
         OtherAccepts, SendQuit, ctxVars, loopVars
<1>8. CASE \/ AcceptStop \/ \E c \in Conns : AcceptRefused(c)
           \/ ReadData \/ ReadError \/ LeaveRead
  BY <1>8, PoolStutter
     DEF AcceptStop, AcceptRefused, ReadData, ReadError, LeaveRead,
         NextEntry, CallAgain, ctxVars
<1>9. CASE WriteData \/ WriteError \/ LeaveWrite
  BY <1>9, PoolStutter
     DEF WriteData, WriteError, LeaveWrite, NextEntry, CallAgain, ctxVars
<1>10. CASE \/ SocketsWait \/ EndSockets \/ TimersWait \/ EndTimers
            \/ \E f \in Fds : DispatchError(f) \/ DispatchAccept(f) \/ DispatchSocket(f)
            \/ \E e \in {"socket", "timer", "signal"} : MasterWait(e)
  BY <1>10, PoolStutter
     DEF SocketsWait, EndSockets, TimersWait, EndTimers, DispatchError,
         DispatchAccept, DispatchSocket, MasterWait, ctxVars
<1>11. CASE UNCHANGED vars
  BY <1>11, PoolStutter DEF vars, ctxVars, loopVars
<1> QED
  BY <1>1, <1>2, <1>3, <1>4, <1>5, <1>6, <1>7, <1>8, <1>9, <1>10, <1>11
     DEF Next, Worker, ServeSockets, ServeTimers, ServeAccept, ServeRead,
         ServeWrite, Pool!PoolNext

\* The worker implements ConnectionPool: a connection is opened and closed at
\* most once, none is opened while it drains, it stops only when all are closed.
THEOREM PoolImplemented == Spec => ImplementsPool
<1> QED
  BY PoolInitial, PoolStep, Inductive, PTL DEF Spec, ImplementsPool, Pool!PoolSpec
==============================================================================
