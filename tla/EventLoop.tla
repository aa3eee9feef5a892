------------------------------ MODULE EventLoop ------------------------------
(***************************************************************************)
(* The reactor of one yotta worker (src/core/yta_event_loop.c): a master   *)
(* epoll set that watches a socket epoll set, a timer epoll set and a      *)
(* signalfd, all edge triggered, and the loops that serve what it reports. *)
(*                                                                         *)
(* The kernel half (readiness, ready lists, the accept queue) is modelled  *)
(* from how the code uses it; the process half follows the code one system *)
(* call at a time, so that clients, timers, signals and a process sharing  *)
(* the listening socket can act between any two of them.  The callbacks    *)
(* are those yotta.cpp registers, abstracted to which callback they arm    *)
(* next and how many bytes that callback has to write.                     *)
(***************************************************************************)
EXTENDS Integers, FiniteSets

CONSTANTS
  Conns,           \* connections clients may open, one identity each
  Listen,          \* the listening descriptor listen_fds[worker_id]
  MaxEvents,       \* MAX_EVENT_COUNT, the capacity of events[]
  MaxIn,           \* bound on the segments unread in a socket
  MaxRoom,         \* capacity of a socket's send buffer
  HeaderSize,      \* units in a response header
  SendSizes,       \* sizes a sendfile of a response body may have
  AcceptFails,     \* descriptors or memory may run out while accepting
  SharedListener,  \* another process accepts from the same socket (upgrade)
  NestedRewake     \* does the kernel re-signal the outer epoll set for what a
                   \* full inner epoll_wait left behind (kernel dependent)

ASSUME ConstantsAssumption ==
  /\ IsFiniteSet(Conns)
  /\ Listen \notin Conns
  /\ MaxEvents \in Nat \ {0}
  /\ MaxIn \in Nat \ {0}
  /\ MaxRoom \in Nat \ {0}
  /\ HeaderSize \in Nat \ {0}
  /\ SendSizes \subseteq Nat
  /\ AcceptFails \in BOOLEAN
  /\ SharedListener \in BOOLEAN
  /\ NestedRewake \in BOOLEAN

VARIABLES
  \* network, seen from the kernel's side of the socket
  peer,            \* what the client of each connection has done
  inq,             \* segments received and not yet read
  room,            \* free units in the send buffer
  backlog,         \* accept queue of the listening socket
  \* epoll sets and the signalfd
  watched,         \* interest set of socket_epoll_fd
  sockReady,       \* ready list of socket_epoll_fd
  timerReady,      \* ready list of timer_epoll_fd
  masterReady,     \* ready list of master_epoll_fd
  quitPending,     \* SIGQUIT is pending (the loop never reads the signalfd)
  \* struct yta_ctx, one per connection (and one for the listening socket)
  ctx,             \* is the memory of the context allocated
  rd,              \* read_callback != NULL
  wr,              \* write_callback and wtype: "none", "basic", "sendfile"
  out,             \* to_write - already_written
  timer,           \* the timerfd of the context
  \* struct loop_core and the locals of the serving functions
  pc, cur, events, terminated, current_clients

netVars   == <<peer, inq, room, backlog>>
epollVars == <<watched, sockReady, timerReady, masterReady, quitPending>>
ctxVars   == <<ctx, rd, wr, out, timer>>
loopVars  == <<pc, cur, events, terminated, current_clients>>
vars      == <<netVars, epollVars, ctxVars, loopVars>>

Fds   == Conns \cup {Listen}
Flags == {"IN", "OUT", "ERR"}
Live  == {c \in Conns : ctx[c] = "live"}

(***************************************************************************)
(* Kernel: what a descriptor would report if polled now.                   *)
(***************************************************************************)
Readable(f) == IF f = Listen THEN backlog # {}
                             ELSE inq[f] > 0 \/ peer[f] \in {"fin", "reset"}
Writable(f) == f \in Conns /\ (room[f] > 0 \/ peer[f] = "reset")
Broken(f)   == f \in Conns /\ peer[f] = "reset"

Poll(f) == {e \in Flags : \/ e = "IN"  /\ Readable(f)
                          \/ e = "OUT" /\ Writable(f)
                          \/ e = "ERR" /\ Broken(f)}

ReadySockets == {f \in sockReady : Poll(f) # {}}

\* Something happened on f: an edge, if f is in the interest set.
Notify(f) ==
  IF f \in watched
  THEN /\ sockReady' = sockReady \cup {f}
       /\ masterReady' = masterReady \cup {"socket"}
  ELSE UNCHANGED <<sockReady, masterReady>>

(***************************************************************************)
(* Environment: clients, timers, the operator, the other generation.       *)
(***************************************************************************)
Connect(c) ==
  /\ peer[c] = "idle"
  /\ peer' = [peer EXCEPT ![c] = "open"]
  /\ backlog' = backlog \cup {c}
  /\ Notify(Listen)
  /\ UNCHANGED <<inq, room, watched, timerReady, quitPending>>
  /\ UNCHANGED <<ctxVars, loopVars>>

ClientSend(c) ==
  /\ peer[c] = "open" /\ inq[c] < MaxIn
  /\ inq' = [inq EXCEPT ![c] = @ + 1]
  /\ Notify(c)
  /\ UNCHANGED <<peer, room, backlog, watched, timerReady, quitPending>>
  /\ UNCHANGED <<ctxVars, loopVars>>

\* The client stops sending (FIN) or the connection is reset (RST).
ClientEnd(c, how) ==
  /\ \/ how = "fin" /\ peer[c] = "open"
     \/ how = "reset" /\ peer[c] \in {"open", "fin"}
  /\ peer' = [peer EXCEPT ![c] = how]
  /\ Notify(c)
  /\ UNCHANGED <<inq, room, backlog, watched, timerReady, quitPending>>
  /\ UNCHANGED <<ctxVars, loopVars>>

\* The client takes what was sent: a full send buffer has room again.
ClientDrain(c) ==
  /\ peer[c] \in {"open", "fin"} /\ room[c] = 0
  /\ room' = [room EXCEPT ![c] = MaxRoom]
  /\ Notify(c)
  /\ UNCHANGED <<peer, inq, backlog, watched, timerReady, quitPending>>
  /\ UNCHANGED <<ctxVars, loopVars>>

TimerExpire(c) ==
  /\ timer[c] = "armed"
  /\ timer' = [timer EXCEPT ![c] = "expired"]
  /\ timerReady' = timerReady \cup {c}
  /\ masterReady' = masterReady \cup {"timer"}
  /\ UNCHANGED <<netVars, watched, sockReady, quitPending>>
  /\ UNCHANGED <<ctx, rd, wr, out, loopVars>>

\* A further SIGQUIT while one is pending is not queued and wakes nobody.
SendQuit ==
  /\ ~quitPending /\ pc \notin {"exited", "aborted"}
  /\ quitPending' = TRUE
  /\ masterReady' = masterReady \cup {"signal"}
  /\ UNCHANGED <<netVars, watched, sockReady, timerReady, ctxVars, loopVars>>

\* During an upgrade the worker of the other generation with the same index
\* accepts from the same socket.
OtherAccepts(c) ==
  /\ SharedListener /\ c \in backlog
  /\ backlog' = backlog \ {c}
  /\ peer' = [peer EXCEPT ![c] = "gone"]
  /\ UNCHANGED <<inq, room, epollVars, ctxVars, loopVars>>

Environment ==
  \/ \E c \in Conns : \/ Connect(c) \/ ClientSend(c) \/ ClientDrain(c)
                      \/ ClientEnd(c, "fin") \/ ClientEnd(c, "reset")
                      \/ TimerExpire(c) \/ OtherAccepts(c)
  \/ SendQuit

(***************************************************************************)
(* cleanup_context: both descriptors leave their epoll sets, the close     *)
(* callback runs and the context is freed.  Freeing it twice is recorded.  *)
(***************************************************************************)
Freed(state) == IF state = "live" THEN "freed" ELSE "corrupt"

\* Fault variant of CloseTimer: close(ctx->timer_fd) is forgotten.
KeepTimer(c) == UNCHANGED <<timer, timerReady>>

CloseTimer(c) ==
  /\ timer' = [timer EXCEPT ![c] = "off"]
  /\ timerReady' = timerReady \ {c}

CleanupContext(c) ==
  /\ peer' = [peer EXCEPT ![c] = "gone"]
  /\ inq' = [inq EXCEPT ![c] = 0]
  /\ room' = [room EXCEPT ![c] = 0]
  /\ watched' = watched \ {c}
  /\ sockReady' = sockReady \ {c}
  /\ CloseTimer(c)
  /\ ctx' = [ctx EXCEPT ![c] = Freed(@)]
  /\ rd' = [rd EXCEPT ![c] = FALSE]
  /\ wr' = [wr EXCEPT ![c] = "none"]
  /\ out' = [out EXCEPT ![c] = 0]
  /\ current_clients' = current_clients - 1

(***************************************************************************)
(* serve: the top of the loop takes exactly one event from the master set. *)
(***************************************************************************)
MasterEvents == {e \in masterReady : \/ e = "socket" /\ ReadySockets # {}
                                     \/ e = "timer"  /\ timerReady # {}
                                     \/ e = "signal" /\ quitPending}

\* Fault variant of MayStop: the loop ends as soon as it is told to.
MayStopEarly == terminated

MayStop == terminated /\ current_clients = 0

MasterWait(e) ==
  /\ pc = "master" /\ ~MayStop
  /\ e \in MasterEvents
  /\ masterReady' = masterReady \ {e}
  /\ pc' = e
  /\ UNCHANGED <<netVars, watched, sockReady, timerReady, quitPending, ctxVars>>
  /\ UNCHANGED <<cur, events, terminated, current_clients>>

Exit ==
  /\ pc = "master" /\ MayStop
  /\ pc' = "exited"
  /\ UNCHANGED <<netVars, epollVars, ctxVars, cur, events, terminated, current_clients>>

HandleQuit ==
  /\ pc = "signal"
  /\ watched' = watched \ {Listen}
  /\ sockReady' = sockReady \ {Listen}
  /\ terminated' = TRUE
  /\ ctx' = [ctx EXCEPT ![Listen] = Freed(@)]
  /\ pc' = "master"
  /\ UNCHANGED <<netVars, timerReady, masterReady, quitPending>>
  /\ UNCHANGED <<rd, wr, out, timer, cur, events, current_clients>>

(***************************************************************************)
(* serve_sockets: epoll_wait(socket_epoll_fd, ..., -1) fills events[] with *)
(* at most MaxEvents descriptors and blocks while none is ready.  A broken *)
(* connection may be reported with EPOLLERR alone or with everything else  *)
(* it would poll as.                                                       *)
(***************************************************************************)
NoEvents == [f \in Fds |-> {}]

SocketsWait ==
  /\ pc = "socket"
  /\ \E B \in SUBSET ReadySockets :
       /\ B # {}
       /\ Cardinality(B) <= MaxEvents
       /\ B = ReadySockets \/ Cardinality(B) = MaxEvents
       /\ \E bare \in SUBSET {f \in B : Broken(f)} :
            events' = [f \in Fds |-> IF f \in bare THEN {"ERR"}
                                     ELSE IF f \in B THEN Poll(f) ELSE {}]
       /\ sockReady' = ReadySockets \ B
       /\ masterReady' = IF NestedRewake /\ B # ReadySockets
                         THEN masterReady \cup {"socket"} ELSE masterReady
  /\ pc' = "events"
  /\ UNCHANGED <<netVars, watched, timerReady, quitPending, ctxVars>>
  /\ UNCHANGED <<cur, terminated, current_clients>>

\* The next entry of events[] is a bare error: cleanup_context.
DispatchError(f) ==
  /\ pc = "events" /\ events[f] = {"ERR"}
  /\ cur' = f /\ pc' = "close"
  /\ UNCHANGED <<netVars, epollVars, ctxVars, events, terminated, current_clients>>

DispatchAccept(f) ==
  /\ pc = "events" /\ events[f] \notin {{}, {"ERR"}}
  /\ ~terminated /\ f = Listen
  /\ cur' = f /\ pc' = "accept"
  /\ UNCHANGED <<netVars, epollVars, ctxVars, events, terminated, current_clients>>

DispatchSocket(f) ==
  /\ pc = "events" /\ events[f] \notin {{}, {"ERR"}}
  /\ terminated \/ f # Listen
  /\ cur' = f
  /\ pc' = IF "IN" \in events[f] THEN "read" ELSE "write"
  /\ UNCHANGED <<netVars, epollVars, ctxVars, events, terminated, current_clients>>

\* The for loop moves on: the entry of cur is consumed.
NextEntry ==
  /\ events' = [events EXCEPT ![cur] = {}]
  /\ cur' = Listen
  /\ pc' = "events"

\* Fault variant of EndSockets: a timer event extracted together with the
\* socket event is served next, whatever serving the sockets changed.
EndSocketsThenTimers ==
  /\ pc = "events" /\ events = NoEvents
  /\ "timer" \in masterReady
  /\ masterReady' = masterReady \ {"timer"}
  /\ pc' = "timer"
  /\ UNCHANGED <<netVars, watched, sockReady, timerReady, quitPending, ctxVars>>
  /\ UNCHANGED <<cur, events, terminated, current_clients>>

EndSockets ==
  /\ pc = "events" /\ events = NoEvents
  /\ pc' = "master"
  /\ UNCHANGED <<netVars, epollVars, ctxVars, cur, events, terminated, current_clients>>

(***************************************************************************)
(* accept_loop, until EAGAIN.  A failing accept() (EMFILE) also leaves the *)
(* loop; a failing calloc, setsockopt, timerfd_create or epoll_ctl ends    *)
(* the process.                                                            *)
(***************************************************************************)
\* while (1), while (status == YTA_LOOP_CONTINUE && ...): another system call.
CallAgain == UNCHANGED <<pc, cur, events>>

\* Fault variant of SetTimer: the connection timer is not set.
NoTimer(c) == UNCHANGED timer

SetTimer(c) == timer' = [timer EXCEPT ![c] = "armed"]

AcceptOne(c) ==
  /\ pc = "accept" /\ c \in backlog
  /\ backlog' = backlog \ {c}
  /\ ctx' = [ctx EXCEPT ![c] = "live"]
  /\ rd' = [rd EXCEPT ![c] = TRUE]
  /\ SetTimer(c)
  /\ watched' = watched \cup {c}
  /\ sockReady' = sockReady \cup {c}
  /\ masterReady' = masterReady \cup {"socket"}
  /\ current_clients' = current_clients + 1
  /\ CallAgain
  /\ UNCHANGED <<peer, inq, room, timerReady, quitPending, wr, out, terminated>>

\* The accept callback answers YTA_EXIT: context and socket are dropped.
AcceptRefused(c) ==
  /\ pc = "accept" /\ c \in backlog
  /\ backlog' = backlog \ {c}
  /\ peer' = [peer EXCEPT ![c] = "gone"]
  /\ inq' = [inq EXCEPT ![c] = 0]
  /\ room' = [room EXCEPT ![c] = 0]
  /\ CallAgain
  /\ UNCHANGED <<epollVars, ctxVars, terminated, current_clients>>

AcceptStop ==
  /\ pc = "accept"
  /\ backlog = {} \/ AcceptFails
  /\ NextEntry
  /\ UNCHANGED <<netVars, epollVars, ctxVars, terminated, current_clients>>

AcceptExit ==
  /\ pc = "accept" /\ backlog # {} /\ AcceptFails
  /\ pc' = "aborted"
  /\ UNCHANGED <<netVars, epollVars, ctxVars, cur, events, terminated, current_clients>>

(***************************************************************************)
(* The callbacks of yotta.cpp, as far as the loop can tell.                *)
(***************************************************************************)
ArmRead(c) ==
  /\ rd' = [rd EXCEPT ![c] = TRUE]
  /\ wr' = [wr EXCEPT ![c] = "none"]
  /\ out' = [out EXCEPT ![c] = 0]

ArmWrite(c, wtype, size) ==
  /\ rd' = [rd EXCEPT ![c] = FALSE]
  /\ wr' = [wr EXCEPT ![c] = wtype]
  /\ out' = [out EXCEPT ![c] = size]

\* read_callback_http: the request is still partial, or a response is ready.
ReadCallback(c) == ArmRead(c) \/ ArmWrite(c, "basic", HeaderSize)

\* A callback ends the worker: std::stoi throws at the number of a range, or
\* setsockopt(TCP_CORK) fails when a response begins or is complete.
CallbackExit ==
  /\ \/ pc = "read" /\ rd[cur] /\ inq[cur] > 0
     \/ /\ pc = "write" /\ wr[cur] # "none" /\ peer[cur] # "reset"
        /\ out[cur] \in 1 .. room[cur]
  /\ pc' = "aborted"
  /\ UNCHANGED <<netVars, epollVars, ctxVars, cur, events, terminated, current_clients>>

\* write_header_callback sends the body or finishes; http_finish_callback
\* waits for the next request.
WriteCallback(c) ==
  \/ wr[c] = "basic" /\ \E n \in SendSizes : ArmWrite(c, "sendfile", n)
  \/ ArmRead(c)

(***************************************************************************)
(* read_loop on the connection of cur: read() until EAGAIN, an error, or   *)
(* no callback is registered.                                              *)
(***************************************************************************)
ReadData ==
  /\ pc = "read" /\ rd[cur] /\ inq[cur] > 0
  /\ \E n \in 1 .. inq[cur] : inq' = [inq EXCEPT ![cur] = @ - n]
  /\ ReadCallback(cur)
  /\ CallAgain
  /\ UNCHANGED <<peer, room, backlog, epollVars, ctx, timer, terminated, current_clients>>

ReadError ==
  /\ pc = "read" /\ rd[cur] /\ inq[cur] = 0 /\ peer[cur] \in {"fin", "reset"}
  /\ pc' = "close"
  /\ UNCHANGED <<netVars, epollVars, ctxVars, cur, events, terminated, current_clients>>

LeaveRead ==
  /\ pc = "read"
  /\ ~rd[cur] \/ (inq[cur] = 0 /\ peer[cur] = "open")
  /\ IF "OUT" \in events[cur] THEN pc' = "write" /\ UNCHANGED <<cur, events>>
                              ELSE NextEntry
  /\ UNCHANGED <<netVars, epollVars, ctxVars, terminated, current_clients>>

(***************************************************************************)
(* write_loop: write() or sendfile() until EAGAIN, an error, or no         *)
(* callback is registered.  A call that transfers nothing hits assert(0).  *)
(***************************************************************************)
WriteData ==
  /\ pc = "write" /\ wr[cur] # "none" /\ peer[cur] # "reset"
  /\ \E n \in 1 .. out[cur] :
       /\ n <= room[cur]
       /\ room' = [room EXCEPT ![cur] = @ - n]
       /\ IF n = out[cur] THEN WriteCallback(cur)
          ELSE out' = [out EXCEPT ![cur] = @ - n] /\ UNCHANGED <<rd, wr>>
  /\ CallAgain
  /\ UNCHANGED <<peer, inq, backlog, epollVars, ctx, timer, terminated, current_clients>>

WriteError ==
  /\ pc = "write" /\ wr[cur] # "none" /\ out[cur] > 0 /\ peer[cur] = "reset"
  /\ pc' = "close"
  /\ UNCHANGED <<netVars, epollVars, ctxVars, cur, events, terminated, current_clients>>

WriteNothing ==
  /\ pc = "write" /\ wr[cur] # "none" /\ out[cur] = 0
  /\ pc' = "aborted"
  /\ UNCHANGED <<netVars, epollVars, ctxVars, cur, events, terminated, current_clients>>

LeaveWrite ==
  /\ pc = "write"
  /\ wr[cur] = "none" \/ (out[cur] > 0 /\ room[cur] = 0 /\ peer[cur] # "reset")
  /\ NextEntry
  /\ UNCHANGED <<netVars, epollVars, ctxVars, terminated, current_clients>>

\* A bare error, or status == YTA_LOOP_ERROR.
CloseConnection ==
  /\ pc = "close"
  /\ CleanupContext(cur)
  /\ NextEntry
  /\ UNCHANGED <<backlog, masterReady, quitPending, terminated>>

(***************************************************************************)
(* serve_timers: the timer callback always answers YTA_EXIT.               *)
(***************************************************************************)
TimersWait ==
  /\ pc = "timer"
  /\ \E B \in SUBSET timerReady :
       /\ B # {}
       /\ Cardinality(B) <= MaxEvents
       /\ B = timerReady \/ Cardinality(B) = MaxEvents
       /\ events' = [f \in Fds |-> IF f \in B THEN {"IN"} ELSE {}]
       /\ timerReady' = timerReady \ B
       /\ masterReady' = IF NestedRewake /\ B # timerReady
                         THEN masterReady \cup {"timer"} ELSE masterReady
  /\ pc' = "timerevents"
  /\ UNCHANGED <<netVars, watched, sockReady, quitPending, ctxVars>>
  /\ UNCHANGED <<cur, terminated, current_clients>>

TimerEvent(c) ==
  /\ pc = "timerevents" /\ events[c] # {}
  /\ CleanupContext(c)
  /\ events' = [events EXCEPT ![c] = {}]
  /\ UNCHANGED <<backlog, masterReady, quitPending, pc, cur, terminated>>

\* Fault variant of EndTimers: serve_timers returns before its last entry.
EndTimersEarly ==
  /\ pc = "timerevents"
  /\ pc' = "master" /\ events' = NoEvents
  /\ UNCHANGED <<netVars, epollVars, ctxVars, cur, terminated, current_clients>>

EndTimers ==
  /\ pc = "timerevents" /\ events = NoEvents
  /\ pc' = "master"
  /\ UNCHANGED <<netVars, epollVars, ctxVars, cur, events, terminated, current_clients>>

(***************************************************************************)
(* The worker.                                                             *)
(***************************************************************************)
ServeAccept == AcceptStop \/ AcceptExit \/ \E c \in Conns : AcceptOne(c) \/ AcceptRefused(c)
ServeRead   == ReadData \/ ReadError \/ LeaveRead
ServeWrite  == WriteData \/ WriteError \/ WriteNothing \/ LeaveWrite

ServeSockets ==
  \/ SocketsWait
  \/ \E f \in Fds : DispatchError(f) \/ DispatchAccept(f) \/ DispatchSocket(f)
  \/ ServeAccept \/ ServeRead \/ ServeWrite \/ CallbackExit
  \/ CloseConnection
  \/ EndSockets

ServeTimers == TimersWait \/ EndTimers \/ \E c \in Conns : TimerEvent(c)

Worker ==
  \/ \E e \in {"socket", "timer", "signal"} : MasterWait(e)
  \/ Exit \/ HandleQuit
  \/ ServeSockets \/ ServeTimers

Init ==
  /\ peer = [c \in Conns |-> "idle"]
  /\ inq = [c \in Conns |-> 0]
  /\ room = [c \in Conns |-> MaxRoom]
  /\ backlog = {}
  /\ watched = {Listen}
  /\ sockReady = {} /\ timerReady = {} /\ masterReady = {}
  /\ quitPending = FALSE
  /\ ctx = [f \in Fds |-> IF f = Listen THEN "live" ELSE "none"]
  /\ rd = [c \in Conns |-> FALSE]
  /\ wr = [c \in Conns |-> "none"]
  /\ out = [c \in Conns |-> 0]
  /\ timer = [c \in Conns |-> "off"]
  /\ pc = "master" /\ cur = Listen /\ events = NoEvents
  /\ terminated = FALSE /\ current_clients = 0

Next == Environment \/ Worker

Spec == Init /\ [][Next]_vars

(***************************************************************************)
(* Fairness.  The process is scheduled; an armed timer expires; the master *)
(* ready list is a FIFO, so an event in it is not overtaken for ever; and  *)
(* no client outpaces read() for ever (read_loop itself has no bound).     *)
(***************************************************************************)
Fairness ==
  /\ WF_vars(Worker)
  /\ \A c \in Conns : WF_vars(TimerExpire(c))
  /\ \A e \in {"socket", "timer", "signal"} : SF_vars(MasterWait(e))
  /\ SF_vars(LeaveRead)

FairSpec == Spec /\ Fairness

(***************************************************************************)
(* Properties.                                                             *)
(***************************************************************************)
\* Types of the variables, for the states of the loop of serve.
TypeOK ==
  /\ peer \in [Conns -> {"idle", "open", "fin", "reset", "gone"}]
  /\ inq \in [Conns -> 0 .. MaxIn]
  /\ room \in [Conns -> 0 .. MaxRoom]
  /\ backlog \subseteq Conns
  /\ watched \subseteq Fds /\ sockReady \subseteq Fds /\ timerReady \subseteq Conns
  /\ masterReady \subseteq {"socket", "timer", "signal"}
  /\ quitPending \in BOOLEAN
  /\ ctx \in [Fds -> {"none", "live", "freed", "corrupt"}]
  /\ rd \in [Conns -> BOOLEAN]
  /\ wr \in [Conns -> {"none", "basic", "sendfile"}]
  /\ out \in [Conns -> Nat]
  /\ timer \in [Conns -> {"off", "armed", "expired"}]
  /\ pc \in {"master", "socket", "timer", "signal", "events", "timerevents",
             "accept", "read", "write", "close", "exited", "aborted"}
  /\ cur \in Fds
  /\ events \in [Fds -> SUBSET Flags]
  /\ terminated \in BOOLEAN
  /\ current_clients \in Nat

\* Every entry of events[] still to be served points to an allocated context,
\* although sockets and timers share contexts and either may free them
\* (serve_sockets, serve_timers and cleanup_context together).
NoUseAfterFree == \A f \in Fds : events[f] # {} => ctx[f] = "live"

\* No context is freed twice, the listening one included however often
\* SIGQUIT is sent (cleanup_context, the signal branch of serve).
NoDoubleFree == \A f \in Fds : ctx[f] # "corrupt"

\* current_clients, the counter that decides when a terminated worker stops,
\* is the number of allocated client contexts (accept_loop, cleanup_context).
ClientsCounted == current_clients = Cardinality(Live)

\* Once the master set has said which inner set to serve, that inner
\* epoll_wait, which has no timeout, has something to report (the comment on
\* extracting a single event in serve).
InnerWaitNeverBlocks ==
  /\ pc = "socket" => ReadySockets # {}
  /\ pc = "timer" => timerReady # {}

\* ... unless another generation took the connection the listening socket was
\* ready for: nothing else empties an inner set between the two epoll_waits.
OnlySharingBlocks ==
  InnerWaitNeverBlocks \/ (SharedListener /\ pc = "socket" /\ Listen \in sockReady)

\* Back at the top of the loop, a connection with an unfinished response and
\* room in its send buffer, or a reset one, is in the ready list and the
\* master set knows: no edge of EPOLLOUT was lost (write_loop, serve_sockets).
WriteNeverStalls ==
  NestedRewake /\ pc = "master" =>
    \A c \in Live : wr[c] # "none" /\ Writable(c)
                      => c \in sockReady /\ "socket" \in masterReady

\* A reset connection is never forgotten, whichever callback is armed: it is
\* ready again at the top of the loop (edge-triggered EPOLLERR).
ResetNeverMissed ==
  NestedRewake /\ pc = "master" =>
    \A c \in Live : peer[c] = "reset" => c \in sockReady /\ "socket" \in masterReady

\* Back at the top of the loop, connections wait in the accept queue only if
\* the listening socket is ready and the master set knows: accept_loop takes
\* them all under EPOLLET, unless accept() failed.
AcceptNeverStalls ==
  NestedRewake /\ ~AcceptFails /\ pc = "master" /\ ~terminated /\ backlog # {}
    => Listen \in sockReady /\ "socket" \in masterReady

\* Back at the top of the loop, every expired timer is still to be reported:
\* serve_timers closes what it takes, and closing a connection takes back no
\* other connection's expiry.
ExpiryNeverMissed ==
  NestedRewake /\ pc = "master" =>
    \A c \in Live : timer[c] = "expired" => c \in timerReady /\ "timer" \in masterReady

\* A terminated worker leaves the loop only with every client gone
\* (while (!terminated || current_clients)).
ExitsDrained == pc = "exited" => Live = {}

\* Connection c is reported again, or has an entry of events[] that will have it
\* read or closed.
WillBeServed(c) ==
  \/ c \in sockReady
  \/ events[c] = {"ERR"} \/ ("IN" \in events[c] /\ ~(pc = "write" /\ cur = c))

\* It waits for a request and has unread data that nothing makes the loop read.
Unheard(c) == ctx[c] = "live" /\ rd[c] /\ inq[c] > 0 /\ ~WillBeServed(c)

\* An edge of EPOLLIN is lost only to data that came while a response was being
\* written: http_finish_callback then waits for a request without a read(), but
\* whoever waits for the response before asking again is heard (read_loop,
\* write_loop, serve_sockets).
OnlyPipelinedUnheard ==
  [][\A c \in Conns : Unheard(c)' /\ ~Unheard(c)
                       => pc = "write" /\ cur = c /\ wr[c] # "none" /\ inq[c] > 0]_vars

\* A worker told to quit stops, whatever its clients do (signal branch of
\* serve, the loop condition, the connection timers).
QuitDrains == quitPending ~> pc \in {"exited", "aborted"}

\* A connection is closed in the end even if its client never acts again
\* (yta_async_timer in the accept callback, serve_timers).
ForcedClose == \A c \in Conns : ctx[c] = "live" ~> ctx[c] = "freed" \/ pc = "aborted"

(***************************************************************************)
(* The worker implements ConnectionPool.                                   *)
(***************************************************************************)
Pool == INSTANCE ConnectionPool WITH
          open <- Live,
          closed <- {c \in Conns : ctx[c] = "freed"},
          draining <- terminated,
          status <- IF pc = "exited" THEN "stopped"
                    ELSE IF pc = "aborted" THEN "crashed" ELSE "running"

\* The worker's contexts follow the life cycle of ConnectionPool.
ImplementsPool == Pool!PoolSpec
==============================================================================
